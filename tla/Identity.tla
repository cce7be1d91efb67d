------------------------------ MODULE Identity ------------------------------
(***************************************************************************)
(* Sign-in of one person: login attempts and their callbacks               *)
(* (identity/auth), browser sessions and the rotation of their provider    *)
(* tokens (identity/session), and the events of the identity provider that *)
(* change or disable the user (identity/kindesync).                        *)
(*                                                                         *)
(* The database runs READ COMMITTED: a statement reads one snapshot and    *)
(* then updates the rows it finds, looking at their newest version once    *)
(* more.  ApplyKindeIdentityEvent and UpsertIdentityUser are therefore two *)
(* steps each.  Events are numbered in the order they occurred.            *)
(***************************************************************************)
EXTENDS Naturals, FiniteSets

CONSTANTS
    IdentityEvents,        \* identity events of the person: 1..n, by occurred_at
    DisableEvents,         \* the deletions and suspensions among them
    EventRequests,         \* webhook requests in flight at the same time
    Logins,                \* login attempts; a session is named after the one that made it
    Callbacks,             \* callback requests
    Resolvers,             \* requests that resolve a session
    MaxRotations,          \* bound: rotations of one session's refresh token
    IdentityFaults         \* bound: failures of the provider, lost commits

ASSUME IdentityAssumption ==
    /\ IdentityEvents \subseteq Nat \ {0} /\ DisableEvents \subseteq IdentityEvents
    /\ MaxRotations \in Nat /\ IdentityFaults \in Nat

VARIABLES
    account,     \* row of users: "absent", "active", "disabled"
    profile,     \* the event the profile comes from, 0 for a sign-in
    recorded,    \* rows of kinde_identity_events
    eventReq,    \* EventRequests -> a statement between its snapshot and its write
    login,       \* Logins -> row of oidc_login_attempts: "new", "open", "gone"
    callback,    \* Callbacks -> how far a callback got
    session,     \* Logins -> row of sessions
    granted,     \* Logins -> refresh token the provider accepts next
    resolver,    \* Resolvers -> how far a request got
    eventApplied,\* history: IdentityEvents -> how often the event changed the user
    created,     \* history: Logins -> sessions made by the attempt
    reused,      \* history: sessions whose spent refresh token was presented again
    lost,        \* history: sessions of which a rotation was not stored
    identityFaults

identityVars == <<account, profile, recorded, eventReq, login, callback, session, granted,
                  resolver, eventApplied, created, reused, lost, identityFaults>>

NoEvent == [ev |-> 0, seen |-> {}, user |-> FALSE, live |-> {}]
NoCallback == [at |-> "idle", login |-> "none", tombstone |-> FALSE]
NoBrowserSession == [status |-> "none", token |-> 0, fresh |-> FALSE]
Session == [status : {"live", "revoked"}, token : 0..MaxRotations, fresh : BOOLEAN]
NotResolving == [at |-> "idle", session |-> "none", token |-> 0]

LiveSessions == {s \in Logins : session[s].status = "live"}

IdentityInit ==
    /\ account = "absent" /\ profile = 0 /\ recorded = {}
    /\ eventReq = [d \in EventRequests |-> NoEvent]
    /\ login = [l \in Logins |-> "new"] /\ callback = [c \in Callbacks |-> NoCallback]
    /\ session = [s \in Logins |-> NoBrowserSession] /\ granted = [s \in Logins |-> 0]
    /\ resolver = [r \in Resolvers |-> NotResolving]
    /\ eventApplied = [e \in IdentityEvents |-> 0] /\ created = [l \in Logins |-> 0]
    /\ reused = {} /\ lost = {} /\ identityFaults = 0

IdentityFault == identityFaults < IdentityFaults /\ identityFaults' = identityFaults + 1

SignInStill == UNCHANGED <<login, callback, created>>
RefreshStill == UNCHANGED <<granted, resolver, reused, lost>>
EventsStill == UNCHANGED <<recorded, eventReq, eventApplied>>

\* FOR UPDATE: the refresh that holds the row of s until its transaction ends.
Locked(s) == \E r \in Resolvers :
    resolver[r].session = s /\ resolver[r].at \in {"refreshing", "rotated"}

-----------------------------------------------------------------------------
(* Identity events                                                         *)

\* Receive: the statement starts and takes its snapshot.  The provider delivers in any order,
\* late and more than once.
ReceiveEvent(d) ==
    /\ eventReq[d] = NoEvent
    /\ \E e \in IdentityEvents : eventReq' = [eventReq EXCEPT ![d] =
          [ev |-> e, seen |-> recorded, user |-> account # "absent", live |-> LiveSessions]]
    /\ UNCHANGED <<account, profile, recorded, session, eventApplied, identityFaults>>
    /\ SignInStill /\ RefreshStill

\* ON CONFLICT (issuer, event_id) DO NOTHING
Replayed(e) == e \in recorded

\* current_event: a disabling event, or one with no later event in the snapshot.
CurrentEvent(d) ==
    \/ eventReq[d].ev \in DisableEvents
    \/ \A e \in eventReq[d].seen : e <= eventReq[d].ev

\* The statement writes: the event, the user found in the snapshot, and, with a disabled user,
\* the sessions of the snapshot.  The rows of running refreshes are waited for.
ApplyKindeIdentityEvent(d) ==
    LET e == eventReq[d].ev
        disable == e \in DisableEvents
        changes == /\ ~Replayed(e) /\ CurrentEvent(d) /\ eventReq[d].user
                   /\ (disable \/ account = "active")
    IN  /\ e # 0
        /\ changes /\ disable => \A s \in eventReq[d].live : ~Locked(s)
        /\ recorded' = recorded \cup {e}
        /\ eventReq' = [eventReq EXCEPT ![d] = NoEvent]
        /\ IF changes
           THEN /\ eventApplied' = [eventApplied EXCEPT ![e] = @ + 1]
                /\ account' = IF disable THEN "disabled" ELSE account
                /\ profile' = IF disable THEN profile ELSE e
                /\ session' = [s \in Logins |->
                      IF disable /\ s \in eventReq[d].live
                      THEN [session[s] EXCEPT !.status = "revoked"] ELSE session[s]]
           ELSE UNCHANGED <<eventApplied, account, profile, session>>
        /\ UNCHANGED identityFaults /\ SignInStill /\ RefreshStill

\* users.Service.Delete: the sessions stay, their reads find no enabled user.
DisableAccount ==
    /\ account = "active" /\ account' = "disabled"
    /\ UNCHANGED <<profile, session, identityFaults>>
    /\ SignInStill /\ RefreshStill /\ EventsStill

-----------------------------------------------------------------------------
(* Sign-in                                                                 *)

\* Login: the attempt is stored and the browser sent to the provider.
Login(l) ==
    /\ login[l] = "new" /\ login' = [login EXCEPT ![l] = "open"]
    /\ UNCHANGED <<account, profile, session, callback, created, identityFaults>>
    /\ RefreshStill /\ EventsStill

\* Five minutes pass: the attempt is no longer found.
LoginExpires(l) ==
    /\ login[l] = "open" /\ login' = [login EXCEPT ![l] = "gone"]
    /\ UNCHANGED <<account, profile, session, callback, created, identityFaults>>
    /\ RefreshStill /\ EventsStill

\* ConsumeOIDCLoginAttempt: DELETE ... RETURNING
Consumed(l) == "gone"

\* Callback: consume the attempt; a browser that repeats the request finds none.
ConsumeLogin(c, l) ==
    /\ callback[c] = NoCallback /\ login[l] = "open"
    /\ login' = [login EXCEPT ![l] = Consumed(l)]
    /\ callback' = [callback EXCEPT ![c] = [NoCallback EXCEPT !.at = "exchange", !.login = l]]
    /\ UNCHANGED <<account, profile, session, created, identityFaults>>
    /\ RefreshStill /\ EventsStill

EndCallback(c) == callback' = [callback EXCEPT ![c] = NoCallback]

\* Exchange succeeds and UpsertIdentityUser takes its snapshot: is there a tombstone?
ExchangeCode(c) ==
    /\ callback[c].at = "exchange"
    /\ callback' = [callback EXCEPT ![c] =
          [@ EXCEPT !.at = "upsert", !.tombstone = recorded \cap DisableEvents # {}]]
    /\ UNCHANGED <<account, profile, session, login, created, identityFaults>>
    /\ RefreshStill /\ EventsStill

\* Exchange fails, or the request breaks off; the attempt is spent.
CallbackFails(c) ==
    /\ IdentityFault /\ callback[c] # NoCallback /\ EndCallback(c)
    /\ UNCHANGED <<account, profile, session, login, created>> /\ RefreshStill /\ EventsStill

\* The upsert writes: a tombstone of the snapshot or a disabled row gives no row back.
UpsertIdentityUser(c) ==
    /\ callback[c].at = "upsert"
    /\ IF callback[c].tombstone \/ account = "disabled"
       THEN EndCallback(c) /\ UNCHANGED <<account, profile>>
       ELSE /\ account' = "active" /\ profile' = 0
            /\ callback' = [callback EXCEPT ![c] =
                  [@ EXCEPT !.at = "create", !.tombstone = FALSE]]
    /\ UNCHANGED <<session, login, created, identityFaults>> /\ RefreshStill /\ EventsStill

\* CreateSession: INSERT ... SELECT from an enabled user.
CreateSession(c) ==
    LET l == callback[c].login
    IN  /\ callback[c].at = "create" /\ EndCallback(c)
        /\ IF account = "active"
           THEN /\ session' = [session EXCEPT ![l] =
                      [status |-> "live", token |-> granted[l], fresh |-> TRUE]]
                /\ created' = [created EXCEPT ![l] = @ + 1]
           ELSE UNCHANGED <<session, created>>
        /\ UNCHANGED <<account, profile, login, identityFaults>> /\ RefreshStill /\ EventsStill

-----------------------------------------------------------------------------
(* Sessions                                                                *)

\* GetSessionByTokenHash and LockIdentitySession find the row.
Usable(s) == session[s].status = "live" /\ account = "active"

SessionOnly == UNCHANGED <<account, profile>> /\ SignInStill /\ EventsStill

\* ResolveSession reads a session whose tokens are about to expire and starts a refresh; a session
\* with fresh tokens is answered without a change of state.
ResolveSession(r, s) ==
    /\ resolver[r] = NotResolving /\ Usable(s) /\ ~session[s].fresh
    /\ resolver' = [resolver EXCEPT ![r] =
          [at |-> "stale", session |-> s, token |-> session[s].token]]
    /\ UNCHANGED <<session, granted, reused, lost, identityFaults>> /\ SessionOnly

Stop(r) == resolver' = [resolver EXCEPT ![r] = NotResolving]

\* !time.Now().Add(10 * time.Second).Before(tokens.ValidUntil), after the lock
RotationDue(s) == ~session[s].fresh

\* Mutant: the tokens read before the lock are used.
LockedTokensFirst(r) == resolver[r].token
\* stored is read, and decrypted, again under the lock.
LockedTokens(r) == session[resolver[r].session].token

\* LockIdentitySession waits for the row, and the stored tokens are looked at again.
LockSession(r) ==
    LET s == resolver[r].session
    IN  /\ resolver[r].at = "stale" /\ ~Locked(s)
        /\ IF Usable(s) /\ RotationDue(s)
           THEN resolver' = [resolver EXCEPT ![r] =
                   [@ EXCEPT !.at = "refreshing", !.token = LockedTokens(r)]]
           ELSE Stop(r)
        /\ UNCHANGED <<session, granted, reused, lost, identityFaults>> /\ SessionOnly

\* Refresh: the provider takes the current refresh token and replaces it; a spent one is refused
\* and the transaction rolls back.
ProviderRefresh(r) ==
    LET s == resolver[r].session
    IN  /\ resolver[r].at = "refreshing"
        /\ IF resolver[r].token = granted[s]
           THEN /\ granted[s] < MaxRotations
                /\ granted' = [granted EXCEPT ![s] = @ + 1]
                /\ resolver' = [resolver EXCEPT ![r].at = "rotated"] /\ UNCHANGED reused
           ELSE /\ Stop(r) /\ UNCHANGED granted
                /\ reused' = reused \cup {s}
        /\ UNCHANGED <<session, lost, identityFaults>> /\ SessionOnly

\* UpdateIdentitySessionTokens
StoredTokens(s) == [session[s] EXCEPT !.token = granted[s], !.fresh = TRUE]

\* The provider's answer is stored and the transaction commits.
StoreTokens(r) ==
    LET s == resolver[r].session
    IN  /\ resolver[r].at = "rotated" /\ Stop(r)
        /\ session' = IF session[s].status = "live"
                      THEN [session EXCEPT ![s] = StoredTokens(s)]
                      ELSE session
        /\ UNCHANGED <<granted, reused, lost, identityFaults>> /\ SessionOnly

\* The provider cannot be reached: the error ends the request and the lock.  Or the process dies,
\* or the commit fails, after the provider rotated: the new token is lost.
RefreshFails(r) ==
    /\ IdentityFault /\ resolver[r].at \in {"refreshing", "rotated"}
    /\ Stop(r)
    /\ lost' = IF resolver[r].at = "rotated" THEN lost \cup {resolver[r].session} ELSE lost
    /\ UNCHANGED <<session, granted, reused>> /\ SessionOnly

\* The tokens come within ten seconds of their end.
TokensExpire(s) ==
    /\ session[s].status = "live" /\ session[s].fresh /\ session[s].token < MaxRotations
    /\ session' = [session EXCEPT ![s].fresh = FALSE]
    /\ UNCHANGED <<granted, reused, lost, resolver, identityFaults>> /\ SessionOnly

\* Logout, Revoke, RevokeCurrent; the update waits for a refresh.
RevokeSession(s) ==
    /\ session[s].status = "live" /\ ~Locked(s)
    /\ session' = [session EXCEPT ![s].status = "revoked"]
    /\ UNCHANGED <<granted, reused, lost, resolver, identityFaults>> /\ SessionOnly

\* RevokeUserSessions
RevokeAll ==
    /\ LiveSessions # {} /\ \A s \in LiveSessions : ~Locked(s)
    /\ session' = [s \in Logins |->
          IF s \in LiveSessions THEN [session[s] EXCEPT !.status = "revoked"] ELSE session[s]]
    /\ UNCHANGED <<granted, reused, lost, resolver, identityFaults>> /\ SessionOnly

IdentityNext ==
    \/ \E d \in EventRequests : ReceiveEvent(d) \/ ApplyKindeIdentityEvent(d)
    \/ DisableAccount
    \/ \E l \in Logins : Login(l) \/ LoginExpires(l)
    \/ \E c \in Callbacks, l \in Logins : ConsumeLogin(c, l)
    \/ \E c \in Callbacks :
          ExchangeCode(c) \/ CallbackFails(c) \/ UpsertIdentityUser(c) \/ CreateSession(c)
    \/ \E r \in Resolvers, s \in Logins : ResolveSession(r, s)
    \/ \E r \in Resolvers :
          LockSession(r) \/ ProviderRefresh(r) \/ StoreTokens(r) \/ RefreshFails(r)
    \/ \E s \in Logins : TokensExpire(s) \/ RevokeSession(s)
    \/ RevokeAll

-----------------------------------------------------------------------------
(* Properties                                                              *)

\* The rows and the requests keep their types.
IdentityTypeOK ==
    /\ account \in {"absent", "active", "disabled"}
    /\ profile \in IdentityEvents \cup {0} /\ recorded \subseteq IdentityEvents
    /\ login \in [Logins -> {"new", "open", "gone"}]
    /\ session \in [Logins -> Session \cup {NoBrowserSession}]
    /\ granted \in [Logins -> 0..MaxRotations]

\* An event changes the user once at most, however often and however concurrently the provider
\* delivers it.
EventAppliedOnce == \A e \in IdentityEvents : eventApplied[e] <= 1

\* A login attempt makes one session at most, whatever callbacks the browser repeats.
LoginOnce == \A l \in Logins : created[l] <= 1

\* The API replicas present a refresh token again only when the answer to it was lost: concurrent
\* requests of one session do not rotate it twice and so end it at the provider.
RefreshedOnce == reused \subseteq lost

\* A session that is live and not being refreshed holds the token the provider expects, unless a
\* rotation was lost.
StoredTokenWorks ==
    \A s \in LiveSessions \ lost : ~Locked(s) => session[s].token = granted[s]

\* What the platform run checks of sign-in.
IdentitySound == EventAppliedOnce /\ LoginOnce /\ RefreshedOnce /\ StoredTokenWorks

\* The comment on ApplyKindeIdentityEvent: newer events prevent stale profile writes.  The profile
\* of an enabled user that comes from an event comes from the newest one recorded.
NewestEventWins ==
    account = "active" /\ profile # 0 => \A e \in recorded : e <= profile
=============================================================================
