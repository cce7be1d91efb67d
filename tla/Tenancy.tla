------------------------------ MODULE Tenancy ------------------------------
(***************************************************************************)
(* Membership of one organisation: its owner, its members, the             *)
(* invitations that bring new ones (tenancy/organization, members,         *)
(* invitations), its API tokens (tenancy/credentials), and the mail queue  *)
(* that carries the invitations (platform/email).                          *)
(*                                                                         *)
(* An administrative request reads its requester's role first and runs its *)
(* statement later; the statement looks at the role again.  The mail of an *)
(* invitation is written, and cancelled, in the invitation's transaction;  *)
(* mail workers lease it, look once more whether it is still wanted, send  *)
(* it and record the outcome.  An invitation and its mail expire together. *)
(***************************************************************************)
EXTENDS Naturals, FiniteSets

CONSTANTS
    Users, Owner,           \* users, and the one who creates the organisation
    Invites,                \* invitations, each with its mail
    AdminRequests,          \* concurrent administrative requests
    MailWorkers, NoWorker,  \* processes of the mail queue; no lease
    MailAttempts,           \* 5 in ClaimEmailDelivery
    TenancyOps, MailFaults  \* bounds: administrative requests; failures

ASSUME TenancyAssumption ==
    /\ Owner \in Users /\ NoWorker \notin MailWorkers /\ IsFiniteSet(MailWorkers)
    /\ MailAttempts \in Nat \ {0} /\ TenancyOps \in Nat /\ MailFaults \in Nat

VARIABLES
    org,         \* status of the organisation: "absent", "active", "deleted"
    member,      \* Users -> row of organization_members
    enabled,     \* users without disabled_at
    invite,      \* Invites -> row of organization_invitations
    pastExpiry,     \* invitations whose expires_at has passed
    mail,        \* Invites -> row of email_deliveries
    adminReq,    \* AdminRequests -> a request between its checks and its statement
    accepting,   \* Invites -> users whose Accept has read the pending invitation
    mailer,      \* MailWorkers -> the delivery it holds and how far it got
    token,       \* "absent", "valid" or "disabled": an organisation token
    joined,      \* history: Invites -> memberships made through the invitation
    sends,       \* history: Invites -> messages the provider accepted
    tenancyOps, mailFaults

tenancyVars == <<org, member, enabled, invite, pastExpiry, mail, adminReq, accepting, mailer, token,
                 joined, sends, tenancyOps, mailFaults>>

NoMember == [role |-> "none", status |-> "none"]
Member == [role : {"owner", "admin", "member"}, status : {"active", "disabled"}]
NoInvite == [status |-> "absent", user |-> Owner, role |-> "member"]
Invite == [status : {"pending", "accepted", "expired", "revoked"}, user : Users,
           role : {"admin", "member"}]
NoMail == [status |-> "absent", attempts |-> 0, lock |-> NoWorker, due |-> FALSE,
           lapsed |-> FALSE]
Mail == [status : {"pending", "sending", "sent", "failed", "expired", "cancelled"},
         attempts : 0..MailAttempts, lock : MailWorkers \cup {NoWorker},
         due : BOOLEAN, lapsed : BOOLEAN]
NoAdminReq == [op |-> "none", actor |-> Owner, target |-> Owner, role |-> "member"]
NoDelivery == [at |-> "idle", invite |-> "none", attempts |-> 0]

MailLive(i) == mail[i].status \in {"pending", "sending"}

TenancyInit ==
    /\ org = "absent" /\ member = [u \in Users |-> NoMember] /\ enabled = Users
    /\ invite = [i \in Invites |-> NoInvite] /\ pastExpiry = {}
    /\ mail = [i \in Invites |-> NoMail]
    /\ adminReq = [q \in AdminRequests |-> NoAdminReq]
    /\ accepting = [i \in Invites |-> {}]
    /\ mailer = [w \in MailWorkers |-> NoDelivery]
    /\ token = "absent"
    /\ joined = [i \in Invites |-> 0] /\ sends = [i \in Invites |-> 0]
    /\ tenancyOps = 0 /\ mailFaults = 0

TenancyOp == tenancyOps < TenancyOps /\ tenancyOps' = tenancyOps + 1
MailFault == mailFaults < MailFaults /\ mailFaults' = mailFaults + 1

MailStill == UNCHANGED <<mailer, sends, mailFaults>>
MembersStill == UNCHANGED <<org, member, enabled, adminReq, accepting, token, joined>>

-----------------------------------------------------------------------------
(* Organisation and members                                                *)

\* CreateOrganizationWithOwner: the organisation and its owner in one statement.
CreateOrganization ==
    /\ org = "absent" /\ Owner \in enabled
    /\ org' = "active"
    /\ member' = [member EXCEPT ![Owner] = [role |-> "owner", status |-> "active"]]
    /\ UNCHANGED <<enabled, invite, pastExpiry, mail, adminReq, accepting, token, joined,
                   tenancyOps>>
    /\ MailStill

\* GetOrganizationMember finds u with one of these roles.
ActsAs(u, roles) ==
    org = "active" /\ u \in enabled /\ member[u].status = "active" /\ member[u].role \in roles
Admins == {"owner", "admin"}

\* The EXISTS of the statements: the actor's row alone, not the organisation's or the user's.
StatementAdmin(u) == member[u].status = "active" /\ member[u].role \in Admins

\* The checks of the services before their statements.
AddChecked(a) == ActsAs(a, Admins)
UpdateChecked(a, t) == ActsAs(a, Admins) /\ ActsAs(t, {"admin", "member"})
DisableChecked(a, t) == ActsAs(a, Admins) /\ ActsAs(t, {"admin", "member"})
DeleteChecked(a) == ActsAs(a, {"owner"})

\* Add, Update, Delete and the deletion of the organisation, up to the statement.
CheckRequest(q) ==
    /\ TenancyOp /\ adminReq[q] = NoAdminReq
    /\ \E a, t \in Users, r \in {"admin", "member"} :
          \E op \in (IF AddChecked(a) THEN {"add"} ELSE {})
                   \cup (IF UpdateChecked(a, t) THEN {"update"} ELSE {})
                   \cup (IF DisableChecked(a, t) /\ r = "member" THEN {"disable"} ELSE {})
                   \cup (IF DeleteChecked(a) /\ r = "member" /\ t = Owner THEN {"delete"} ELSE {}) :
              adminReq' = [adminReq EXCEPT ![q] =
                  [op |-> op, actor |-> a, target |-> t, role |-> r]]
    /\ UNCHANGED <<org, member, enabled, invite, pastExpiry, mail, accepting, token, joined>>
    /\ MailStill

Answer(q) == adminReq' = [adminReq EXCEPT ![q] = NoAdminReq]

\* AddOrganizationMember: a row of the user, active or disabled, is a conflict.
AddMember(q) ==
    LET r == adminReq[q]
    IN  /\ r.op = "add" /\ Answer(q)
        /\ member' = IF /\ r.target \in enabled /\ StatementAdmin(r.actor)
                        /\ member[r.target] = NoMember
                     THEN [member EXCEPT ![r.target] = [role |-> r.role, status |-> "active"]]
                     ELSE member
        /\ UNCHANGED <<org, enabled, invite, pastExpiry, mail, accepting, token, joined,
                       tenancyOps>>
        /\ MailStill

\* target.status = 'active' AND target.role <> 'owner'
MutableTarget(t) == member[t].status = "active" /\ member[t].role # "owner"

\* UpdateMemberRole
UpdateRole(q) ==
    LET r == adminReq[q]
    IN  /\ r.op = "update" /\ Answer(q)
        /\ member' = IF MutableTarget(r.target) /\ StatementAdmin(r.actor)
                     THEN [member EXCEPT ![r.target].role = r.role] ELSE member
        /\ UNCHANGED <<org, enabled, invite, pastExpiry, mail, accepting, token, joined,
                       tenancyOps>>
        /\ MailStill

\* DisableOrganizationMember
DisableMember(q) ==
    LET r == adminReq[q]
    IN  /\ r.op = "disable" /\ Answer(q)
        /\ member' = IF MutableTarget(r.target) /\ StatementAdmin(r.actor)
                     THEN [member EXCEPT ![r.target].status = "disabled"] ELSE member
        /\ UNCHANGED <<org, enabled, invite, pastExpiry, mail, accepting, token, joined,
                       tenancyOps>>
        /\ MailStill

\* DeleteOrganization: the statement does not look at the actor again.
DeleteOrganization(q) ==
    /\ adminReq[q].op = "delete" /\ Answer(q)
    /\ org' = "deleted"
    /\ UNCHANGED <<member, enabled, invite, pastExpiry, mail, accepting, token, joined,
                   tenancyOps>>
    /\ MailStill

\* DisableUser: the account is disabled, its memberships are left as they are.
DisableUser(u) ==
    /\ TenancyOp /\ u \in enabled
    /\ enabled' = enabled \ {u}
    /\ UNCHANGED <<org, member, invite, pastExpiry, mail, adminReq, accepting, token, joined>>
    /\ MailStill

\* CreateOrganizationToken and DisableOrganizationToken; authentication needs the organisation
\* and the token, not the user who made it.
CreateToken(u) ==
    /\ TenancyOp /\ token = "absent" /\ ActsAs(u, Admins)
    /\ token' = "valid"
    /\ UNCHANGED <<org, member, enabled, invite, pastExpiry, mail, adminReq, accepting, joined>>
    /\ MailStill

DisableToken(u) ==
    /\ TenancyOp /\ token = "valid" /\ StatementAdmin(u)
    /\ token' = "disabled"
    /\ UNCHANGED <<org, member, enabled, invite, pastExpiry, mail, adminReq, accepting, joined>>
    /\ MailStill

-----------------------------------------------------------------------------
(* Invitations                                                             *)

\* A mail row whose lease is given up.
Closed(row, st) == [row EXCEPT !.status = st, !.lock = NoWorker, !.due = FALSE, !.lapsed = FALSE]

\* CancelEmailDeliveries
CancelMail(i) == mail' = IF MailLive(i) THEN [mail EXCEPT ![i] = Closed(@, "cancelled")] ELSE mail

\* ExpireStaleInvitations
Expire(rows) == [j \in Invites |->
    IF rows[j].status = "pending" /\ j \in pastExpiry THEN [rows[j] EXCEPT !.status = "expired"]
    ELSE rows[j]]

\* CreateInvitation: the statement asks for the inviter's role again; a pending invitation of the
\* same address is a conflict.
MayInvite(rows, a, u) ==
    ActsAs(a, Admins) /\ \A j \in Invites : rows[j].status = "pending" => rows[j].user # u

\* Create: expire the stale invitations, insert this one and queue its mail.
CreateInvite(i) ==
    /\ TenancyOp /\ invite[i] = NoInvite
    /\ \E a, u \in Users, r \in {"admin", "member"} :
          /\ MayInvite(Expire(invite), a, u)
          /\ invite' = [Expire(invite) EXCEPT ![i] =
                [status |-> "pending", user |-> u, role |-> r]]
    /\ mail' = [mail EXCEPT ![i] = [NoMail EXCEPT !.status = "pending", !.due = TRUE]]
    /\ UNCHANGED pastExpiry /\ MembersStill /\ MailStill

\* RevokeInvitation
Revoked(row) == [row EXCEPT !.status = "revoked"]

\* Revoke: the invitation and the cancellation of the mail.
RevokeInvite(i) ==
    /\ TenancyOp /\ invite[i].status = "pending"
    /\ \E a \in Users : ActsAs(a, Admins)
    /\ invite' = [invite EXCEPT ![i] = Revoked(@)]
    /\ CancelMail(i)
    /\ UNCHANGED pastExpiry /\ MembersStill /\ MailStill

\* Accept reads the pending invitation and the user.
ReadInvite(i, u) ==
    /\ u \notin accepting[i] /\ joined[i] = 0
    /\ invite[i].status = "pending" /\ i \notin pastExpiry /\ org = "active"
    /\ u \in enabled /\ invite[i].user = u
    /\ accepting' = [accepting EXCEPT ![i] = @ \cup {u}]
    /\ UNCHANGED <<org, member, enabled, invite, pastExpiry, mail, adminReq, token, joined,
                   tenancyOps>>
    /\ MailStill

\* AcceptInvitation: the conditional update.
Acceptable(i) == invite[i].status = "pending" /\ i \notin pastExpiry

\* AddInvitedOrganizationMember: an enabled user without a row of the organisation.
MayJoin(u) == u \in enabled /\ org = "active" /\ member[u] = NoMember

\* AcceptInvitation, AddInvitedOrganizationMember and the cancellation commit together; a member
\* row of the user, or an organisation deleted meanwhile, rolls everything back.
AcceptInvite(i, u) ==
    /\ u \in accepting[i]
    /\ accepting' = [accepting EXCEPT ![i] = @ \ {u}]
    /\ IF Acceptable(i) /\ MayJoin(u)
       THEN /\ invite' = [invite EXCEPT ![i].status = "accepted"]
            /\ member' = [member EXCEPT ![u] = [role |-> invite[i].role, status |-> "active"]]
            /\ joined' = [joined EXCEPT ![i] = @ + 1]
            /\ CancelMail(i)
       ELSE UNCHANGED <<invite, member, joined, mail>>
    /\ UNCHANGED <<org, enabled, pastExpiry, adminReq, token, tenancyOps>> /\ MailStill

\* expires_at passes.
InviteExpires(i) ==
    /\ invite[i] # NoInvite /\ i \notin pastExpiry
    /\ pastExpiry' = pastExpiry \cup {i}
    /\ UNCHANGED <<invite, mail, tenancyOps>> /\ MembersStill /\ MailStill

-----------------------------------------------------------------------------
(* The mail queue                                                          *)

MailOnly == UNCHANGED <<invite, pastExpiry, tenancyOps>> /\ MembersStill

\* Mutant: exhausted rows are not swept.
SweptExpiredOnly(i) ==
    IF MailLive(i) /\ i \in pastExpiry THEN Closed(mail[i], "expired") ELSE mail[i]
\* What ExpireEmailDeliveries and FailExhaustedEmailDeliveries make of a row.
Swept(i) ==
    CASE MailLive(i) /\ i \in pastExpiry -> Closed(mail[i], "expired")
      [] MailLive(i) /\ i \notin pastExpiry /\ mail[i].attempts >= MailAttempts
            /\ (mail[i].status = "pending" \/ mail[i].lapsed) -> Closed(mail[i], "failed")
      [] OTHER -> mail[i]

\* ClaimEmailDelivery: a due row, or one whose lease is older than a minute.
MailClaimable(row, i) ==
    /\ i \notin pastExpiry /\ row.attempts < MailAttempts
    /\ (row.status = "pending" /\ row.due) \/ (row.status = "sending" /\ row.lapsed)

\* Claim: the two sweeps, then the lease of one row if there is one.
ClaimMail(w) ==
    LET swept == [i \in Invites |-> Swept(i)]
        ready == {i \in Invites : MailClaimable(swept[i], i)}
    IN  /\ mailer[w] = NoDelivery
        /\ IF ready = {}
           THEN swept # mail /\ mail' = swept /\ UNCHANGED mailer
           ELSE \E i \in ready :
                  /\ mail' = [swept EXCEPT ![i].status = "sending", ![i].attempts = @ + 1,
                        ![i].lock = w, ![i].due = FALSE, ![i].lapsed = FALSE]
                  /\ mailer' = [mailer EXCEPT ![w] =
                        [at |-> "claimed", invite |-> i, attempts |-> mail[i].attempts + 1]]
        /\ UNCHANGED <<sends, mailFaults>> /\ MailOnly

HoldsLease(w) == LET i == mailer[w].invite IN mail[i].status = "sending" /\ mail[i].lock = w

\* Ready: is the row still this worker's, and not expired?  If not, the failure it records
\* finds no row to change.
CheckReady(w) ==
    /\ mailer[w].at = "claimed"
    /\ mailer' = [mailer EXCEPT ![w] =
          IF HoldsLease(w) /\ mailer[w].invite \notin pastExpiry
          THEN [@ EXCEPT !.at = "ready"] ELSE NoDelivery]
    /\ UNCHANGED <<mail, sends, mailFaults>> /\ MailOnly

\* Send succeeds.
SendMail(w) ==
    /\ mailer[w].at = "ready"
    /\ sends' = [sends EXCEPT ![mailer[w].invite] = @ + 1]
    /\ mailer' = [mailer EXCEPT ![w].at = "sent"]
    /\ UNCHANGED <<mail, mailFaults>> /\ MailOnly

\* Mutant: the outcome is recorded without looking at the lease.
OwnRowAlways(w) == TRUE
\* lock_token = lease AND status = 'sending'
OwnRow(w) == HoldsLease(w)

\* CompleteEmailDelivery
CompleteMail(w) ==
    LET i == mailer[w].invite
    IN  /\ mailer[w].at = "sent"
        /\ mail' = IF OwnRow(w) THEN [mail EXCEPT ![i] = Closed(@, "sent")] ELSE mail
        /\ mailer' = [mailer EXCEPT ![w] = NoDelivery]
        /\ UNCHANGED <<sends, mailFaults>> /\ MailOnly

\* Send fails, or times out with the message accepted; Fail puts the row back with a delay, or
\* ends it when the error is permanent or the attempts are used up.
FailMail(w) ==
    LET i == mailer[w].invite
        permanent == mailer[w].attempts >= MailAttempts
    IN  /\ MailFault /\ mailer[w].at = "ready"
        /\ \E accepted, final \in BOOLEAN :
              /\ sends' = [sends EXCEPT ![i] = @ + (IF accepted THEN 1 ELSE 0)]
              /\ mail' = IF ~OwnRow(w) THEN mail
                         ELSE [mail EXCEPT ![i] =
                                IF final \/ permanent THEN Closed(@, "failed")
                                ELSE Closed(@, "pending")]
        /\ mailer' = [mailer EXCEPT ![w] = NoDelivery]
        /\ MailOnly

\* The worker stops: its process dies, or a statement fails and Run returns.
MailerDies(w) ==
    /\ MailFault /\ mailer[w] # NoDelivery
    /\ mailer' = [mailer EXCEPT ![w] = NoDelivery]
    /\ UNCHANGED <<mail, sends>> /\ MailOnly

\* A minute passes since locked_at; the delay of a retry passes.
LeaseLapses(i) ==
    /\ mail[i].status = "sending" /\ ~mail[i].lapsed
    /\ mail' = [mail EXCEPT ![i].lapsed = TRUE]
    /\ UNCHANGED <<mailer, sends, mailFaults>> /\ MailOnly

DelayPasses(i) ==
    /\ mail[i].status = "pending" /\ ~mail[i].due
    /\ mail' = [mail EXCEPT ![i].due = TRUE]
    /\ UNCHANGED <<mailer, sends, mailFaults>> /\ MailOnly

MailerStep(w) == ClaimMail(w) \/ CheckReady(w) \/ SendMail(w) \/ CompleteMail(w)

TenancyNext ==
    \/ CreateOrganization
    \/ \E q \in AdminRequests :
          CheckRequest(q) \/ AddMember(q) \/ UpdateRole(q) \/ DisableMember(q)
              \/ DeleteOrganization(q)
    \/ \E u \in Users : DisableUser(u) \/ CreateToken(u) \/ DisableToken(u)
    \/ \E i \in Invites : CreateInvite(i) \/ RevokeInvite(i) \/ InviteExpires(i)
    \/ \E i \in Invites, u \in Users : ReadInvite(i, u) \/ AcceptInvite(i, u)
    \/ \E w \in MailWorkers : MailerStep(w) \/ FailMail(w) \/ MailerDies(w)
    \/ \E i \in Invites : LeaseLapses(i) \/ DelayPasses(i)

TenancySpec ==
    /\ TenancyInit /\ [][TenancyNext]_tenancyVars
    /\ \A w \in MailWorkers : WF_tenancyVars(MailerStep(w))
    /\ \A i \in Invites : WF_tenancyVars(LeaseLapses(i)) /\ WF_tenancyVars(DelayPasses(i))

-----------------------------------------------------------------------------
(* Properties                                                              *)

\* The rows and the workers' notes keep their types.
TenancyTypeOK ==
    /\ org \in {"absent", "active", "deleted"} /\ enabled \subseteq Users
    /\ member \in [Users -> Member \cup {NoMember}]
    /\ \A i \in Invites : invite[i] # NoInvite => invite[i] \in Invite
    /\ \A i \in Invites : mail[i] # NoMail => mail[i] \in Mail
    /\ token \in {"absent", "valid", "disabled"}
    /\ accepting \in [Invites -> SUBSET Users]

\* An organisation always has its one active owner: no order of role changes, removals and
\* invitations demotes or removes the owner, or makes a second one.
OneOwner ==
    org # "absent" =>
        {u \in Users : member[u].role = "owner"} = {Owner} /\ member[Owner].status = "active"

\* An invitation makes one member at most, and only while it is the accepted one: concurrent
\* acceptance, revocation and expiry are settled by the conditional update.
InviteUsedOnce ==
    \A i \in Invites : joined[i] = (IF invite[i].status = "accepted" THEN 1 ELSE 0)

\* The mail of an invitation that was accepted or revoked is not live: a worker that held its
\* lease cannot put it back into the queue.
MailFollowsInvite ==
    \A i \in Invites : MailLive(i) => invite[i].status \notin {"accepted", "revoked"}

\* A mail is recorded as sent only when the provider took it, and the provider is asked at most
\* once for each attempt.
SentIsGrounded ==
    \A i \in Invites :
        /\ mail[i].status = "sent" => sends[i] >= 1
        /\ sends[i] <= mail[i].attempts

\* A disabled membership is not changed any more, by a role change that was checked before either,
\* and a mail that has ended stays as it ended.
EndedStaysEnded ==
    [][/\ \A u \in Users : member[u].status = "disabled" => member'[u] = member[u]
       /\ \A i \in Invites : mail[i].status \in {"sent", "failed", "expired", "cancelled"}
                                 => mail'[i] = mail[i]]_<<member, mail>>

\* What the platform run checks of the organisation and its mail.
TenancySound ==
    [](OneOwner /\ InviteUsedOnce /\ MailFollowsInvite /\ SentIsGrounded) /\ EndedStaysEnded

\* Mails in the queue. Each is sent or given up, whatever workers die holding it.
OpenMails == {i \in Invites : MailLive(i)}
=============================================================================
