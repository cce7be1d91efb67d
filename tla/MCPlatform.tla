------------------------------ MODULE MCPlatform ------------------------------
(***************************************************************************)
(* The tables an organisation administers, in one run: each behaviour is   *)
(* one of the component that the initial state chooses; the others stay as *)
(* they start.                                                             *)
(***************************************************************************)
EXTENDS Trunks, Tenancy, Identity, Billing, Idempotency, TLC

VARIABLE focus

\* Where a component has several initial states, one is enough unless it is looked at.
PlatformInit ==
    /\ TrunksInit /\ TenancyInit /\ IdentityInit /\ BillingInit /\ IdemInit
    /\ focus \in {"trunks", "tenancy", "identity", "billing", "idempotency"}
    /\ focus = "idempotency" \/ \A r \in IdemRequests : bodyOf[r] = CHOOSE b \in Bodies : TRUE

PlatformNext ==
    /\ UNCHANGED focus
    /\ \/ focus = "trunks" /\ TrunksNext
       \/ focus # "trunks" /\ UNCHANGED trunksVars
    /\ \/ focus = "tenancy" /\ TenancyNext
       \/ focus # "tenancy" /\ UNCHANGED tenancyVars
    /\ \/ focus = "identity" /\ IdentityNext
       \/ focus # "identity" /\ UNCHANGED identityVars
    /\ \/ focus = "billing" /\ BillingNext
       \/ focus # "billing" /\ UNCHANGED billingVars
    /\ \/ focus = "idempotency" /\ IdemNext
       \/ focus # "idempotency" /\ UNCHANGED idemVars

\* Two processes of a kind may be exchanged. The configuration gives the pairs of all kinds the
\* same two names, so that one permutation exchanges each of them.
PlatformSymmetry == Permutations(MailWorkers)

\* The type invariant of the component that is looked at.
PlatformTypeOK ==
    \/ focus = "trunks" /\ TrunksTypeOK
    \/ focus = "tenancy" /\ TenancyTypeOK
    \/ focus = "identity" /\ IdentityTypeOK
    \/ focus = "billing" /\ BillingTypeOK
    \/ focus = "idempotency" /\ IdemTypeOK
=============================================================================
