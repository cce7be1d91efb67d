------------------------------ MODULE MCInbound -----------------------------
(***************************************************************************)
(* Inbound calls on small instances: all workers admit one dialog, with    *)
(* failures, or one worker admits two dialogs and nothing fails.           *)
(***************************************************************************)
EXTENDS InboundCall, FiniteSets, TLC

\* The other channel is over, its dialog was refused long ago.
OneDialog ==
    /\ \E ch \in Channels :
           fs = [u \in Channels |-> [st |-> IF u = ch THEN "none" ELSE "gone", cid |-> NoCall]]
    /\ adm = [w \in Workers |-> [ch \in Channels |-> IdleAdm]]
    /\ faults = 0

\* The other workers are down and have missed the dialogs.
TwoDialogs ==
    /\ fs = [ch \in Channels |-> [st |-> "none", cid |-> NoCall]]
    /\ adm = [w \in Workers |-> [ch \in Channels |->
                 IF w = Handler THEN IdleAdm ELSE [IdleAdm EXCEPT !.pc = "rejected"]]]
    /\ faults = Faults

ScenarioInit ==
    /\ row = [c \in Calls |-> NoRow] /\ attempt = [ch \in Channels |-> NoAttempt]
    /\ marker = {} /\ outbox = [c \in Calls |-> << >>]
    /\ orgLease = {} /\ trunkLease = {}
    /\ binding = [c \in Calls |-> NoChannel] /\ owner = [ch \in Channels |-> NoCall]
    /\ evq = [ch \in Channels |-> << >>] /\ lc = [ch \in Channels |-> IdleLc]
    /\ job = IdleJob
    /\ OneDialog \/ TwoDialogs

Symmetry == Permutations(Calls) \cup Permutations(Channels)
=============================================================================
