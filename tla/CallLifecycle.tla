---------------------------- MODULE CallLifecycle ---------------------------
(***************************************************************************)
(* What the call service promises the subscribers of a call: its state     *)
(* only moves forward, ends once, and every change is one event of the     *)
(* log, in order.  OutboundCall and InboundCall implement it.              *)
(***************************************************************************)
EXTENDS Naturals, Sequences

CONSTANT Calls

VARIABLES
    state,   \* public state of each call
    media,   \* "active" or "held"
    log      \* events published for each call

lifecycleVars == <<state, media, log>>

Ended == {"completed", "failed", "cancelled"}
Up    == {"initiating", "ringing", "answered", "active"}

Rank == [initiating |-> 1, ringing |-> 2, answered |-> 3, active |-> 4]

LifecycleInit ==
    /\ state = [c \in Calls |-> "none"]
    /\ media = [c \in Calls |-> "active"]
    /\ log = [c \in Calls |-> << >>]

\* An outbound call starts initiating, an inbound call ringing.
Begin(c) ==
    /\ state[c] = "none"
    /\ \/ /\ state' = [state EXCEPT ![c] = "initiating"]
          /\ log' = [log EXCEPT ![c] = <<"initiated">>]
       \/ /\ state' = [state EXCEPT ![c] = "ringing"]
          /\ log' = [log EXCEPT ![c] = <<"ringing">>]
    /\ UNCHANGED media

Publish(c, e) == log' = [log EXCEPT ![c] = Append(@, e)]

Advance(c, s) ==
    /\ state[c] \in Up
    /\ Rank[state[c]] < Rank[s]
    /\ state' = [state EXCEPT ![c] = s]
    /\ Publish(c, s)
    /\ UNCHANGED media

\* Only a call that was never answered can be cancelled.
Finish(c, s) ==
    /\ state[c] \in Up
    /\ s = "cancelled" => state[c] \in {"initiating", "ringing"}
    /\ state' = [state EXCEPT ![c] = s]
    /\ Publish(c, s)
    /\ UNCHANGED media

SetMedia(c, m, e) ==
    /\ state[c] \in {"answered", "active"}
    /\ media[c] # m
    /\ media' = [media EXCEPT ![c] = m]
    /\ Publish(c, e)
    /\ UNCHANGED state

LifecycleNext ==
    \E c \in Calls :
        \/ Begin(c)
        \/ \E s \in Up : Advance(c, s)
        \/ \E s \in Ended : Finish(c, s)
        \/ SetMedia(c, "held", "held")
        \/ SetMedia(c, "active", "resumed")

LifecycleSpec == LifecycleInit /\ [][LifecycleNext]_lifecycleVars
=============================================================================
