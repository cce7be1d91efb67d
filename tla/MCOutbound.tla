----------------------------- MODULE MCOutbound -----------------------------
(***************************************************************************)
(* Outbound calls on small instances: one call through every failure, or   *)
(* two calls that compete while nothing fails.                             *)
(***************************************************************************)
EXTENDS OutboundCall, FiniteSets, TLC

VARIABLE scenario

ScenarioInit == Init /\ scenario \in {"failures", "contention"}

Silent(states) == \A ch \in Channels : fs'[ch].st \notin states

\* The bounds of a scenario: one request, which is put on hold only before the last failure; or
\* two requests without failures, over one route, that nobody answers.
ScenarioNext ==
    /\ Next /\ UNCHANGED scenario
    /\ \/ /\ scenario = "failures"
          /\ Cardinality({c \in Calls : create'[c].pc # "start"}) <= 1
          /\ faults' < Faults \/ Silent({"held", "resumed"})
       \/ /\ scenario = "contention" /\ faults' = 0
          /\ \A c \in Calls : create'[c].left <= 1
          /\ Silent({"ringing", "answered"})

\* Calls that have not started are interchangeable, and so are fresh UUIDs.
Symmetry == Permutations(Calls) \cup Permutations(Channels)
=============================================================================
