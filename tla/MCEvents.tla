------------------------------ MODULE MCEvents ------------------------------
(***************************************************************************)
(* The event pipeline on a small instance: failures and requests, each     *)
(* within its own bound, are no more than Incidents together.              *)
(***************************************************************************)
EXTENDS EventPipeline, TLC

CONSTANT Incidents

BoundedNext == Next /\ faults' + admin' <= Incidents

WorkerSymmetry == Permutations(Workers)
=============================================================================
