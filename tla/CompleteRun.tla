----------------------------- MODULE CompleteRun -----------------------------
(***************************************************************************)
(* A run with all that belongs to it: the shipped agent in its host, its   *)
(* log, and the model the policy names.                                    *)
(***************************************************************************)
EXTENDS LoggedRun, MockRun

runVars == <<vars, logVars, provider, tools>>

RunInit == LoggedInit /\ ProviderInit

Proceeds == (Speaks \/ Silent) /\ Provided

RunNext == Proceeds \/ (Stopped /\ Provided)

(***************************************************************************)
(* A run has one thread and it does not stop by itself; a blocked host     *)
(* call comes back, as Turn shows.  Nothing says that a run is ever        *)
(* stopped: Trap is not in Proceeds.                                       *)
(***************************************************************************)
RunSpec == RunInit /\ [][RunNext]_runVars /\ WF_runVars(Proceeds)

=============================================================================
