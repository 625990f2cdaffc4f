-------------------------------- MODULE Turn --------------------------------
(***************************************************************************)
(* A turn that leaves the process twice: the model is asked, and its       *)
(* answer has the agent fetch a page.  The guest has one thread, so the    *)
(* two calls follow each other (crates/tds-agent/src/lib.rs:198-275), and  *)
(* all the while it is in the host, where no deadline reaches it           *)
(* (crates/tds-host/src/runtime.rs:337-367).                               *)
(***************************************************************************)
EXTENDS ModelClient, HttpBody

turnVars == <<clientVars, httpVars>>

TurnInit == ClientInit /\ HttpInit

AskModel == ClientNext /\ UNCHANGED httpVars

\* A turn that failed ends the run; nothing is fetched in it.
Fetch(Step) ==
  /\ phase = "returned" /\ outcome = "ok"
  /\ Step
  /\ UNCHANGED clientVars

TurnNext == AskModel \/ Fetch(HttpNext)

(***************************************************************************)
(* Of the two clients' own steps each is taken in the end, their timers    *)
(* and a sleep's end among them; those of the API and of the server that   *)
(* is fetched from need not be.                                            *)
(***************************************************************************)
TurnSpec ==
  /\ TurnInit /\ [][TurnNext]_turnVars
  /\ WF_turnVars(AskModel)
  /\ WF_turnVars(Fetch(Tick \/ TimesOut))
  /\ WF_turnVars(Fetch(LimitReached \/ Reply))

-----------------------------------------------------------------------------
(***************************************************************************)
(* The host comes back to the guest from both calls, whatever API and      *)
(* server do: what the fairness of a run assumes of a blocked host call.   *)
(***************************************************************************)
TurnComesBack == <>(phase = "returned" /\ (outcome = "ok" => pc = "done"))

=============================================================================
