---------------------------- MODULE RunContract ----------------------------
(***************************************************************************)
(* What one run promises its caller, with the host and the guest left out: *)
(* the README's "reason and act loop" and its limits, and the meaning of   *)
(* StopReason (crates/tds-abi/src/lib.rs:193-204).                         *)
(*                                                                         *)
(* Turns and tool calls alternate: a model turn is asked for only when     *)
(* every tool call the previous answer requested has been made, a tool is  *)
(* called only because an answer owes the call, and the run ends at most   *)
(* once, for a reason that fits what happened.  AgentRun implements it.    *)
(***************************************************************************)
EXTENDS Naturals

CONSTANT MaxSteps   \* policy.limits.max_steps

VARIABLES
  ceiling,   \* turns this run may take
  turns,     \* turns taken
  waiting,   \* the model has been asked and the guest has no answer yet
  owed,      \* tool calls the last answer requested and the run still owes
  verdict    \* "none" until the run ends, then why it did

contractVars == <<ceiling, turns, waiting, owed, verdict>>

ContractInit ==
  /\ ceiling \in 1..MaxSteps
  /\ turns = 0
  /\ waiting = FALSE
  /\ owed = 0
  /\ verdict = "none"

Ask ==
  /\ verdict = "none" /\ ~waiting /\ owed = 0
  /\ turns < ceiling
  /\ turns' = turns + 1
  /\ waiting' = TRUE
  /\ UNCHANGED <<ceiling, owed, verdict>>

Answer ==
  /\ verdict = "none" /\ waiting
  /\ waiting' = FALSE
  /\ owed' \in Nat
  /\ UNCHANGED <<ceiling, turns, verdict>>

CallTool ==
  /\ verdict = "none" /\ owed > 0
  /\ owed' = owed - 1
  /\ UNCHANGED <<ceiling, turns, waiting, verdict>>

\* An error may end a run anywhere; the other reasons only between tool calls.
Stop(reason) ==
  /\ verdict = "none"
  /\ reason # "error" => ~waiting /\ owed = 0 /\ turns > 0
  /\ reason = "step_limit" => turns = ceiling
  /\ verdict' = reason
  /\ waiting' = FALSE
  /\ UNCHANGED <<ceiling, turns, owed>>

ContractNext ==
  \/ Ask
  \/ Answer
  \/ CallTool
  \/ \E reason \in {"completed", "refusal", "step_limit", "error"} : Stop(reason)

ContractSpec == ContractInit /\ [][ContractNext]_contractVars

=============================================================================
