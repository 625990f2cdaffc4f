----------------------------- MODULE LoggedRun -----------------------------
(***************************************************************************)
(* A run of the shipped agent with what it logs: emit in                   *)
(* crates/tds-agent/src/lib.rs, by way of the log host function.  The log  *)
(* is the one part of a report the host keeps itself, and so the one part  *)
(* that is there when the guest was stopped.                               *)
(***************************************************************************)
EXTENDS AgentRun, GuestLog

\* A line, without its wording.
Says(level, what) == [level |-> level, text |-> what, step |-> step, name |-> "none"]
Calling == [Says("info", "call") EXCEPT !.name = Head(queue).name]

\* Mutant: a call is logged when its response has been read.
ToSayAfterwards ==
  CASE pc = "tool_read" -> <<Calling>>
    [] pc = "ask_read" /\ pending.res.kind # "ok" -> <<Says("error", "turn_failed")>>
    [] OTHER -> <<>>

(***************************************************************************)
(* What the guest's next step says, in its order: before a tool is called, *)
(* and once a response has been read.                                      *)
(***************************************************************************)
ToSay ==
  CASE pc = "list_read" /\ pending.res.kind = "ok" -> <<Says("info", "starting")>>
    [] pc = "list_read" /\ pending.res.kind # "ok" ->
         <<Says("warn", "no_tools"), Says("info", "starting")>>
    [] pc = "ask_read" /\ pending.res.kind # "ok" -> <<Says("error", "turn_failed")>>
    [] pc = "tool" -> <<Calling>>
    [] pc = "tool_read" /\ Tail(queue) = <<>> /\ step >= maxSteps ->
         <<Says("warn", "step_limit")>>
    [] OTHER -> <<>>

LoggedInit == Init /\ LogInit

\* A step of the guest is taken with all it says, one of the host says nothing.
Speaks == at = "guest" /\ Progress /\ Emit(ToSay)
Silent == at # "guest" /\ Progress /\ UNCHANGED logVars

\* A guest may be stopped between two lines, or after a line and before its call.
Stopped == Trap /\ \E n \in 0..Len(ToSay) : Emit(SubSeq(ToSay, 1, n))

-----------------------------------------------------------------------------
\* The calls that a line announces: one, or none.
Announced(line) == IF line.text = "call" THEN <<<<line.step, line.name>>>> ELSE <<>>
CallsIn(lines) == FlattenSeq([i \in DOMAIN lines |-> Announced(lines[i])])
CallsMade == [i \in DOMAIN executed |-> <<executed[i].step, executed[i].name>>]

(***************************************************************************)
(* The report is "meant to be auditable after the fact" (README.md:        *)
(* 167-170).  Of a run the host had to stop it has no tool calls, but its  *)
(* log names them, their steps and their order, the refused ones included: *)
(* every call made is in the log, with at most one in addition which was   *)
(* about to be made, unless the log is full and so holds the first ones.   *)
(***************************************************************************)
LogNamesCalls ==
  LET named == CallsIn(logs) IN
    \/ IsPrefix(CallsMade, named) /\ Len(named) <= Len(CallsMade) + 1
    \/ Len(logs) = MaxLines /\ IsPrefix(named, CallsMade)

(***************************************************************************)
(* A run that ends in any other way than by an answer or a refusal has an  *)
(* explanation in what the host traced: a report of the guest, at level    *)
(* warn or error, that says why (lib.rs:208, 278).                         *)
(***************************************************************************)
EndingExplained ==
  report.by = "guest" /\ report.stop \in {"error", "step_limit"} =>
    /\ traced[Len(traced)].level \in {"warn", "error"}
    /\ traced[Len(traced)].step >= report.steps

\* The log tells what a run did, and why it came to no answer.
LogTellsRun == LogNamesCalls /\ EndingExplained

=============================================================================
