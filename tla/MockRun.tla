------------------------------ MODULE MockRun ------------------------------
(***************************************************************************)
(* The model of a run is the one its policy names (llm::build in           *)
(* crates/tds-host/src/llm.rs): one that may answer anything, as AgentRun  *)
(* has it, or MockProvider, the stand-in of policy/mock.toml, whose answer *)
(* is a function of the request: the conversation and the tools the agent  *)
(* was told of.                                                            *)
(***************************************************************************)
EXTENDS AgentRun

CONSTANT Directives   \* the !tool lines of task and context, in order

\* A line that starts with !tool; arguments that do not parse are none.
Directive == [name : ToolNames, in : Inputs]

ASSUME MockAssumption == Directives \in Seq(Directive)

VARIABLES
  provider,  \* llm.provider
  tools      \* the tools the agent passes on with every request

\* The directives for the tools that are available.
Taken(available) ==
  FlattenSeq([i \in DOMAIN Directives |->
                IF Directives[i].name \in available THEN <<Directives[i]>> ELSE <<>>])

\* Only directives for tools in the request become calls, with ids of their own.
MockUses(available) ==
  LET taken == Taken(available)
  IN  [i \in DOMAIN taken |->
         [id |-> i, name |-> taken[i].name, in |-> taken[i].in]]

MockCalls(available) ==
  [stop_reason |-> "tool_use", uses |-> MockUses(available), tokens |-> 120]
MockText == [stop_reason |-> "end_turn", uses |-> <<>>, tokens |-> 150]

\* All the answers the mock may give: to an agent with its tools, and without.
MockAnswers == {MockText, MockCalls(Enabled), MockCalls({})}

\* Mutant: only the first message is looked at.
AlreadyUsedToolsFirst == messages[1].results # <<>>

\* A tool result is anywhere in the conversation.
AlreadyUsedTools == \E i \in DOMAIN messages : messages[i].results # <<>>

MockAnswer ==
  IF ~AlreadyUsedTools /\ MockUses(tools) # <<>>
  THEN MockCalls(tools) ELSE MockText

ProviderInit == provider \in {"anthropic", "mock"} /\ tools = {}

\* specs() describes the enabled tools; a failed tools.list leaves none.
ListRead ==
  /\ ReadList
  /\ tools' = IF pending.res.kind = "ok" THEN Enabled ELSE {}

\* The mock answers at once and never fails.
MockNext ==
  \/ ListRead
  \/ ModelAnswers(MockAnswer) /\ UNCHANGED tools
  \/ /\ pc # "list_read" /\ at # "model"
     /\ Next
     /\ UNCHANGED tools
  \/ Trap /\ UNCHANGED tools

\* What the provider adds to a step of the run.
Provided ==
  /\ IF provider = "mock" THEN MockNext ELSE UNCHANGED tools
  /\ UNCHANGED provider

-----------------------------------------------------------------------------
(***************************************************************************)
(* A line "!tool <name> <json-args>" becomes a tool call on the first      *)
(* turn (llm.rs:230-232): when a mock run ends without error, the calls it *)
(* lists are the directives for tools on offer, each of them once, in the  *)
(* order of the task, and none for a tool the policy did not enable.       *)
(***************************************************************************)
DirectivesCarriedOut ==
  provider = "mock" /\ report.stop \in {"completed", "step_limit"} =>
    [i \in DOMAIN report.calls |->
       [name |-> report.calls[i].name, in |-> report.calls[i].in]]
      = Taken(tools)

(***************************************************************************)
(* "Once the results come back, it answers with a summary" (llm.rs:232): a *)
(* mock run needs two turns at most, so the step limit stops it only where *)
(* the caller granted no second one, and makes all its calls in the first. *)
(***************************************************************************)
MockEndsInTwoTurns ==
  provider = "mock" =>
    /\ turns <= 2
    /\ report.stop = "step_limit" => maxSteps = 1
    /\ \A i \in DOMAIN record : record[i].step = 1

\* A mock run carries its task out once, and is done.
MockKeepsToTask == DirectivesCarriedOut /\ MockEndsInTwoTurns

=============================================================================
