------------------------------ MODULE AgentRun ------------------------------
(***************************************************************************)
(* One run, end to end: Runtime::run and invoke_agent                      *)
(* (crates/tds-host/src/runtime.rs) around the shipped agent's run_agent   *)
(* (crates/tds-agent/src/lib.rs), which reaches the actions of             *)
(* CapabilityHost through host_call.                                       *)
(*                                                                         *)
(* A host_call is two steps of the guest: the call, which may block in the *)
(* host, and the response_read with the local work that follows it up to   *)
(* the next call.  The guest may be stopped before any step it takes, by   *)
(* fuel, by the epoch deadline or by a panic: Trap.                        *)
(***************************************************************************)
EXTENDS CapabilityHost, SequencesExt

CONSTANTS
  Ids,             \* tool_use identifiers
  RequestedSteps   \* values callers give AgentInput.max_steps

\* One tool_use block, and an LlmResponse as far as run_agent looks at it.
Use == [id : Ids, name : ToolNames, in : Inputs]
Answer == [stop_reason : {"end_turn", "tool_use", "max_tokens", "refusal"},
           uses : Seq(Use), tokens : Nat]

\* The agent's tools.list request is the two bytes {}.
ListLen == 2

ASSUME AgentAssumption ==
  /\ Answers \subseteq Answer
  /\ RequestedSteps \subseteq Nat
  /\ ListLen \in RequestLens

VARIABLES
  pc,         \* the next step of the run
  maxSteps,   \* AgentInput.max_steps as the guest gets it
  step,       \* run_agent's loop counter
  messages,   \* the conversation
  queue,      \* tool uses of this turn still to be called, the current first
  results,    \* the tool results collected this turn
  record,     \* the agent's tool_calls
  usage,      \* the agent's token sum
  out,        \* the AgentOutput the guest leaves to the host
  report,     \* RunReport.output
  executed,   \* history: what the host answered to each tool.invoke
  billed      \* history: tokens of every answer the provider returned

agentOnly == <<pc, maxSteps, step, messages, queue, results, record, usage,
               out, report, executed, billed>>
vars == <<hostVars, agentOnly>>

\* What the loop of run_agent carries from step to step.
loopVars == <<maxSteps, step, messages, queue, results, record, usage>>

Clamp(x, lo, hi) == IF x < lo THEN lo ELSE IF x > hi THEN hi ELSE x

\* Mutant: the caller's wish is granted above the policy's ceiling.
UnclampedCeiling(requested) == IF requested < 1 THEN 1 ELSE requested

\* Runtime::run clamps the wish; the agent's own max(1) then changes nothing.
Ceiling(requested) == Clamp(requested, 1, MaxSteps)

UserText == [role |-> "user", uses |-> <<>>, results |-> <<>>]
AssistantTurn(uses) ==
  [role |-> "assistant", uses |-> [i \in DOMAIN uses |-> uses[i].id],
   results |-> <<>>]
ToolResults(rs) == [role |-> "user", uses |-> <<>>, results |-> rs]

\* A ToolCallRecord, without the wording of the result.
Call(use, ok) == [step |-> step, name |-> use.name, in |-> use.in, ok |-> ok]

NoReport == [by |-> "none", stop |-> "none", steps |-> 0, calls |-> <<>>,
             usage |-> 0]

Init ==
  /\ HostInit
  /\ pc = "boot"
  /\ maxSteps \in {Ceiling(r) : r \in RequestedSteps}
  /\ step = 0
  /\ messages = <<>> /\ queue = <<>> /\ results = <<>>
  /\ record = <<>> /\ usage = 0
  /\ out = NoReport /\ report = NoReport
  /\ executed = <<>> /\ billed = 0

-----------------------------------------------------------------------------
(***************************************************************************)
(* Runtime::run up to tds_run.  ToolBox::new, instantiation or the ABI     *)
(* check may fail; run then returns Err, and there is no report.           *)
(***************************************************************************)
Boot ==
  /\ pc = "boot"
  /\ pc' = "alloc"
  /\ UNCHANGED <<hostVars, loopVars, out, report, executed, billed>>

BootFails ==
  /\ pc = "boot"
  /\ pc' = "failed"
  /\ UNCHANGED <<hostVars, loopVars, out, report, executed, billed>>

AllocInput ==
  /\ pc = "alloc"
  /\ pc' = "list"
  /\ UNCHANGED <<hostVars, loopVars, out, report, executed, billed>>

\* The report the host makes up when invoke_agent fails (runtime.rs:172-184).
HostReport ==
  /\ report' = [by |-> "host", stop |-> "error", steps |-> 0, calls |-> <<>>,
                usage |-> 0]
  /\ pc' = "reported"
  /\ UNCHANGED <<hostVars, loopVars, out, executed, billed>>

\* Out of fuel, past the deadline, a panic, or a tds_alloc that gives null.
Trap ==
  /\ pc \notin {"boot", "reported", "failed"}
  /\ at = "guest"
  /\ HostReport

-----------------------------------------------------------------------------
\* A failed tools.list costs the run its tools, not its life (lib.rs:176-179).
CallList ==
  /\ pc = "list"
  /\ ListTools(ListLen) \/ CallTooLong(ListLen, FALSE)
  /\ pc' = "list_read"
  /\ UNCHANGED <<loopVars, out, report, executed, billed>>

\* The conversation starts as the task, with the context before it if any.
ReadList ==
  /\ pc = "list_read"
  /\ Read(ret)
  /\ messages' \in {<<UserText>>, <<UserText, UserText>>}
  /\ step' = 1
  /\ pc' = "ask"
  /\ UNCHANGED <<maxSteps, queue, results, record, usage, out, report, executed,
                 billed>>

(***************************************************************************)
(* llm.complete.  CompleteDenied is not a disjunct: HostLimitNeverBinds    *)
(* shows that it is never enabled here, and EventuallyReported that the    *)
(* run does not stop for want of it.                                       *)
(***************************************************************************)
CallModel ==
  /\ pc = "ask"
  /\ \E len \in RequestLens : CompleteBegin(len) \/ CallTooLong(len, FALSE)
  /\ pc' = "ask_read"
  /\ UNCHANGED <<loopVars, out, report, executed, billed>>

ModelAnswers(a) ==
  /\ CompleteEnd(Ok(a))
  /\ billed' = billed + a.tokens
  /\ UNCHANGED <<pc, loopVars, out, report, executed>>

ModelFails ==
  /\ CompleteEnd(Err("upstream"))
  /\ UNCHANGED agentOnly

\* run_agent returns; leak_to_host has no room for the encoded output, or has.
Finish(stop, steps) ==
  /\ out' \in {NoReport,
                [by |-> "guest", stop |-> stop, steps |-> steps,
                 calls |-> record', usage |-> usage']}
  /\ pc' = "free_input"
  /\ UNCHANGED <<report, executed, billed>>

\* Mutant: a failed turn is counted as a step.
AskFailedCounted ==
  /\ pc = "ask_read"
  /\ Read(ret)
  /\ pending.res.kind # "ok"
  /\ UNCHANGED loopVars
  /\ Finish("error", step)

AskFailed ==
  /\ pc = "ask_read"
  /\ Read(ret)
  /\ pending.res.kind # "ok"
  /\ UNCHANGED loopVars
  /\ Finish("error", step - 1)

\* An answer is read: its tokens are added before anything else is looked at.
ReadAnswer ==
  /\ pc = "ask_read"
  /\ Read(ret)
  /\ pending.res.kind = "ok"
  /\ usage' = usage + pending.res.body.tokens

\* Mutant: the tokens of a refusal are not added.
RefusedUnbilled ==
  /\ pc = "ask_read"
  /\ Read(ret)
  /\ pending.res.kind = "ok"
  /\ pending.res.body.stop_reason = "refusal"
  /\ UNCHANGED loopVars
  /\ Finish("refusal", step)

Refused ==
  /\ ReadAnswer
  /\ pending.res.body.stop_reason = "refusal"
  /\ UNCHANGED <<maxSteps, step, messages, queue, results, record>>
  /\ Finish("refusal", step)

Completed ==
  /\ ReadAnswer
  /\ pending.res.body.stop_reason # "refusal"
  /\ pending.res.body.uses = <<>>
  /\ messages' = Append(messages, AssistantTurn(<<>>))
  /\ UNCHANGED <<maxSteps, step, queue, results, record>>
  /\ Finish("completed", step)

\* Mutant: the results of the turn before are not cleared.
ToolsRequestedKeepsResults ==
  /\ ReadAnswer
  /\ pending.res.body.stop_reason # "refusal"
  /\ pending.res.body.uses # <<>>
  /\ messages' = Append(messages, AssistantTurn(pending.res.body.uses))
  /\ queue' = pending.res.body.uses
  /\ pc' = "tool"
  /\ UNCHANGED <<maxSteps, step, results, record, out, report, executed, billed>>

ToolsRequested ==
  /\ ReadAnswer
  /\ pending.res.body.stop_reason # "refusal"
  /\ pending.res.body.uses # <<>>
  /\ messages' = Append(messages, AssistantTurn(pending.res.body.uses))
  /\ queue' = pending.res.body.uses
  /\ results' = <<>>
  /\ pc' = "tool"
  /\ UNCHANGED <<maxSteps, step, record, out, report, executed, billed>>

-----------------------------------------------------------------------------
(***************************************************************************)
(* tool.invoke, for the first use in the queue.  `executed` gets the       *)
(* host's answer at the moment the host gives it.                          *)
(***************************************************************************)
Executed == executed' = Append(executed, Call(Head(queue), pending'.res.kind = "ok"))

CallTool ==
  /\ pc = "tool"
  /\ \E len \in RequestLens :
       \/ InvokeTool(Head(queue).name, Head(queue).in, len) /\ Executed
       \/ CallTooLong(len, FALSE) /\ Executed
       \/ FetchBegin(Head(queue).name, Head(queue).in, len) /\ UNCHANGED executed
  /\ pc' = "tool_read"
  /\ UNCHANGED <<loopVars, out, report, billed>>

WebAnswers ==
  /\ FetchEnd
  /\ Executed
  /\ UNCHANGED <<pc, loopVars, out, report, billed>>

\* Mutant: a refused call is kept out of the record.
ToolAnsweredUnlessRefused(ok) ==
  /\ pc = "tool_read"
  /\ Read(ret)
  /\ ok = (pending.res.kind = "ok")
  /\ record' = IF ok THEN Append(record, Call(Head(queue), ok)) ELSE record
  /\ results' = Append(results, [id |-> Head(queue).id, ok |-> ok])
  /\ queue' = Tail(queue)
  /\ UNCHANGED <<maxSteps, usage>>

\* Mutant: the model is told that every call succeeded.
ToolAnsweredAlwaysOk(ok) ==
  /\ pc = "tool_read"
  /\ Read(ret)
  /\ ok = (pending.res.kind = "ok")
  /\ record' = Append(record, Call(Head(queue), ok))
  /\ results' = Append(results, [id |-> Head(queue).id, ok |-> TRUE])
  /\ queue' = Tail(queue)
  /\ UNCHANGED <<maxSteps, usage>>

\* One turn of the loop at lib.rs:253-274, up to the push of the result.
ToolAnswered(ok) ==
  /\ pc = "tool_read"
  /\ Read(ret)
  /\ ok = (pending.res.kind = "ok")
  /\ record' = Append(record, Call(Head(queue), ok))
  /\ results' = Append(results, [id |-> Head(queue).id, ok |-> ok])
  /\ queue' = Tail(queue)
  /\ UNCHANGED <<maxSteps, usage>>

ReadTool ==
  /\ \E ok \in BOOLEAN : ToolAnswered(ok)
  /\ Tail(queue) # <<>>
  /\ pc' = "tool"
  /\ UNCHANGED <<step, messages, out, report, executed, billed>>

\* Mutant: the model is asked again after the first result.
AskAgainEarly ==
  /\ \E ok \in BOOLEAN : ToolAnswered(ok)
  /\ messages' = Append(messages, ToolResults(results'))
  /\ step < maxSteps
  /\ step' = step + 1
  /\ pc' = "ask"
  /\ UNCHANGED <<out, report, executed, billed>>

\* The last result of a turn: all of them go back in one message.
AskAgain ==
  /\ \E ok \in BOOLEAN : ToolAnswered(ok)
  /\ Tail(queue) = <<>>
  /\ messages' = Append(messages, ToolResults(results'))
  /\ step < maxSteps
  /\ step' = step + 1
  /\ pc' = "ask"
  /\ UNCHANGED <<out, report, executed, billed>>

\* Mutant: at its last step the run neither asks again nor ends.
StepLimitPast ==
  /\ \E ok \in BOOLEAN : ToolAnswered(ok)
  /\ Tail(queue) = <<>>
  /\ messages' = Append(messages, ToolResults(results'))
  /\ step > maxSteps
  /\ UNCHANGED step
  /\ Finish("step_limit", maxSteps)

StepLimit ==
  /\ \E ok \in BOOLEAN : ToolAnswered(ok)
  /\ Tail(queue) = <<>>
  /\ messages' = Append(messages, ToolResults(results'))
  /\ step >= maxSteps
  /\ UNCHANGED step
  /\ Finish("step_limit", maxSteps)

-----------------------------------------------------------------------------
(***************************************************************************)
(* invoke_agent after tds_run.  Both calls of tds_dealloc are guest code,  *)
(* so Trap may strike at either, and the finished output is lost with it.  *)
(***************************************************************************)
FreeInput ==
  /\ pc = "free_input"
  /\ out # NoReport
  /\ pc' = "free_output"
  /\ UNCHANGED <<hostVars, loopVars, out, report, executed, billed>>

EmptyOutput ==
  /\ pc = "free_input"
  /\ out = NoReport
  /\ HostReport

FreeOutput ==
  /\ pc = "free_output"
  /\ report' = out
  /\ pc' = "reported"
  /\ UNCHANGED <<hostVars, loopVars, out, executed, billed>>

\* The steps a run takes of itself.
Progress ==
  \/ Boot \/ BootFails \/ AllocInput
  \/ CallList \/ ReadList
  \/ CallModel \/ (\E a \in Answers : ModelAnswers(a)) \/ ModelFails
  \/ AskFailed \/ Refused \/ Completed \/ ToolsRequested
  \/ CallTool \/ WebAnswers \/ ReadTool \/ AskAgain \/ StepLimit
  \/ FreeInput \/ EmptyOutput \/ FreeOutput

Next == Progress \/ Trap

Spec == Init /\ [][Next]_vars

-----------------------------------------------------------------------------
Message == [role : {"user", "assistant"}, uses : Seq(Ids),
            results : Seq([id : Ids, ok : BOOLEAN])]
CallRecord == [step : Nat, name : ToolNames, in : Inputs, ok : BOOLEAN]
Output == [by : {"none", "guest", "host"},
           stop : {"none", "completed", "refusal", "step_limit", "error"},
           steps : Nat, calls : Seq(CallRecord), usage : Nat]

AgentTypeOK ==
  /\ pc \in {"boot", "alloc", "list", "list_read", "ask", "ask_read", "tool",
             "tool_read", "free_input", "free_output", "reported", "failed"}
  /\ maxSteps \in 1..MaxSteps
  /\ step \in 0..maxSteps
  /\ messages \in Seq(Message)
  /\ queue \in Seq(Use)
  /\ results \in Seq([id : Ids, ok : BOOLEAN])
  /\ record \in Seq(CallRecord) /\ executed \in Seq(CallRecord)
  /\ usage \in Nat /\ billed \in Nat
  /\ out \in Output /\ report \in Output

(***************************************************************************)
(* Whenever the model is asked, each assistant turn in the conversation is *)
(* followed by one user message that answers its tool uses, all of them    *)
(* and in their order (lib.rs:251-275).  A provider refuses a conversation *)
(* of another shape.                                                       *)
(***************************************************************************)
AnsweredIn(ms, i) ==
  ms[i].role = "assistant" =>
    /\ i + 1 \in DOMAIN ms
    /\ ms[i + 1].role = "user"
    /\ ms[i].uses = [j \in DOMAIN ms[i + 1].results |-> ms[i + 1].results[j].id]

ConversationAnswered ==
  pc = "ask" => \A i \in DOMAIN messages : AnsweredIn(messages, i)

\* Of calls or of tool results, the success of each; all that a model was told of.
Verdicts(answers) == [i \in DOMAIN answers |-> answers[i].ok]
Told(conversation) ==
  FlattenSeq([i \in DOMAIN conversation |-> Verdicts(conversation[i].results)])

(***************************************************************************)
(* What the model is told of the success of each call, over the whole      *)
(* conversation, is what the host decided, in the order it did             *)
(* (lib.rs:259-271).                                                       *)
(***************************************************************************)
VerdictsPassedOn == pc = "ask" => Told(messages) = Verdicts(executed)

(***************************************************************************)
(* "every tool call with its arguments and whether it succeeded, token     *)
(* usage ..." (README.md:167-170).  A report the guest got to make lists   *)
(* every tool call the host answered in the run, in order, with the host's *)
(* verdict, refused calls and calls of the last turn included, however the *)
(* run ended.                                                              *)
(***************************************************************************)
AuditTrailComplete == report.by = "guest" => report.calls = executed

(***************************************************************************)
(* The usage the guest reports is the sum over every answer the provider   *)
(* returned in the run, a refusal's included (lib.rs:218).                 *)
(***************************************************************************)
UsageSummed == report.by = "guest" => report.usage = billed

(***************************************************************************)
(* The steps the guest reports are the requests the host handed to the     *)
(* provider, except that a turn which failed is not counted, whether it    *)
(* failed at the provider or never got past the host (lib.rs:211).         *)
(***************************************************************************)
StepsReported ==
  report.by = "guest" =>
    \/ report.steps = turns
    \/ report.stop = "error" /\ report.steps + 1 = turns

(***************************************************************************)
(* The agent never runs into the host's own turn limit: the wish it is     *)
(* given is clamped (runtime.rs:125) and its loop counts as the host does, *)
(* so a run ends with StepLimit and never with a denied completion.        *)
(***************************************************************************)
HostLimitNeverBinds == pc = "ask" => ~TurnsUsedUp

(***************************************************************************)
(* When the agent comes to read, what waits in the host is the answer to   *)
(* the call it just made, and has the length that call returned: the       *)
(* "truncated response" branch of host_call (lib.rs:142-144) is dead.      *)
(***************************************************************************)
AgentReadsOwnAnswer ==
  pc \in {"list_read", "ask_read", "tool_read"} /\ at = "guest" =>
    /\ pending.ticket = calls
    /\ ret = pending.len

(***************************************************************************)
(* Every run ends, and needs no fuel limit or deadline to: with a report,  *)
(* or with the error of a run that never started (lib.rs:198-287).         *)
(***************************************************************************)
EventuallyReported == <>(pc \in {"reported", "failed"})

\* A run as the contract sees it.  A failed boot is an error without a report.
Contract ==
  INSTANCE RunContract WITH
    ceiling <- maxSteps,
    waiting <- (pc = "ask_read" /\ turns = step),
    owed <- Len(queue),
    verdict <- IF pc = "failed" THEN "error" ELSE report.stop

\* A run keeps the contract.
KeepsContract == Contract!ContractSpec

(***************************************************************************)
(* "every tool call with its arguments and whether it succeeded ... meant  *)
(* to be auditable" (README.md:167-170), of every report.                  *)
(***************************************************************************)
EveryReportIsAuditable == report # NoReport => report.calls = executed

(***************************************************************************)
(* "How many model turns were consumed." (crates/tds-abi/src/lib.rs:181),  *)
(* in the reports the agent makes.                                         *)
(***************************************************************************)
StepsAreTurnsConsumed == report.by = "guest" => report.steps = turns

(***************************************************************************)
(* Completed: "The model produced a final answer." (crates/tds-abi/src/    *)
(* lib.rs:196).  An answer the model did not get to the end of is not one. *)
(***************************************************************************)
CompletedMeansFinal ==
  [][out.stop # "completed" /\ out'.stop = "completed" =>
       pending.res.body.stop_reason # "max_tokens"]_vars

=============================================================================
