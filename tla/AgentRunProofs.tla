--------------------------- MODULE AgentRunProofs ---------------------------
(***************************************************************************)
(* Theorems about AgentRun, for every policy, model and caller.            *)
(***************************************************************************)
EXTENDS AgentRun, CapabilityHostProofs

USE DEF vars, agentOnly, loopVars, hostVars, hostOnly, toolVars

-----------------------------------------------------------------------------
(***************************************************************************)
(* Where the run is, as far as the turn count is concerned: the loop       *)
(* counter of the agent and the counter of the host agree, up to the turn  *)
(* that is being asked for.                                                *)
(***************************************************************************)
Reading == {"list_read", "ask_read", "tool_read"}

ThreadInv ==
  /\ at \in {"guest", "model", "web"}
  /\ at = "model" => pc = "ask_read"
  /\ at = "web" => pc = "tool_read"
  /\ pending.len \in ResponseLens \cup {0}

QueueInv ==
  /\ queue \in Seq(Use)
  /\ pc \in {"tool", "tool_read"} => queue # <<>>
  /\ pc = "ask_read" /\ at = "guest" /\ pending.res.kind = "ok" =>
       pending.res.body \in Answers

CountInv ==
  /\ turns \in Nat /\ llmCalls = turns
  /\ maxSteps \in 1..MaxSteps
  /\ step \in 0..maxSteps
  /\ pc \in {"boot", "alloc", "list", "list_read"} => step = 0 /\ turns = 0
  /\ pc = "ask" => step > 0 /\ turns = step - 1
  /\ pc = "ask_read" =>
       /\ step > 0
       /\ \/ turns = step
          \/ turns = step - 1 /\ at = "guest" /\ pending.res.kind # "ok"
  /\ pc \in {"tool", "tool_read"} => step > 0 /\ turns = step

ControlInv == ThreadInv /\ QueueInv /\ CountInv

\* What the actions of the host that a run is made of do to its thread.
LEMMA AnswerShape ==
  ASSUME NEW ticket, NEW res, Respond(ticket, res)
  PROVE  /\ pending'.res = res
         /\ pending'.len \in ResponseLens
PROOF
BY DEF Respond

LEMMA ReadShape ==
  ASSUME NEW len, Read(len)
  PROVE  /\ pending' = Empty
         /\ pending'.len = 0
         /\ at = "guest"
         /\ UNCHANGED <<at, llmCalls, turns>>
PROOF
BY DEF Read, Empty

LEMMA QueueShape ==
  ASSUME queue \in Seq(Use), queue # <<>>
  PROVE  Head(queue) \in Use /\ Tail(queue) \in Seq(Use)
PROOF
OBVIOUS

\* The initial states satisfy ControlInv: the clamp puts the ceiling in range.
LEMMA InitControl ==
  ASSUME Init
  PROVE  ControlInv
PROOF
<1>1. \A r \in RequestedSteps : Ceiling(r) \in 1..MaxSteps
  BY HostAssumption, AgentAssumption DEF Ceiling, Clamp
<1>2. maxSteps \in 1..MaxSteps
  BY <1>1 DEF Init
<1>3. ThreadInv
  BY DEF Init, HostInit, Empty, ThreadInv
<1>4. QueueInv
  BY DEF Init, QueueInv
<1>5. CountInv
  BY <1>2, HostAssumption DEF Init, HostInit, CountInv
<1> QED BY <1>3, <1>4, <1>5 DEF ControlInv

\* Every step of a run keeps ControlInv.
LEMMA NextControl ==
  ASSUME ControlInv, [Next]_vars
  PROVE  ControlInv'
PROOF
<1> USE DEF ControlInv
<1>1. CASE UNCHANGED vars
  BY <1>1 DEF ThreadInv, QueueInv, CountInv
<1>2. CASE Boot \/ BootFails \/ AllocInput \/ Trap
  BY <1>2 DEF Boot, BootFails, AllocInput, Trap, HostReport, ThreadInv,
              QueueInv, CountInv
<1>3. CASE CallList
  <2>1. /\ pc = "list" /\ pc' = "list_read" /\ at' = "guest"
        /\ pending'.len \in ResponseLens
        /\ UNCHANGED <<llmCalls, turns, maxSteps, step, queue>>
    BY <1>3, AnswerShape DEF CallList, ListTools, CallTooLong, Enter
  <2> QED BY <2>1 DEF ThreadInv, QueueInv, CountInv
<1>4. CASE ReadList
  <2>1. /\ pc = "list_read" /\ pc' = "ask" /\ at = "guest" /\ step' = 1
        /\ pending'.len = 0
        /\ UNCHANGED <<at, llmCalls, turns, maxSteps, queue>>
    BY <1>4, ReadShape DEF ReadList
  <2> QED BY <2>1 DEF ThreadInv, QueueInv, CountInv
<1>5. CASE CallModel
  <2>1. /\ pc = "ask" /\ pc' = "ask_read" /\ at = "guest"
        /\ UNCHANGED <<maxSteps, step, queue>>
    BY <1>5 DEF CallModel, CompleteBegin, CallTooLong, Enter
  <2>2. PICK len \in RequestLens : CompleteBegin(len) \/ CallTooLong(len, FALSE)
    BY <1>5 DEF CallModel
  <2>3. CASE CompleteBegin(len)
    <3>1. /\ at' = "model" /\ pending' = pending
          /\ turns' = turns + 1 /\ llmCalls' = llmCalls + 1
      BY <2>3 DEF CompleteBegin
    <3> QED BY <2>1, <3>1 DEF ThreadInv, QueueInv, CountInv
  <2>4. CASE CallTooLong(len, FALSE)
    <3>1. /\ pending'.res = Err("invalid") /\ pending'.len \in ResponseLens
          /\ UNCHANGED <<at, llmCalls, turns>>
      BY <2>4, AnswerShape DEF CallTooLong
    <3>2. pending'.res.kind = "invalid"
      BY <3>1 DEF Err
    <3> QED BY <2>1, <3>1, <3>2 DEF ThreadInv, QueueInv, CountInv
  <2> QED BY <2>2, <2>3, <2>4
<1>6. ASSUME NEW a \in Answers, ModelAnswers(a) PROVE ControlInv'
  <2>1. /\ at = "model" /\ at' = "guest"
        /\ pending'.res = Ok(a) /\ pending'.len \in ResponseLens
        /\ UNCHANGED <<pc, llmCalls, turns, maxSteps, step, queue>>
    BY <1>6, AnswerShape DEF ModelAnswers, CompleteEnd
  <2>2. pending'.res.body = a
    BY <2>1 DEF Ok
  <2> QED BY <2>1, <2>2 DEF ThreadInv, QueueInv, CountInv
<1>7. CASE ModelFails
  <2>1. /\ at = "model" /\ at' = "guest"
        /\ pending'.res = Err("upstream") /\ pending'.len \in ResponseLens
        /\ UNCHANGED <<pc, llmCalls, turns, maxSteps, step, queue>>
    BY <1>7, AnswerShape DEF ModelFails, CompleteEnd
  <2>2. pending'.res.kind # "ok"
    BY <2>1 DEF Err
  <2> QED BY <2>1, <2>2 DEF ThreadInv, QueueInv, CountInv
<1>8. CASE AskFailed \/ Refused \/ Completed
  <2>1. /\ pc = "ask_read" /\ pc' = "free_input" /\ at = "guest"
        /\ pending'.len = 0
        /\ UNCHANGED <<at, llmCalls, turns, maxSteps, step, queue>>
    BY <1>8, ReadShape
    DEF AskFailed, Refused, Completed, ReadAnswer, Finish
  <2> QED BY <2>1 DEF ThreadInv, QueueInv, CountInv
<1>9. CASE ToolsRequested
  <2>1. /\ pc = "ask_read" /\ pc' = "tool" /\ at = "guest"
        /\ pending.res.kind = "ok"
        /\ queue' = pending.res.body.uses /\ queue' # <<>>
        /\ pending'.len = 0
        /\ UNCHANGED <<at, llmCalls, turns, maxSteps, step>>
    BY <1>9, ReadShape DEF ToolsRequested, ReadAnswer
  <2>2. pending.res.body.uses \in Seq(Use)
    BY <2>1, AgentAssumption DEF QueueInv, Answer
  <2> QED BY <2>1, <2>2 DEF ThreadInv, QueueInv, CountInv
<1>10. CASE CallTool
  <2>1. /\ pc = "tool" /\ pc' = "tool_read" /\ at = "guest"
        /\ UNCHANGED <<maxSteps, step, queue>>
    BY <1>10 DEF CallTool, InvokeTool, CallTooLong, FetchBegin, Enter
  <2>2. /\ at' \in {"guest", "web"}
        /\ pending'.len \in ResponseLens \cup {0}
        /\ UNCHANGED <<llmCalls, turns>>
    <3>1. PICK len \in RequestLens :
            \/ InvokeTool(Head(queue).name, Head(queue).in, len)
            \/ CallTooLong(len, FALSE)
            \/ FetchBegin(Head(queue).name, Head(queue).in, len)
      BY <1>10 DEF CallTool
    <3>2. CASE InvokeTool(Head(queue).name, Head(queue).in, len)
      BY <2>1, <3>2, AnswerShape DEF InvokeTool
    <3>3. CASE CallTooLong(len, FALSE)
      BY <2>1, <3>3, AnswerShape DEF CallTooLong
    <3>4. CASE FetchBegin(Head(queue).name, Head(queue).in, len)
      BY <3>4 DEF FetchBegin, ThreadInv
    <3> QED BY <3>1, <3>2, <3>3, <3>4
  <2> QED BY <2>1, <2>2 DEF ThreadInv, QueueInv, CountInv
<1>11. CASE WebAnswers
  <2>1. /\ at = "web" /\ at' = "guest"
        /\ pending'.len \in ResponseLens
        /\ UNCHANGED <<pc, llmCalls, turns, maxSteps, step, queue>>
    BY <1>11, AnswerShape DEF WebAnswers, FetchEnd
  <2> QED BY <2>1 DEF ThreadInv, QueueInv, CountInv
<1>12. CASE ReadTool \/ AskAgain \/ StepLimit
  <2>1. /\ pc = "tool_read" /\ at = "guest"
        /\ pending'.len = 0 /\ queue' = Tail(queue)
        /\ UNCHANGED <<at, llmCalls, turns, maxSteps>>
    BY <1>12, ReadShape DEF ReadTool, AskAgain, StepLimit, ToolAnswered
  <2>2. queue' \in Seq(Use)
    BY <2>1, QueueShape DEF QueueInv
  <2>3. CASE ReadTool
    BY <2>1, <2>2, <2>3 DEF ReadTool, ThreadInv, QueueInv, CountInv
  <2>4. CASE AskAgain
    <3>1. pc' = "ask" /\ step < maxSteps /\ step' = step + 1
      BY <2>4 DEF AskAgain
    <3> QED BY <2>1, <2>2, <3>1 DEF ThreadInv, QueueInv, CountInv
  <2>5. CASE StepLimit
    BY <2>1, <2>2, <2>5 DEF StepLimit, Finish, ThreadInv, QueueInv, CountInv
  <2> QED BY <1>12, <2>3, <2>4, <2>5
<1>13. CASE FreeInput \/ EmptyOutput \/ FreeOutput
  BY <1>13 DEF FreeInput, EmptyOutput, FreeOutput, HostReport, ThreadInv,
               QueueInv, CountInv
<1> QED BY <1>1, <1>2, <1>3, <1>4, <1>5, <1>6, <1>7, <1>8, <1>9, <1>10, <1>11,
           <1>12, <1>13 DEF Next, Progress

LEMMA ControlInvHolds == Spec => []ControlInv
PROOF
BY InitControl, NextControl, PTL DEF Spec

(***************************************************************************)
(* Whatever the caller wishes and the model answers, the agent never asks  *)
(* for a turn the host would deny.                                         *)
(***************************************************************************)
THEOREM HostLimitNeverBindsHolds == Spec => []HostLimitNeverBinds
PROOF
<1>1. ASSUME ControlInv PROVE HostLimitNeverBinds
  BY <1>1, HostAssumption
  DEF ControlInv, CountInv, HostLimitNeverBinds, TurnsUsedUp
<1> QED BY <1>1, ControlInvHolds, PTL

-----------------------------------------------------------------------------
\* A step of a run is a step of the host, or leaves the host alone.
LEMMA AgentStepIsHostStep ==
  ASSUME ControlInv, [Next]_vars
  PROVE  [HostNext]_hostVars
PROOF
<1> USE DEF ControlInv
<1>1. CASE \/ UNCHANGED vars \/ Boot \/ BootFails \/ AllocInput \/ Trap
           \/ FreeInput \/ EmptyOutput \/ FreeOutput
  BY <1>1 DEF Boot, BootFails, AllocInput, Trap, FreeInput, EmptyOutput,
              FreeOutput, HostReport
<1>2. CASE CallList
  BY <1>2, AgentAssumption DEF CallList, HostNext, GuestCalls
<1>3. ASSUME Read(ret) PROVE HostNext
  <2>1. ret \in ResponseLens \cup {0}
    BY <1>3 DEF Read, ThreadInv
  <2> QED BY <1>3, <2>1 DEF HostNext, GuestReads
<1>4. CASE \/ ReadList \/ AskFailed \/ Refused \/ Completed \/ ToolsRequested
           \/ ReadTool \/ AskAgain \/ StepLimit
  BY <1>3, <1>4 DEF ReadList, AskFailed, Refused, Completed, ReadAnswer,
                    ToolsRequested, ReadTool, AskAgain, StepLimit, ToolAnswered
<1>5. CASE CallModel
  BY <1>5 DEF CallModel, HostNext, GuestCalls
<1>6. CASE (\E a \in Answers : ModelAnswers(a)) \/ ModelFails
  BY <1>6 DEF ModelAnswers, ModelFails, HostNext, WorldAnswers
<1>7. CASE CallTool
  <2>1. Head(queue).name \in ToolNames /\ Head(queue).in \in Inputs
    BY <1>7, QueueShape DEF CallTool, QueueInv, Use
  <2> QED BY <1>7, <2>1 DEF CallTool, HostNext, GuestCalls
<1>8. CASE WebAnswers
  BY <1>8 DEF WebAnswers, HostNext, WorldAnswers
<1> QED BY <1>1, <1>2, <1>4, <1>5, <1>6, <1>7, <1>8 DEF Next, Progress

(***************************************************************************)
(* A run of the shipped agent is a run of the host with some guest, so     *)
(* what CapabilityHostProofs shows of every guest holds of it.             *)
(***************************************************************************)
THEOREM AgentRunImplementsHost == Spec => HostSpec
PROOF
<1>1. ASSUME Init PROVE HostInit
  BY <1>1 DEF Init
<1> QED BY <1>1, AgentStepIsHostStep, ControlInvHolds, PTL DEF Spec, HostSpec

\* Among them: the agent too is never handed more than max_steps turns.
COROLLARY AgentTurnCap == Spec => []TurnCap
PROOF
BY AgentRunImplementsHost, TurnCapHolds, PTL

-----------------------------------------------------------------------------
(***************************************************************************)
(* The books the agent keeps, against what the host did.  The agent is     *)
(* behind by the one call or answer it has not read yet, and stays behind  *)
(* if it is stopped there.                                                 *)
(***************************************************************************)
BooksInv ==
  /\ pc = "tool_read" /\ at = "guest" =>
       executed = Append(record, Call(Head(queue), pending.res.kind = "ok"))
  /\ pc # "reported" /\ ~(pc = "tool_read" /\ at = "guest") => executed = record
  /\ pc = "ask_read" /\ at = "guest" /\ pending.res.kind = "ok" =>
       billed = usage + pending.res.body.tokens
  /\ pc # "reported"
     /\ ~(pc = "ask_read" /\ at = "guest" /\ pending.res.kind = "ok") =>
       billed = usage

StepsRight(o) ==
  \/ o.steps = turns
  \/ o.stop = "error" /\ o.steps + 1 = turns

\* What the guest says of the run is what happened in it.
Honest(o) ==
  o.by = "guest" =>
    /\ o.calls = executed
    /\ o.usage = billed
    /\ StepsRight(o)

OutInv ==
  /\ Honest(out) /\ Honest(report)
  /\ out.by = "guest" => pc \in {"free_input", "free_output", "reported"}
  /\ report.by = "guest" => pc = "reported"

HistoryInv == BooksInv /\ OutInv

\* Before the end of the run there is no output to be wrong about.
LEMMA HonestBefore ==
  ASSUME OutInv, UNCHANGED <<out, report>>,
         pc \notin {"free_input", "free_output", "reported"}
  PROVE  OutInv'
PROOF
<1>1. out.by # "guest" /\ report.by # "guest"
  BY DEF OutInv
<1> QED BY <1>1 DEF OutInv, Honest

\* The initial states: the books are empty.
LEMMA InitHistory ==
  ASSUME Init
  PROVE  HistoryInv
PROOF
BY DEF Init, HistoryInv, BooksInv, OutInv, Honest, NoReport

\* What run_agent returns is honest if its arguments are.
LEMMA FinishHonest ==
  ASSUME NEW stop, NEW steps, Finish(stop, steps), OutInv,
         pc \notin {"free_input", "free_output", "reported"},
         record' = executed', usage' = billed',
         \/ steps = turns'
         \/ stop = "error" /\ steps + 1 = turns'
  PROVE  OutInv'
PROOF
<1>1. report.by # "guest" /\ report' = report
  BY DEF OutInv, Finish
<1>2. CASE out' = NoReport
  BY <1>1, <1>2 DEF OutInv, Honest, NoReport
<1>3. CASE out' = [by |-> "guest", stop |-> stop, steps |-> steps,
                   calls |-> record', usage |-> usage']
  BY <1>1, <1>3 DEF OutInv, Honest, StepsRight, Finish
<1> QED BY <1>2, <1>3 DEF Finish

\* Every step of a run keeps HistoryInv.
LEMMA NextHistory ==
  ASSUME ControlInv, HistoryInv, [Next]_vars
  PROVE  HistoryInv'
PROOF
<1> USE DEF HistoryInv, ControlInv
<1>1. CASE UNCHANGED vars
  BY <1>1 DEF BooksInv, Call, OutInv, Honest, StepsRight
<1>2. CASE Boot \/ BootFails \/ AllocInput
  <2>1. OutInv'
    BY <1>2, HonestBefore DEF Boot, BootFails, AllocInput
  <2> QED BY <1>2, <2>1 DEF Boot, BootFails, AllocInput, BooksInv
<1>3. CASE HostReport
  <2>1. /\ pc' = "reported" /\ report'.by = "host"
        /\ UNCHANGED <<out, executed, billed, turns>>
    BY <1>3 DEF HostReport
  <2> QED BY <2>1 DEF BooksInv, OutInv, Honest, StepsRight
<1>4. CASE CallList
  <2>1. /\ pc = "list" /\ pc' = "list_read"
        /\ UNCHANGED <<out, report, executed, billed, record, usage>>
    BY <1>4 DEF CallList
  <2> QED BY <2>1, HonestBefore DEF BooksInv
<1>5. CASE ReadList
  <2>1. /\ pc = "list_read" /\ pc' = "ask"
        /\ UNCHANGED <<out, report, executed, billed, record, usage>>
    BY <1>5 DEF ReadList
  <2> QED BY <2>1, HonestBefore DEF BooksInv
<1>6. CASE CallModel
  <2>1. /\ pc = "ask" /\ pc' = "ask_read"
        /\ UNCHANGED <<out, report, executed, billed, record, usage>>
    BY <1>6 DEF CallModel
  <2>2. at' = "model" \/ pending'.res = Err("invalid")
    BY <1>6, AnswerShape DEF CallModel, CompleteBegin, CallTooLong
  <2> QED BY <2>1, <2>2, HonestBefore DEF BooksInv, Err
<1>7. ASSUME NEW a \in Answers, ModelAnswers(a) PROVE HistoryInv'
  <2>1. /\ at = "model" /\ at' = "guest" /\ pc = "ask_read"
        /\ pending'.res = Ok(a)
        /\ billed' = billed + a.tokens
        /\ UNCHANGED <<pc, out, report, executed, record, usage>>
    BY <1>7, AnswerShape DEF ModelAnswers, CompleteEnd, ThreadInv
  <2>2. pending'.res.kind = "ok" /\ pending'.res.body = a
    BY <2>1 DEF Ok
  <2>3. billed' = usage' + pending'.res.body.tokens
    BY <2>1, <2>2 DEF BooksInv
  <2> QED BY <2>1, <2>2, <2>3, HonestBefore DEF BooksInv
<1>8. CASE ModelFails
  <2>1. /\ at = "model" /\ pc = "ask_read" /\ pending'.res = Err("upstream")
        /\ UNCHANGED <<pc, out, report, executed, billed, record, usage>>
    BY <1>8, AnswerShape DEF ModelFails, CompleteEnd, ThreadInv
  <2> QED BY <2>1, HonestBefore DEF BooksInv, Err
<1>9. CASE AskFailed
  <2>1. /\ pc = "ask_read" /\ at = "guest" /\ pending.res.kind # "ok"
        /\ Finish("error", step - 1)
        /\ UNCHANGED <<executed, billed, record, usage, turns>>
    BY <1>9, ReadShape DEF AskFailed, Finish
  <2>2. turns \in Nat /\ step \in Nat /\ (turns = step \/ turns = step - 1)
    BY <2>1 DEF CountInv
  <2>3. record' = executed' /\ usage' = billed'
    BY <2>1 DEF BooksInv
  <2>4. OutInv'
    <3>1. step - 1 = turns' \/ (step - 1) + 1 = turns'
      BY <2>1, <2>2
    <3> QED BY <2>1, <2>3, <3>1, FinishHonest
  <2> QED BY <2>1, <2>3, <2>4 DEF BooksInv, Finish
<1>10. CASE Refused \/ Completed
  <2>1. /\ pc = "ask_read" /\ at = "guest" /\ pending.res.kind = "ok"
        /\ usage' = usage + pending.res.body.tokens
        /\ UNCHANGED <<executed, billed, record, turns>>
    BY <1>10, ReadShape DEF Refused, Completed, ReadAnswer, Finish
  <2>2. record' = executed' /\ usage' = billed'
    BY <2>1 DEF BooksInv
  <2>3. turns' = step
    BY <2>1 DEF CountInv
  <2>4. PICK stop : Finish(stop, step)
    BY <1>10 DEF Refused, Completed
  <2>5. OutInv'
    BY <2>1, <2>2, <2>3, <2>4, FinishHonest
  <2> QED BY <2>1, <2>2, <2>4, <2>5 DEF BooksInv, Finish
<1>11. CASE ToolsRequested
  <2>1. /\ pc = "ask_read" /\ pc' = "tool" /\ at = "guest"
        /\ pending.res.kind = "ok"
        /\ usage' = usage + pending.res.body.tokens
        /\ UNCHANGED <<out, report, executed, billed, record>>
    BY <1>11, ReadShape DEF ToolsRequested, ReadAnswer
  <2> QED BY <2>1, HonestBefore DEF BooksInv
<1>12. CASE CallTool
  <2>1. /\ pc = "tool" /\ pc' = "tool_read"
        /\ UNCHANGED <<out, report, billed, record, usage, queue, step>>
    BY <1>12 DEF CallTool
  <2>2. \/ at' = "web" /\ executed' = executed
        \/ executed' = Append(executed, Call(Head(queue), pending'.res.kind = "ok"))
           /\ at' = "guest"
    BY <1>12 DEF CallTool, InvokeTool, CallTooLong, FetchBegin, Executed, Enter
  <2> QED BY <2>1, <2>2, HonestBefore DEF BooksInv, Call
<1>13. CASE WebAnswers
  <2>1. /\ pc = "tool_read" /\ at = "web" /\ at' = "guest"
        /\ executed' = Append(executed, Call(Head(queue), pending'.res.kind = "ok"))
        /\ UNCHANGED <<pc, out, report, billed, record, usage, queue, step>>
    BY <1>13 DEF WebAnswers, FetchEnd, Executed, ThreadInv
  <2> QED BY <2>1, HonestBefore DEF BooksInv, Call
<1>14. CASE ReadTool \/ AskAgain \/ StepLimit
  <2>1. /\ pc = "tool_read" /\ at = "guest" /\ usage' = usage
        /\ UNCHANGED <<executed, billed, turns>>
    BY <1>14, ReadShape
    DEF ReadTool, AskAgain, StepLimit, ToolAnswered, Finish
  <2>2. record' = executed'
    BY <1>14, <2>1
    DEF ReadTool, AskAgain, StepLimit, ToolAnswered, BooksInv
  <2>3. CASE ReadTool \/ AskAgain
    <3>1. pc' \in {"tool", "ask"} /\ UNCHANGED <<out, report>>
      BY <2>3 DEF ReadTool, AskAgain
    <3> QED BY <2>1, <2>2, <3>1, HonestBefore DEF BooksInv
  <2>4. CASE StepLimit
    <3>1. Finish("step_limit", maxSteps) /\ maxSteps = turns'
      BY <2>1, <2>4 DEF StepLimit, CountInv
    <3>2. usage' = billed'
      BY <2>1 DEF BooksInv
    <3>3. OutInv'
      BY <2>1, <2>2, <3>1, <3>2, FinishHonest
    <3> QED BY <2>1, <2>2, <3>1, <3>2, <3>3 DEF BooksInv, Finish
  <2> QED BY <1>14, <2>3, <2>4
<1>15. CASE FreeInput
  <2>1. /\ pc = "free_input" /\ pc' = "free_output"
        /\ UNCHANGED <<out, report, executed, billed, turns, record, usage>>
    BY <1>15 DEF FreeInput
  <2> QED BY <2>1 DEF BooksInv, OutInv, Honest, StepsRight
<1>16. CASE FreeOutput
  <2>1. /\ pc = "free_output" /\ pc' = "reported" /\ report' = out
        /\ UNCHANGED <<out, executed, billed, turns>>
    BY <1>16 DEF FreeOutput
  <2> QED BY <2>1 DEF BooksInv, OutInv, Honest, StepsRight
<1> QED BY <1>1, <1>2, <1>3, <1>4, <1>5, <1>6, <1>7, <1>8, <1>9, <1>10, <1>11,
           <1>12, <1>13, <1>14, <1>15, <1>16
        DEF Next, Progress, Trap, EmptyOutput

LEMMA HistoryInvHolds == Spec => []HistoryInv
PROOF
BY InitHistory, NextHistory, ControlInvHolds, PTL DEF Spec

(***************************************************************************)
(* The guest's report lists every tool call the host answered, in order    *)
(* and with its verdict, however the run went.                             *)
(***************************************************************************)
THEOREM AuditTrailCompleteHolds == Spec => []AuditTrailComplete
PROOF
<1>1. ASSUME HistoryInv PROVE AuditTrailComplete
  BY <1>1 DEF HistoryInv, OutInv, Honest, AuditTrailComplete
<1> QED BY <1>1, HistoryInvHolds, PTL

\* The usage it reports is the sum over all the provider's answers.
THEOREM UsageSummedHolds == Spec => []UsageSummed
PROOF
<1>1. ASSUME HistoryInv PROVE UsageSummed
  BY <1>1 DEF HistoryInv, OutInv, Honest, UsageSummed
<1> QED BY <1>1, HistoryInvHolds, PTL

\* The steps it reports are the requests handed over, but for a failed one.
THEOREM StepsReportedHolds == Spec => []StepsReported
PROOF
<1>1. ASSUME HistoryInv PROVE StepsReported
  BY <1>1 DEF HistoryInv, OutInv, Honest, StepsRight, StepsReported
<1> QED BY <1>1, HistoryInvHolds, PTL

-----------------------------------------------------------------------------
\* A response carries the ticket and the length it was given.
LEMMA RespondShape ==
  ASSUME NEW ticket, NEW res, Respond(ticket, res)
  PROVE  pending'.ticket = ticket /\ ret' = pending'.len
PROOF
BY DEF Respond

\* The steps after which an answer waits to be read.
LEMMA NextReadsOwn ==
  ASSUME AgentReadsOwnAnswer, [Next]_vars
  PROVE  AgentReadsOwnAnswer'
PROOF
<1>1. CASE UNCHANGED vars
  BY <1>1 DEF AgentReadsOwnAnswer
<1>2. CASE \/ Boot \/ BootFails \/ AllocInput \/ Trap \/ ReadList \/ AskFailed
           \/ Refused \/ Completed \/ ToolsRequested \/ ReadTool \/ AskAgain
           \/ StepLimit \/ FreeInput \/ EmptyOutput \/ FreeOutput
  BY <1>2 DEF Boot, BootFails, AllocInput, Trap, HostReport, ReadList,
              AskFailed, Refused, Completed, ToolsRequested, ReadTool, AskAgain,
              StepLimit, Finish, FreeInput, EmptyOutput, FreeOutput,
              AgentReadsOwnAnswer
<1>3. ASSUME NEW len \in RequestLens, NEW long, CallTooLong(len, long)
      PROVE AgentReadsOwnAnswer'
  BY <1>3, RespondShape DEF CallTooLong, Enter, AgentReadsOwnAnswer
<1>4. CASE CallList
  <2>1. CASE ListTools(ListLen)
    BY <2>1, RespondShape DEF ListTools, Enter, AgentReadsOwnAnswer
  <2>2. CASE CallTooLong(ListLen, FALSE)
    BY <1>3, <2>2, AgentAssumption
  <2> QED BY <1>4, <2>1, <2>2 DEF CallList
<1>5. CASE CallModel
  <2>1. PICK len \in RequestLens : CompleteBegin(len) \/ CallTooLong(len, FALSE)
    BY <1>5 DEF CallModel
  <2>2. CASE CompleteBegin(len)
    BY <2>2 DEF CompleteBegin, AgentReadsOwnAnswer
  <2> QED BY <1>3, <2>1, <2>2
<1>6. ASSUME NEW res, CompleteEnd(res) PROVE AgentReadsOwnAnswer'
  BY <1>6, RespondShape DEF CompleteEnd, AgentReadsOwnAnswer
<1>7. CASE (\E a \in Answers : ModelAnswers(a)) \/ ModelFails
  BY <1>6, <1>7 DEF ModelAnswers, ModelFails
<1>8. CASE CallTool
  <2>1. PICK len \in RequestLens :
          \/ InvokeTool(Head(queue).name, Head(queue).in, len)
          \/ CallTooLong(len, FALSE)
          \/ FetchBegin(Head(queue).name, Head(queue).in, len)
    BY <1>8 DEF CallTool
  <2>2. CASE InvokeTool(Head(queue).name, Head(queue).in, len)
    BY <2>2, RespondShape DEF InvokeTool, Enter, AgentReadsOwnAnswer
  <2>3. CASE FetchBegin(Head(queue).name, Head(queue).in, len)
    BY <2>3 DEF FetchBegin, AgentReadsOwnAnswer
  <2> QED BY <1>3, <2>1, <2>2, <2>3
<1>9. CASE WebAnswers
  BY <1>9, RespondShape DEF WebAnswers, FetchEnd, AgentReadsOwnAnswer
<1> QED BY <1>1, <1>2, <1>4, <1>5, <1>7, <1>8, <1>9 DEF Next, Progress

(***************************************************************************)
(* What the agent reads is the answer to the call it just made, in full,   *)
(* whatever the calls before it were and however they came back.           *)
(***************************************************************************)
THEOREM AgentReadsOwnAnswerHolds == Spec => []AgentReadsOwnAnswer
PROOF
<1>1. ASSUME Init PROVE AgentReadsOwnAnswer
  BY <1>1 DEF Init, AgentReadsOwnAnswer
<1> QED BY <1>1, NextReadsOwn, PTL DEF Spec

-----------------------------------------------------------------------------
(***************************************************************************)
(* The contract.  What ContractInv adds to ControlInv: nothing is owed     *)
(* outside a turn's tool calls, there is no report before the end, and an  *)
(* output that waits to be read fits its stop reason.                      *)
(***************************************************************************)
Reasons == {"completed", "refusal", "step_limit", "error"}

OutputFits ==
  /\ out.stop \in Reasons
  /\ out.stop # "error" => turns > 0
  /\ out.stop = "step_limit" => turns = maxSteps

ContractInv ==
  /\ pc \notin {"tool", "tool_read", "reported"} => queue = <<>>
  /\ pc # "reported" => report = NoReport
  /\ pc = "free_input" => out = NoReport \/ OutputFits
  /\ pc = "free_output" => OutputFits

\* What run_agent returns fits if its stop reason does.
LEMMA FinishFits ==
  ASSUME NEW stop \in Reasons, NEW steps, Finish(stop, steps),
         stop # "error" => turns' > 0,
         stop = "step_limit" => turns' = maxSteps'
  PROVE  out' = NoReport \/ OutputFits'
PROOF
BY DEF Finish, OutputFits

\* Every step of a run keeps ContractInv.
LEMMA NextContractInv ==
  ASSUME ControlInv, ContractInv, [Next]_vars
  PROVE  ContractInv'
PROOF
<1> USE DEF ControlInv
<1>1. CASE UNCHANGED vars
  BY <1>1 DEF ContractInv, OutputFits
<1>2. CASE Boot \/ BootFails \/ AllocInput \/ HostReport
  BY <1>2 DEF Boot, BootFails, AllocInput, HostReport, ContractInv
<1>3. CASE CallList \/ ReadList \/ CallModel \/ ToolsRequested \/ CallTool
  BY <1>3 DEF CallList, ReadList, CallModel, ToolsRequested, ReadAnswer,
              CallTool, ContractInv
<1>4. CASE (\E a \in Answers : ModelAnswers(a)) \/ ModelFails \/ WebAnswers
  <2>1. /\ pc \in {"ask_read", "tool_read"}
        /\ UNCHANGED <<pc, queue, report>>
    BY <1>4 DEF ModelAnswers, ModelFails, CompleteEnd, WebAnswers, FetchEnd,
                ThreadInv
  <2> QED BY <2>1 DEF ContractInv
<1>5. CASE AskFailed
  <2>1. Finish("error", step - 1) /\ pc = "ask_read" /\ queue' = queue
    BY <1>5 DEF AskFailed
  <2>2. out' = NoReport \/ OutputFits'
    BY <2>1, FinishFits DEF Reasons
  <2> QED BY <2>1, <2>2 DEF ContractInv, Finish
<1>6. CASE Refused \/ Completed
  <2>1. /\ pc = "ask_read" /\ at = "guest" /\ pending.res.kind = "ok"
        /\ turns' = turns /\ queue' = queue
    BY <1>6, ReadShape DEF Refused, Completed, ReadAnswer
  <2>2. PICK stop \in {"refusal", "completed"} : Finish(stop, step)
    BY <1>6 DEF Refused, Completed
  <2>3. turns' > 0
    BY <2>1 DEF CountInv
  <2>4. out' = NoReport \/ OutputFits'
    BY <2>2, <2>3, FinishFits DEF Reasons
  <2> QED BY <2>1, <2>2, <2>4 DEF ContractInv, Finish
<1>7. CASE ReadTool \/ AskAgain
  BY <1>7 DEF ReadTool, AskAgain, ToolAnswered, ContractInv
<1>8. CASE StepLimit
  <2>1. /\ pc = "tool_read" /\ Finish("step_limit", maxSteps)
        /\ queue' = <<>> /\ step >= maxSteps
        /\ UNCHANGED <<turns, maxSteps>>
    BY <1>8, ReadShape DEF StepLimit, ToolAnswered
  <2>2. turns' > 0 /\ turns' = maxSteps'
    BY <2>1 DEF CountInv
  <2>3. out' = NoReport \/ OutputFits'
    BY <2>1, <2>2, FinishFits DEF Reasons
  <2> QED BY <2>1, <2>3 DEF ContractInv, Finish
<1>9. CASE FreeInput \/ FreeOutput
  BY <1>9 DEF FreeInput, FreeOutput, ContractInv, OutputFits
<1> QED BY <1>1, <1>2, <1>3, <1>4, <1>5, <1>6, <1>7, <1>8, <1>9
        DEF Next, Progress, Trap, EmptyOutput

LEMMA ContractInvHolds == Spec => []ContractInv
PROOF
<1>1. ASSUME Init PROVE ContractInv
  BY <1>1 DEF Init, ContractInv
<1> QED BY <1>1, NextContractInv, ControlInvHolds, PTL DEF Spec

\* The initial states of a run are initial states of the contract.
LEMMA InitContract ==
  ASSUME Init, ControlInv
  PROVE  Contract!ContractInit
PROOF
BY DEF Init, HostInit, NoReport, ControlInv, CountInv, Contract!ContractInit

\* Every step of a run is a step of the contract, or changes none of it.
LEMMA StepKeepsContract ==
  ASSUME ControlInv, ControlInv', ContractInv, ContractInv', [Next]_vars
  PROVE  [Contract!ContractNext]_Contract!contractVars
PROOF
<1> USE DEF ControlInv
<1>1. CASE UNCHANGED vars
  BY <1>1 DEF Contract!contractVars
<1>2. CASE Boot \/ AllocInput \/ CallList \/ FreeInput
  <2>1. /\ pc # "ask_read" /\ pc' # "ask_read" /\ pc # "failed" /\ pc' # "failed"
        /\ UNCHANGED <<maxSteps, turns, queue, report>>
    BY <1>2 DEF Boot, AllocInput, CallList, ListTools, CallTooLong, FreeInput
  <2> QED BY <2>1 DEF Contract!contractVars
<1>3. CASE ReadList
  <2>1. /\ pc = "list_read" /\ pc' = "ask"
        /\ UNCHANGED <<maxSteps, turns, queue, report>>
    BY <1>3, ReadShape DEF ReadList
  <2> QED BY <2>1 DEF Contract!contractVars
\* A run that ends with an error: the host's report, or none at all.
<1>4. CASE BootFails
  <2>1. /\ pc = "boot" /\ pc' = "failed"
        /\ UNCHANGED <<maxSteps, turns, queue, report>>
    BY <1>4 DEF BootFails
  <2>2. Contract!Stop("error")
    BY <2>1 DEF Contract!Stop, ContractInv, NoReport
  <2> QED BY <2>2 DEF Contract!ContractNext
<1>5. CASE Trap \/ EmptyOutput
  <2>1. /\ pc \notin {"reported", "failed"}
        /\ pc' = "reported" /\ report'.stop = "error"
        /\ UNCHANGED <<maxSteps, turns, queue>>
    BY <1>5 DEF Trap, EmptyOutput, HostReport
  <2>2. Contract!Stop("error")
    BY <2>1 DEF Contract!Stop, ContractInv, NoReport
  <2> QED BY <2>2 DEF Contract!ContractNext
\* The model is asked, if the request goes out at all.
<1>6. CASE CallModel
  <2>1. /\ pc = "ask" /\ pc' = "ask_read" /\ queue = <<>>
        /\ report = NoReport
        /\ UNCHANGED <<maxSteps, step, queue, report>>
    BY <1>6 DEF CallModel, ContractInv
  <2>2. turns = step - 1 /\ step \in 1..maxSteps /\ maxSteps \in Nat /\ turns \in Nat
    BY <2>1 DEF CountInv
  <2>3. turns' = turns + 1 \/ turns' = turns
    BY <1>6 DEF CallModel, CompleteBegin, CallTooLong
  <2>4. CASE turns' = turns + 1
    <3>1. Contract!Ask
      <4>1. (pc' = "ask_read" /\ turns' = step') = TRUE
        BY <2>1, <2>2, <2>4
      <4> QED BY <2>1, <2>2, <2>4, <4>1 DEF Contract!Ask, NoReport
    <3> QED BY <3>1 DEF Contract!ContractNext
  <2>5. CASE turns' = turns
    <3>1. (pc' = "ask_read" /\ turns' = step') = FALSE
      BY <2>1, <2>2, <2>5
    <3>2. (pc = "ask_read" /\ turns = step) = FALSE
      BY <2>1
    <3> QED BY <2>1, <2>5, <3>1, <3>2 DEF Contract!contractVars
  <2> QED BY <2>3, <2>4, <2>5
<1>7. CASE (\E a \in Answers : ModelAnswers(a)) \/ ModelFails \/ WebAnswers
  <2>1. /\ pc' = pc
        /\ UNCHANGED <<maxSteps, step, turns, queue, report>>
    BY <1>7 DEF ModelAnswers, ModelFails, CompleteEnd, WebAnswers, FetchEnd
  <2> QED BY <2>1 DEF Contract!contractVars
<1>8. CASE CallTool
  <2>1. /\ pc = "tool" /\ pc' = "tool_read"
        /\ UNCHANGED <<maxSteps, turns, queue, report>>
    BY <1>8 DEF CallTool, InvokeTool, CallTooLong, FetchBegin
  <2> QED BY <2>1 DEF Contract!contractVars
\* A turn that was handed over is answered; one that was not leaves no trace.
<1>9. CASE AskFailed \/ Refused \/ Completed \/ ToolsRequested
  <2>1. /\ pc = "ask_read" /\ pc' \in {"free_input", "tool"}
        /\ UNCHANGED <<maxSteps, step, turns, report>>
        /\ report = NoReport /\ queue = <<>>
    BY <1>9, ReadShape
    DEF AskFailed, Refused, Completed, ToolsRequested, ReadAnswer, Finish,
        ContractInv
  <2>2. queue' \in Seq(Use)
    BY DEF QueueInv
  <2>3. CASE turns = step
    <3>1. Contract!Answer
      <4>1. Len(queue') \in Nat
        BY <2>2
      <4> QED BY <2>1, <2>3, <4>1 DEF Contract!Answer, NoReport
    <3> QED BY <3>1 DEF Contract!ContractNext
  <2>4. CASE turns # step
    <3>1. AskFailed
      BY <1>9, <2>1, <2>4 DEF Refused, Completed, ToolsRequested, ReadAnswer,
                              CountInv, Read
    <3>2. queue' = queue
      BY <3>1 DEF AskFailed
    <3> QED BY <2>1, <2>4, <3>2 DEF Contract!contractVars
  <2> QED BY <2>3, <2>4
<1>10. CASE ReadTool \/ AskAgain \/ StepLimit
  <2>1. /\ pc = "tool_read" /\ pc' \in {"tool", "ask", "free_input"}
        /\ queue' = Tail(queue)
        /\ UNCHANGED <<maxSteps, turns, report>>
        /\ report = NoReport
    BY <1>10, ReadShape
    DEF ReadTool, AskAgain, StepLimit, ToolAnswered, Finish, ContractInv
  <2>2. /\ Len(queue) \in Nat /\ Len(queue) > 0
        /\ Len(Tail(queue)) = Len(queue) - 1
    BY <2>1 DEF QueueInv
  <2>3. Contract!CallTool
    BY <2>1, <2>2 DEF Contract!CallTool, NoReport
  <2> QED BY <2>3 DEF Contract!ContractNext
\* The report is made.
<1>11. CASE FreeOutput
  <2>1. /\ pc = "free_output" /\ pc' = "reported" /\ report' = out
        /\ report = NoReport /\ queue = <<>> /\ OutputFits
        /\ UNCHANGED <<maxSteps, turns, queue>>
    BY <1>11 DEF FreeOutput, ContractInv
  <2>2. Contract!Stop(out.stop)
    BY <2>1 DEF Contract!Stop, OutputFits, NoReport
  <2> QED BY <2>1, <2>2 DEF Contract!ContractNext, OutputFits, Reasons
<1> QED BY <1>1, <1>2, <1>3, <1>4, <1>5, <1>6, <1>7, <1>8, <1>9, <1>10, <1>11
        DEF Next, Progress

(***************************************************************************)
(* A run keeps the contract of RunContract: turns and tool calls           *)
(* alternate, no turn beyond the ceiling, and one end whose reason fits.   *)
(***************************************************************************)
THEOREM KeepsContractHolds == Spec => KeepsContract
PROOF
BY InitControl, InitContract, StepKeepsContract, ControlInvHolds,
   ContractInvHolds, PTL
DEF Spec, KeepsContract, Contract!ContractSpec

-----------------------------------------------------------------------------
(***************************************************************************)
(* Types, and the conversation.                                            *)
(***************************************************************************)
ToolResultBlock == [id : Ids, ok : BOOLEAN]

\* What the loop adds to its sequences is of their types.
LEMMA TurnShape ==
  ASSUME NEW uses \in Seq(Use)
  PROVE  AssistantTurn(uses) \in Message
PROOF
<1>1. [i \in DOMAIN uses |-> uses[i].id] \in Seq(Ids)
  <2>1. \A i \in 1..Len(uses) : uses[i].id \in Ids
    <3>1. \A i \in 1..Len(uses) : uses[i] \in Use
      OBVIOUS
    <3> QED BY <3>1 DEF Use
  <2>2. DOMAIN uses = 1..Len(uses) /\ Len(uses) \in Nat
    OBVIOUS
  <2>3. [i \in 1..Len(uses) |-> uses[i].id] \in [1..Len(uses) -> Ids]
    BY <2>1
  <2>4. [1..Len(uses) -> Ids] \subseteq Seq(Ids)
    BY <2>2
  <2> QED BY <2>2, <2>3, <2>4
<1> QED BY <1>1 DEF AssistantTurn, Message

LEMMA ResultsShape ==
  ASSUME NEW rs \in Seq(ToolResultBlock)
  PROVE  ToolResults(rs) \in Message
PROOF
BY DEF ToolResults, Message, ToolResultBlock

LEMMA CallShape ==
  ASSUME NEW use \in Use, NEW ok \in BOOLEAN, step \in Nat
  PROVE  Call(use, ok) \in CallRecord
PROOF
BY DEF Call, CallRecord, Use

LEMMA AppendShape ==
  ASSUME NEW S, NEW s \in Seq(S), NEW e \in S
  PROVE  Append(s, e) \in Seq(S)
PROOF
OBVIOUS

LEMMA ExecutedShape ==
  ASSUME Executed, queue \in Seq(Use), queue # <<>>, step \in Nat,
         executed \in Seq(CallRecord)
  PROVE  executed' \in Seq(CallRecord)
PROOF
<1>1. PICK ok \in BOOLEAN : executed' = Append(executed, Call(Head(queue), ok))
  <2>1. CASE pending'.res.kind = "ok"
    <3>1. (pending'.res.kind = "ok") = TRUE
      BY <2>1
    <3> QED BY <3>1 DEF Executed
  <2>2. CASE pending'.res.kind # "ok"
    <3>1. (pending'.res.kind = "ok") = FALSE
      BY <2>2
    <3> QED BY <3>1 DEF Executed
  <2> QED BY <2>1, <2>2
<1>2. Call(Head(queue), ok) \in CallRecord
  BY QueueShape, CallShape
<1> QED BY <1>1, <1>2, AppendShape

LEMMA FinishShape ==
  ASSUME NEW stop \in Reasons, NEW steps \in Nat, Finish(stop, steps),
         record' \in Seq(CallRecord), usage' \in Nat
  PROVE  /\ out' \in Output
         /\ pc' = "free_input"
         /\ UNCHANGED <<report, executed, billed>>
PROOF
<1>1. NoReport \in Output
  <2>1. <<>> \in Seq(CallRecord)
    OBVIOUS
  <2> QED BY <2>1 DEF NoReport, Output
<1>2. [by |-> "guest", stop |-> stop, steps |-> steps, calls |-> record',
       usage |-> usage'] \in Output
  BY DEF Output, Reasons
<1> QED BY <1>1, <1>2 DEF Finish

Places == {"boot", "alloc", "list", "list_read", "ask", "ask_read", "tool",
           "tool_read", "free_input", "free_output", "reported", "failed"}

\* The parts of AgentTypeOK that ControlInv does not have.
DataInv ==
  /\ pc \in Places
  /\ messages \in Seq(Message)
  /\ results \in Seq(ToolResultBlock)
  /\ record \in Seq(CallRecord) /\ executed \in Seq(CallRecord)
  /\ usage \in Nat /\ billed \in Nat
  /\ out \in Output /\ report \in Output

LEMMA InitData ==
  ASSUME Init
  PROVE  DataInv
PROOF
<1>1. NoReport \in Output
  <2>1. <<>> \in Seq(CallRecord)
    OBVIOUS
  <2> QED BY <2>1 DEF NoReport, Output
<1> QED BY <1>1 DEF Init, DataInv, Places

LEMMA NextData ==
  ASSUME ControlInv, DataInv, [Next]_vars
  PROVE  DataInv'
PROOF
<1> USE DEF ControlInv
<1>1. CASE UNCHANGED vars
  BY <1>1 DEF DataInv, Places
<1>2. CASE Boot \/ BootFails \/ AllocInput \/ CallList \/ CallModel \/ FreeInput
           \/ FreeOutput
  BY <1>2 DEF Boot, BootFails, AllocInput, CallList, CallModel, FreeInput,
              FreeOutput, DataInv, Places
<1>3. CASE HostReport
  <2>1. report' \in Output
    <3>1. <<>> \in Seq(CallRecord)
      OBVIOUS
    <3> QED BY <1>3, <3>1 DEF HostReport, Output
  <2> QED BY <1>3, <2>1 DEF HostReport, DataInv, Places
<1>4. CASE ReadList
  <2>1. UserText \in Message
    <3>1. <<>> \in Seq(Ids) /\ <<>> \in Seq([id : Ids, ok : BOOLEAN])
      OBVIOUS
    <3> QED BY <3>1 DEF UserText, Message
  <2>2. <<UserText>> \in Seq(Message) /\ <<UserText, UserText>> \in Seq(Message)
    BY <2>1
  <2> QED BY <1>4, <2>2 DEF ReadList, DataInv, Places
<1>5. ASSUME NEW a \in Answers, ModelAnswers(a) PROVE DataInv'
  <2>1. a.tokens \in Nat
    BY AgentAssumption DEF Answer
  <2> QED BY <1>5, <2>1 DEF ModelAnswers, DataInv, Places
<1>6. CASE ModelFails
  BY <1>6 DEF ModelFails, DataInv, Places
<1>7. CASE AskFailed
  <2>1. step - 1 \in Nat
    BY <1>7 DEF AskFailed, CountInv
  <2>2. Finish("error", step - 1)
        /\ UNCHANGED <<messages, results, record, usage>>
    BY <1>7 DEF AskFailed
  <2> QED BY <2>1, <2>2, FinishShape DEF DataInv, Places, Reasons
<1>8. ASSUME ReadAnswer
      PROVE  /\ pending.res.body.uses \in Seq(Use)
             /\ usage' \in Nat
  <2>1. pending.res.body \in Answer
    BY <1>8, AgentAssumption DEF ReadAnswer, Read, QueueInv
  <2>2. pending.res.body.tokens \in Nat /\ pending.res.body.uses \in Seq(Use)
    BY <2>1 DEF Answer
  <2> QED BY <1>8, <2>2 DEF ReadAnswer, DataInv
<1>9. CASE Refused \/ Completed
  <2>1. ReadAnswer /\ UNCHANGED <<record, results>>
    BY <1>9 DEF Refused, Completed
  <2>2. PICK stop \in Reasons : Finish(stop, step)
    BY <1>9 DEF Refused, Completed, Reasons
  <2>3. messages' \in Seq(Message)
    <3>1. AssistantTurn(<<>>) \in Message
      <4>1. <<>> \in Seq(Use)
        OBVIOUS
      <4> QED BY <4>1, TurnShape
    <3> QED BY <1>9, <3>1, AppendShape DEF Refused, Completed, DataInv
  <2>4. step \in Nat
    BY DEF CountInv
  <2> QED BY <1>8, <2>1, <2>2, <2>3, <2>4, FinishShape DEF DataInv, Places
<1>10. CASE ToolsRequested
  <2>1. ReadAnswer
    BY <1>10 DEF ToolsRequested
  <2>2. messages' \in Seq(Message)
    BY <1>8, <1>10, <2>1, TurnShape, AppendShape DEF ToolsRequested, DataInv
  <2> QED BY <1>8, <1>10, <2>1, <2>2 DEF ToolsRequested, DataInv, Places
<1>11. ASSUME pc \in {"tool", "tool_read"}, Executed
       PROVE  executed' \in Seq(CallRecord)
  <2>1. queue \in Seq(Use) /\ queue # <<>> /\ step \in Nat
    BY <1>11 DEF QueueInv, CountInv
  <2> QED BY <1>11, <2>1, ExecutedShape DEF DataInv
<1>12. CASE CallTool
  <2>1. executed' \in Seq(CallRecord)
    BY <1>11, <1>12 DEF CallTool, DataInv
  <2> QED BY <1>12, <2>1 DEF CallTool, DataInv, Places
<1>13. CASE WebAnswers
  <2>1. pc = "tool_read"
    BY <1>13 DEF WebAnswers, FetchEnd, ThreadInv
  <2>2. executed' \in Seq(CallRecord)
    BY <1>11, <1>13, <2>1 DEF WebAnswers
  <2> QED BY <1>13, <2>2 DEF WebAnswers, DataInv, Places
<1>14. ASSUME NEW ok \in BOOLEAN, ToolAnswered(ok)
       PROVE  /\ record' \in Seq(CallRecord)
              /\ results' \in Seq(ToolResultBlock)
              /\ usage' \in Nat
  <2>1. Head(queue) \in Use /\ step \in Nat
    BY <1>14, QueueShape DEF ToolAnswered, QueueInv, CountInv
  <2>2. Call(Head(queue), ok) \in CallRecord
    BY <2>1, CallShape
  <2>3. [id |-> Head(queue).id, ok |-> ok] \in ToolResultBlock
    BY <2>1 DEF ToolResultBlock, Use
  <2> QED BY <1>14, <2>2, <2>3, AppendShape DEF ToolAnswered, DataInv
<1>15. CASE ReadTool \/ AskAgain \/ StepLimit
  <2>1. /\ record' \in Seq(CallRecord)
        /\ results' \in Seq(ToolResultBlock)
        /\ usage' \in Nat
    BY <1>14, <1>15 DEF ReadTool, AskAgain, StepLimit
  <2>2. CASE ReadTool
    BY <2>1, <2>2 DEF ReadTool, DataInv, Places
  <2>3. CASE AskAgain \/ StepLimit
    <3>1. messages' \in Seq(Message)
      BY <2>1, <2>3, ResultsShape, AppendShape DEF AskAgain, StepLimit, DataInv
    <3>2. CASE AskAgain
      BY <2>1, <3>1, <3>2 DEF AskAgain, DataInv, Places
    <3>3. CASE StepLimit
      <4>1. maxSteps \in Nat
        BY DEF CountInv
      <4>2. Finish("step_limit", maxSteps)
        BY <3>3 DEF StepLimit
      <4> QED BY <2>1, <3>1, <4>1, <4>2, FinishShape DEF DataInv, Places, Reasons
    <3> QED BY <2>3, <3>2, <3>3
  <2> QED BY <1>15, <2>2, <2>3
<1> QED BY <1>1, <1>2, <1>3, <1>4, <1>5, <1>6, <1>7, <1>9, <1>10, <1>12, <1>13,
           <1>15
        DEF Next, Progress, Trap, EmptyOutput

LEMMA DataInvHolds == Spec => []DataInv
PROOF
BY InitData, NextData, ControlInvHolds, PTL DEF Spec

\* The agent's state, its conversation and its books stay in their types.
THEOREM AgentTypeCorrect == Spec => []AgentTypeOK
PROOF
<1>1. ASSUME ControlInv, DataInv PROVE AgentTypeOK
  BY <1>1 DEF ControlInv, QueueInv, CountInv, DataInv, Places, ToolResultBlock,
              AgentTypeOK
<1> QED BY <1>1, ControlInvHolds, DataInvHolds, PTL

-----------------------------------------------------------------------------
(***************************************************************************)
(* The shape of the conversation.  While a turn's tools are being called,  *)
(* the last message is the assistant's, and the results so far and the     *)
(* uses still queued make up, in this order, the uses it asked for.        *)
(***************************************************************************)
AllAnswered(ms, n) == \A i \in 1..n : AnsweredIn(ms, i)

Halfway(uses, rs, todo) ==
  /\ Len(uses) = Len(rs) + Len(todo)
  /\ \A j \in 1..Len(rs) : uses[j] = rs[j].id
  /\ \A j \in 1..Len(todo) : uses[Len(rs) + j] = todo[j].id

ConvInv ==
  /\ pc \in {"ask", "ask_read"} => AllAnswered(messages, Len(messages))
  /\ pc \in {"tool", "tool_read"} =>
       /\ Len(messages) > 0
       /\ messages[Len(messages)].role = "assistant"
       /\ AllAnswered(messages, Len(messages) - 1)
       /\ Halfway(messages[Len(messages)].uses, results, queue)

\* What has been answered stays so when a message is added.
LEMMA AppendKeepsAnswers ==
  ASSUME NEW ms \in Seq(Message), NEW msg \in Message, NEW n \in Nat,
         n <= Len(ms), AllAnswered(ms, n)
  PROVE  AllAnswered(Append(ms, msg), n)
PROOF
<1>1. /\ Len(Append(ms, msg)) = Len(ms) + 1
      /\ DOMAIN Append(ms, msg) = 1..(Len(ms) + 1)
      /\ DOMAIN ms = 1..Len(ms) /\ Len(ms) \in Nat
      /\ \A i \in 1..Len(ms) : Append(ms, msg)[i] = ms[i]
  OBVIOUS
<1>2. ASSUME NEW i \in 1..n PROVE AnsweredIn(Append(ms, msg), i)
  <2>1. AnsweredIn(ms, i) /\ i \in 1..Len(ms)
    BY <1>1 DEF AllAnswered
  <2>2. Append(ms, msg)[i] = ms[i]
    BY <1>1, <2>1
  <2>3. CASE ms[i].role # "assistant"
    BY <2>2, <2>3 DEF AnsweredIn
  <2>4. CASE ms[i].role = "assistant"
    <3>1. i + 1 \in 1..Len(ms)
      BY <1>1, <2>1, <2>4 DEF AnsweredIn
    <3>2. Append(ms, msg)[i + 1] = ms[i + 1] /\ i + 1 \in DOMAIN Append(ms, msg)
      BY <1>1, <3>1
    <3> QED BY <2>1, <2>2, <3>1, <3>2 DEF AnsweredIn
  <2> QED BY <2>3, <2>4
<1> QED BY <1>2 DEF AllAnswered

\* Only an assistant's message wants an answer.
LEMMA UserNeedsNone ==
  ASSUME NEW ms \in Seq(Message), NEW rs \in Seq(ToolResultBlock), NEW n \in Nat,
         n = Len(ms), AllAnswered(Append(ms, ToolResults(rs)), n)
  PROVE  AllAnswered(Append(ms, ToolResults(rs)), n + 1)
PROOF
<1>1. Append(ms, ToolResults(rs))[n + 1] = ToolResults(rs)
  BY ResultsShape
<1>2. AnsweredIn(Append(ms, ToolResults(rs)), n + 1)
  BY <1>1 DEF AnsweredIn, ToolResults
<1>3. \A i \in 1..(n + 1) : i \in 1..n \/ i = n + 1
  OBVIOUS
<1> QED BY <1>2, <1>3 DEF AllAnswered

\* One more result, one less use in the queue: still half way.
LEMMA StillHalfway ==
  ASSUME NEW uses, Halfway(uses, results, queue), queue \in Seq(Use), queue # <<>>,
         results \in Seq(ToolResultBlock), NEW ok \in BOOLEAN,
         results' = Append(results, [id |-> Head(queue).id, ok |-> ok]),
         queue' = Tail(queue)
  PROVE  Halfway(uses, results', queue')
PROOF
<1> DEFINE r == [id |-> Head(queue).id, ok |-> ok]
<1>1. /\ Len(results) \in Nat /\ Len(queue) \in Nat \ {0}
      /\ Len(queue') = Len(queue) - 1
      /\ \A j \in 1..Len(queue') : queue'[j] = queue[j + 1]
      /\ Head(queue) = queue[1]
  OBVIOUS
<1>2. r \in ToolResultBlock
  BY QueueShape DEF ToolResultBlock, Use
<1>3. /\ Len(results') = Len(results) + 1
      /\ results'[Len(results) + 1] = r
      /\ \A j \in 1..Len(results) : results'[j] = results[j]
  BY <1>2
<1>4. Len(uses) = Len(results') + Len(queue')
  BY <1>1, <1>3 DEF Halfway
<1>5. ASSUME NEW j \in 1..Len(results') PROVE uses[j] = results'[j].id
  <2>1. CASE j \in 1..Len(results)
    BY <1>3, <2>1 DEF Halfway
  <2>2. CASE j = Len(results) + 1
    <3>1. 1 \in 1..Len(queue)
      BY <1>1
    <3>2. uses[Len(results) + 1] = queue[1].id
      BY <3>1 DEF Halfway
    <3>3. results'[j].id = queue[1].id
      BY <1>1, <1>3, <2>2
    <3> QED BY <2>2, <3>2, <3>3
  <2>3. j \in 1..Len(results) \/ j = Len(results) + 1
    BY <1>1, <1>3
  <2> QED BY <2>1, <2>2, <2>3
<1>6. ASSUME NEW j \in 1..Len(queue')
      PROVE  uses[Len(results') + j] = queue'[j].id
  <2>1. uses[Len(results) + (j + 1)] = queue[j + 1].id
    BY <1>1 DEF Halfway
  <2>2. Len(results) + (j + 1) = Len(results') + j
    BY <1>1, <1>3
  <2> QED BY <1>1, <2>1, <2>2
<1> QED BY <1>4, <1>5, <1>6 DEF Halfway

\* A sequence is known by its elements.
LEMMA SameIds ==
  ASSUME NEW u \in Seq(Ids), NEW rs \in Seq(ToolResultBlock),
         Len(u) = Len(rs), \A j \in 1..Len(rs) : u[j] = rs[j].id
  PROVE  u = [j \in DOMAIN rs |-> rs[j].id]
PROOF
<1>1. /\ u \in [1..Len(u) -> Ids]
      /\ DOMAIN rs = 1..Len(rs)
  OBVIOUS
<1>2. u = [j \in 1..Len(u) |-> u[j]]
  BY <1>1
<1> QED BY <1>1, <1>2

\* A turn whose queue is empty is answered by its results.
LEMMA TurnAnswered ==
  ASSUME NEW ms \in Seq(Message), NEW n \in Nat, n = Len(ms), n > 0,
         NEW rs \in Seq(ToolResultBlock),
         Len(ms[n].uses) = Len(rs),
         \A j \in 1..Len(rs) : ms[n].uses[j] = rs[j].id
  PROVE  AnsweredIn(Append(ms, ToolResults(rs)), n)
PROOF
<1> DEFINE msg == ToolResults(rs)
           after == Append(ms, msg)
<1>1. msg \in Message
  BY ResultsShape
<1> HIDE DEF msg
<1>2. /\ n + 1 \in DOMAIN after
      /\ after[n] = ms[n] /\ after[n + 1] = msg
  BY <1>1
<1>3. ms[n].uses \in Seq(Ids)
  <2>1. ms[n] \in Message
    OBVIOUS
  <2> QED BY <2>1 DEF Message
<1>4. ms[n].uses = [j \in DOMAIN rs |-> rs[j].id]
  BY <1>3, SameIds
<1>5. msg.role = "user" /\ msg.results = rs
  BY DEF msg, ToolResults
<1> HIDE DEF after
<1>6. AnsweredIn(after, n)
  BY <1>2, <1>4, <1>5 DEF AnsweredIn
<1> QED BY <1>6 DEF after, msg

\* Every step of a run keeps ConvInv.
LEMMA NextConv ==
  ASSUME ControlInv, DataInv, DataInv', ConvInv, [Next]_vars
  PROVE  ConvInv'
PROOF
<1> USE DEF ControlInv
<1>1. CASE pc' \notin {"ask", "ask_read", "tool", "tool_read"}
  BY <1>1 DEF ConvInv
<1>2. CASE Boot \/ BootFails \/ AllocInput \/ CallList \/ Trap \/ AskFailed
           \/ Refused \/ Completed \/ StepLimit \/ FreeInput \/ EmptyOutput
           \/ FreeOutput
  BY <1>1, <1>2 DEF Boot, BootFails, AllocInput, CallList, Trap, HostReport,
                    AskFailed, Refused, Completed, StepLimit, Finish, FreeInput,
                    EmptyOutput, FreeOutput
<1>3. CASE ReadList
  <2>1. /\ pc' = "ask"
        /\ \/ messages' = <<UserText>>
           \/ messages' = <<UserText, UserText>>
    BY <1>3 DEF ReadList
  <2>2. \A i \in 1..Len(messages') : messages'[i].role = "user"
    BY <2>1 DEF UserText
  <2> QED BY <2>1, <2>2 DEF ConvInv, AllAnswered, AnsweredIn
<1>4. CASE \/ UNCHANGED vars \/ CallModel \/ CallTool \/ WebAnswers
           \/ (\E a \in Answers : ModelAnswers(a)) \/ ModelFails
  <2>1. /\ UNCHANGED <<messages, queue, results>>
        /\ pc \in {"ask", "ask_read"} <=> pc' \in {"ask", "ask_read"}
        /\ pc \in {"tool", "tool_read"} <=> pc' \in {"tool", "tool_read"}
    BY <1>4 DEF CallModel, ModelAnswers, ModelFails, CallTool, WebAnswers
  <2> QED BY <2>1 DEF ConvInv
<1>5. CASE ToolsRequested
  <2> DEFINE uses == pending.res.body.uses
             turn == AssistantTurn(uses)
             n == Len(messages)
  <2>1. /\ pc = "ask_read" /\ pc' = "tool" /\ queue' = uses /\ results' = <<>>
        /\ messages' = Append(messages, turn)
        /\ pending.res.kind = "ok" /\ at = "guest"
    BY <1>5 DEF ToolsRequested, ReadAnswer, Read
  <2>2. pending.res.body \in Answer
    BY <2>1, AgentAssumption DEF QueueInv
  <2>3. uses \in Seq(Use)
    BY <2>2 DEF Answer
  <2>4. turn \in Message /\ messages \in Seq(Message) /\ n \in Nat
    BY <2>3, TurnShape DEF DataInv
  <2>5. AllAnswered(messages', n)
    <3>1. AllAnswered(messages, n)
      BY <2>1 DEF ConvInv
    <3> QED BY <2>1, <2>4, <3>1, AppendKeepsAnswers
  <2>6. turn.role = "assistant" /\ turn.uses = [i \in DOMAIN uses |-> uses[i].id]
    BY DEF AssistantTurn
  <2> HIDE DEF uses, turn
  <2>7. Len(messages') = n + 1 /\ messages'[n + 1] = turn
    BY <2>1, <2>4
  <2>8. /\ Len(turn.uses) = Len(uses)
        /\ \A j \in 1..Len(uses) : turn.uses[j] = uses[j].id
    <3>1. DOMAIN uses = 1..Len(uses) /\ Len(uses) \in Nat
      BY <2>3
    <3> QED BY <2>6, <3>1
  <2>9. Halfway(turn.uses, results', queue')
    <3>1. Len(results') = 0 /\ Len(uses) \in Nat
      BY <2>1, <2>3
    <3>2. Len(turn.uses) = Len(results') + Len(queue')
      BY <2>1, <2>8, <3>1
    <3>3. \A j \in 1..Len(results') : turn.uses[j] = results'[j].id
      BY <3>1
    <3>4. \A j \in 1..Len(queue') : turn.uses[Len(results') + j] = queue'[j].id
      BY <2>1, <2>8, <3>1
    <3> QED BY <3>2, <3>3, <3>4 DEF Halfway
  <2> QED BY <2>1, <2>4, <2>5, <2>6, <2>7, <2>9 DEF ConvInv
<1>6. ASSUME NEW ok \in BOOLEAN, ToolAnswered(ok)
      PROVE  /\ Len(messages) > 0 /\ Len(messages) \in Nat
             /\ messages \in Seq(Message)
             /\ messages[Len(messages)].role = "assistant"
             /\ AllAnswered(messages, Len(messages) - 1)
             /\ Halfway(messages[Len(messages)].uses, results', queue')
             /\ queue' = Tail(queue) /\ results' \in Seq(ToolResultBlock)
  <2>1. /\ pc = "tool_read" /\ queue' = Tail(queue)
        /\ results' = Append(results, [id |-> Head(queue).id, ok |-> ok])
    BY <1>6 DEF ToolAnswered
  <2>2. queue \in Seq(Use) /\ queue # <<>>
    BY <2>1 DEF QueueInv
  <2>3. Halfway(messages[Len(messages)].uses, results', queue')
    <3>1. Halfway(messages[Len(messages)].uses, results, queue)
      BY <2>1 DEF ConvInv
    <3>2. results \in Seq(ToolResultBlock)
      BY DEF DataInv
    <3> QED BY <2>1, <2>2, <3>1, <3>2, StillHalfway
  <2> QED BY <2>1, <2>3 DEF ConvInv, DataInv
<1>7. CASE ReadTool
  <2>1. pc' = "tool" /\ messages' = messages
    BY <1>7 DEF ReadTool
  <2> QED BY <1>6, <1>7, <2>1 DEF ReadTool, ConvInv
<1>8. CASE AskAgain
  <2> DEFINE n == Len(messages)
             after == Append(messages, ToolResults(results'))
  <2>1. pc' = "ask" /\ messages' = after /\ queue' = <<>>
    BY <1>6, <1>8 DEF AskAgain
  <2>2. /\ n \in Nat /\ n > 0 /\ messages \in Seq(Message)
        /\ results' \in Seq(ToolResultBlock)
        /\ AllAnswered(messages, n - 1)
        /\ Halfway(messages[n].uses, results', queue')
    BY <1>6, <1>8 DEF AskAgain
  <2>3. AllAnswered(after, n - 1)
    BY <2>2, ResultsShape, AppendKeepsAnswers
  <2>4. AnsweredIn(after, n)
    <3>1. Len(queue') = 0 /\ Len(results') \in Nat
      BY <2>1, <2>2
    <3>2. /\ Len(messages[n].uses) = Len(results')
          /\ \A j \in 1..Len(results') : messages[n].uses[j] = results'[j].id
      BY <2>2, <3>1 DEF Halfway
    <3> QED BY <2>2, <3>2, TurnAnswered
  <2>5. AllAnswered(after, n)
    <3>1. \A i \in 1..n : i \in 1..(n - 1) \/ i = n
      BY <2>2
    <3> QED BY <2>3, <2>4, <3>1 DEF AllAnswered
  <2>6. AllAnswered(after, n + 1)
    BY <2>2, <2>5, UserNeedsNone
  <2>7. Len(after) = n + 1
    BY <2>2, ResultsShape
  <2> QED BY <2>1, <2>6, <2>7 DEF ConvInv
<1> QED BY <1>2, <1>3, <1>4, <1>5, <1>7, <1>8 DEF Next, Progress

LEMMA ConvInvHolds == Spec => []ConvInv
PROOF
<1>1. ASSUME Init PROVE ConvInv
  BY <1>1 DEF Init, ConvInv
<1> QED BY <1>1, NextConv, ControlInvHolds, DataInvHolds, PTL DEF Spec

(***************************************************************************)
(* Whatever the model asks for, refused calls among it, the next request   *)
(* answers all of it, in order.                                            *)
(***************************************************************************)
THEOREM ConversationAnsweredHolds == Spec => []ConversationAnswered
PROOF
<1>1. ASSUME ConvInv, DataInv PROVE ConversationAnswered
  <2>1. DOMAIN messages = 1..Len(messages)
    BY <1>1 DEF DataInv
  <2> QED BY <1>1, <2>1 DEF ConvInv, AllAnswered, ConversationAnswered
<1> QED BY <1>1, ConvInvHolds, DataInvHolds, PTL

-----------------------------------------------------------------------------
(***************************************************************************)
(* How far a run has come: to the loop, through its steps, and out of it;  *)
(* in a step to the model's answer, and then through the queue of tools.   *)
(***************************************************************************)
Loop == {"ask", "ask_read", "tool", "tool_read"}

Stage ==
  CASE pc = "boot" -> 0 [] pc = "alloc" -> 1 [] pc = "list" -> 2
    [] pc = "list_read" -> 3 [] pc \in Loop -> 4 [] pc = "free_input" -> 5
    [] pc = "free_output" -> 6 [] OTHER -> 7

Asked ==
  CASE pc = "ask" -> 0 [] pc = "ask_read" /\ at = "model" -> 1
    [] pc = "ask_read" /\ at # "model" -> 2 [] OTHER -> 3

Called ==
  CASE pc = "tool" -> 0 [] pc = "tool_read" /\ at = "web" -> 1 [] OTHER -> 2

(***************************************************************************)
(* Each step of a run takes it further: to a later stage; in the loop to   *)
(* the next step; in a step towards the tools that are asked for; among    *)
(* these to the next one, or with one towards its result.                  *)
(***************************************************************************)
ToolsGetOn ==
  \/ Len(queue') < Len(queue)
  \/ queue' = queue /\ Called' > Called

LoopGetsOn ==
  \/ step' > step
  \/ step' = step /\ Asked' > Asked
  \/ step' = step /\ Asked = 3 /\ Asked' = 3 /\ ToolsGetOn

RunGetsOn ==
  \/ Stage' > Stage
  \/ Stage = 4 /\ Stage' = 4 /\ LoopGetsOn

\* There is a last step, the ceiling does not move, and a queue is finite.
RunHasEnd == step <= maxSteps /\ maxSteps <= MaxSteps /\ Len(queue) \in Nat

\* The clamped number of steps is settled when the run begins.
LEMMA CeilingStays ==
  ASSUME Next
  PROVE  maxSteps' = maxSteps
PROOF
<1>1. CASE Boot \/ BootFails \/ AllocInput \/ CallList \/ CallModel \/ CallTool
  BY <1>1 DEF Boot, BootFails, AllocInput, CallList, CallModel, CallTool
<1>2. CASE ModelFails \/ WebAnswers \/ \E a \in Answers : ModelAnswers(a)
  BY <1>2 DEF ModelFails, WebAnswers, ModelAnswers
<1>3. CASE ReadList \/ AskFailed \/ Refused \/ Completed \/ ToolsRequested
  BY <1>3 DEF ReadList, AskFailed, Refused, Completed, ToolsRequested
<1>4. CASE ReadTool \/ AskAgain \/ StepLimit
  BY <1>4 DEF ReadTool, AskAgain, StepLimit, ToolAnswered
<1>5. CASE Trap \/ FreeInput \/ EmptyOutput \/ FreeOutput
  BY <1>5 DEF Trap, FreeInput, EmptyOutput, FreeOutput, HostReport
<1> QED BY <1>1, <1>2, <1>3, <1>4, <1>5 DEF Next, Progress

\* A step of a run, whichever it is, takes it further.
LEMMA StepGetsOn ==
  ASSUME ControlInv, AgentTypeOK, Next
  PROVE  RunGetsOn
PROOF
<1> USE DEF RunGetsOn
<1>1. /\ at \in {"guest", "model", "web"} /\ step \in Nat
      /\ at = "model" => pc = "ask_read"
      /\ at = "web" => pc = "tool_read"
  BY DEF ControlInv, ThreadInv, CountInv
<1>2. CASE Boot \/ BootFails \/ AllocInput
  BY <1>2 DEF Boot, BootFails, AllocInput, Stage, Loop
<1>3. CASE Trap
  <2>1. Stage \in 0..6
    BY <1>3 DEF Trap, AgentTypeOK, Stage, Loop
  <2>2. Stage' = 7
    BY <1>3 DEF Trap, HostReport, Stage, Loop
  <2> QED BY <2>1, <2>2
<1>4. CASE CallList \/ ReadList
  <2>1. CASE CallList
    <3>1. pc = "list" /\ pc' = "list_read"
      BY <2>1 DEF CallList
    <3> QED BY <3>1 DEF Stage, Loop
  <2>2. CASE ReadList
    <3>1. pc = "list_read" /\ pc' = "ask"
      BY <2>2 DEF ReadList
    <3> QED BY <3>1 DEF Stage, Loop
  <2> QED BY <1>4, <2>1, <2>2
<1>5. CASE CallModel
  <2>1. pc = "ask" /\ pc' = "ask_read" /\ step' = step
    BY <1>5 DEF CallModel
  <2> QED BY <2>1 DEF Stage, Loop, LoopGetsOn, Asked
<1>6. CASE ModelFails \/ \E a \in Answers : ModelAnswers(a)
  <2>1. /\ at = "model" /\ at' = "guest" /\ pc' = pc /\ step' = step
    BY <1>6 DEF ModelFails, ModelAnswers, CompleteEnd
  <2> QED BY <1>1, <2>1 DEF Stage, Loop, LoopGetsOn, Asked
<1>7. CASE AskFailed \/ Refused \/ Completed
  BY <1>7 DEF AskFailed, Refused, Completed, ReadAnswer, Finish, Stage, Loop
<1>8. CASE ToolsRequested
  <2>1. /\ pc = "ask_read" /\ pc' = "tool" /\ at = "guest" /\ step' = step
    BY <1>8, ReadShape DEF ToolsRequested, ReadAnswer
  <2> QED BY <2>1 DEF Stage, Loop, LoopGetsOn, Asked
<1>9. CASE CallTool
  <2>1. /\ pc = "tool" /\ pc' = "tool_read" /\ step' = step /\ queue' = queue
    BY <1>9 DEF CallTool
  <2> QED BY <2>1 DEF Stage, Loop, LoopGetsOn, Asked, ToolsGetOn, Called
<1>10. CASE WebAnswers
  <2>1. /\ pc = "tool_read" /\ pc' = pc /\ step' = step /\ queue' = queue
        /\ at = "web" /\ at' = "guest"
    BY <1>1, <1>10 DEF WebAnswers, FetchEnd
  <2> QED BY <2>1 DEF Stage, Loop, LoopGetsOn, Asked, ToolsGetOn, Called
<1>11. CASE ReadTool
  <2>1. /\ pc = "tool_read" /\ pc' = "tool" /\ step' = step
        /\ queue' = Tail(queue)
    BY <1>11 DEF ReadTool, ToolAnswered
  <2>2. Len(queue') < Len(queue)
    <3>1. queue \in Seq(Use) /\ queue # <<>>
      BY <2>1 DEF ControlInv, QueueInv
    <3>2. \A q \in Seq(Use) : q # <<>> => Len(Tail(q)) < Len(q)
      OBVIOUS
    <3> QED BY <2>1, <3>1, <3>2
  <2> QED BY <2>1, <2>2 DEF Stage, Loop, LoopGetsOn, Asked, ToolsGetOn
<1>12. CASE AskAgain
  <2>1. pc = "tool_read" /\ pc' = "ask" /\ step' > step
    BY <1>1, <1>12 DEF AskAgain, ToolAnswered
  <2> QED BY <2>1 DEF Stage, Loop, LoopGetsOn
<1>13. CASE StepLimit
  BY <1>13 DEF StepLimit, ToolAnswered, Finish, Stage, Loop
<1>14. CASE FreeInput \/ EmptyOutput \/ FreeOutput
  BY <1>14 DEF FreeInput, EmptyOutput, FreeOutput, HostReport, Stage, Loop
<1> QED BY <1>2, <1>3, <1>4, <1>5, <1>6, <1>7, <1>8, <1>9, <1>10, <1>11, <1>12,
           <1>13, <1>14 DEF Next, Progress

(***************************************************************************)
(* No run goes round: whatever the model answers and however often a tool  *)
(* is refused, each step takes the run nearer to its end (lib.rs:198-287). *)
(* With the fairness of RunSpec that is why a run needs no fuel limit to   *)
(* end.                                                                    *)
(***************************************************************************)
THEOREM RunEnds == Spec => []RunHasEnd /\ [][RunGetsOn /\ maxSteps' = maxSteps]_vars
PROOF
<1>1. ControlInv => RunHasEnd
  <2> SUFFICES ASSUME ControlInv PROVE RunHasEnd
    OBVIOUS
  <2>1. \A q \in Seq(Use) : Len(q) \in Nat
    OBVIOUS
  <2> QED BY <2>1, HostAssumption DEF ControlInv, QueueInv, CountInv, RunHasEnd
<1>2. ControlInv /\ AgentTypeOK /\ [Next]_vars
        => [RunGetsOn /\ maxSteps' = maxSteps]_vars
  BY StepGetsOn, CeilingStays
<1> QED BY <1>1, <1>2, ControlInvHolds, AgentTypeCorrect, PTL DEF Spec

=============================================================================
