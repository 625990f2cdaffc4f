# tds-wasm-ai in TLA+

The repository runs an LLM agent as a WebAssembly guest. The guest can do nothing
by itself: it reaches the model and its tools through three functions of its host,
and the host's policy decides what each call may do. This directory specifies that
system: the host under an arbitrary guest, the shipped agent in its host, the
memory and the messages between them, the watchdog that enforces the time budget,
the client that performs a model turn, the server around the runs, and what is
checked before the first of them.

## 1. The system

| Component | Source | State | Operations |
|---|---|---|---|
| Tool box | `tds-host/src/tools.rs` | the scratchpad `kv`; one per run | `now`, `http_get`, `kv_get`, `kv_put` behind one enabled check |
| Capability host | `tds-host/src/runtime.rs` 337-451 | `pending` response, `llm_calls` | host functions `call`, `response_read`; `dispatch` |
| Guest log | `runtime.rs` 309-335 | the lines of the report | host function `log` |
| Guest memory | `runtime.rs` 249-286, 457-487, `tds-agent/src/lib.rs` 38-100 | the guest's linear memory | `read_guest`, `write_guest`, `tds_alloc`, `tds_dealloc`, packed pointers |
| Agent | `tds-agent/src/lib.rs` | conversation, record of tool calls, usage, step | `tds_run`: the reason and act loop, each step a `host_call` |
| Run lifecycle | `runtime.rs` 122-303 | fuel, deadline, the report | `Runtime::run`, `invoke_agent`, traps |
| Watchdog | `runtime.rs` 27-29, 83-99, 151-154, 197-204 | engine epoch, `ticker_stop` | ticker thread, deadlines, `Drop` |
| Model client | `tds-host/src/llm.rs` 25-221 | retry counter | `complete`: request, wait, retry |
| Mock provider | `llm.rs` 233-332 | none | a fixed answer to each conversation |
| Policy | `tds-host/src/policy.rs` | none after load | `load`, `validate`, `allows` |
| Module checks | `runtime.rs` 206-247 | none | `verify_module_shape`, `check_abi_version` |
| Server | `tds-host/src/main.rs` 184-283 | one shared `Runtime`, tokio's blocking pool | `POST /v1/runs` on a blocking thread, shutdown |
| Command line | `main.rs` 35-149 | none | `run`, `serve`, `check` |
| ABI | `tds-abi/src/lib.rs` | none | envelopes, codes, packed pointers, message types |

**How they interact.** `serve` or `main` owns one `Runtime`; each request runs
`Runtime::run` on a blocking thread that holds its own reference to it. `run` builds
a fresh instance, store and tool box, calls `tds_run`, and the guest calls back into
`call`, which dispatches to the tool box or the provider, stores the encoded
response in `pending` and returns its length; the guest then takes it with
`response_read`. A run is one thread: between runs only the engine's epoch, the
policy, the provider and the last reference to the `Runtime` are shared.

**What is hard.** The guest is hostile, so the host's properties must hold under
every call sequence. A call and its read are two steps, and the thread blocks
between the effect of a call and its response. A run can be stopped between any two
steps of the guest, after effects have happened. Concurrent runs share one epoch,
and the ticker must outlive its server as long as a run needs it. A model turn is a
retry loop whose waits the far side controls, and a page comes in pieces at the far
side's pace. A handler can go while its run stays. `PROJECT.json` lists the hazards
one by one at their lines, with the properties that cover them; the one without a
property says why.

**What makes each component correct.**
*Tool box*: limits and policy bound every effect; a refusal has none; a page is
whole or says that it is not.
*Capability host*: turns are capped and charged in the right place; a response is
handed over at most once and is the latest.
*Guest memory*: no copy leaves it; the agent's own buffers are accepted and freed once.
*Agent*: the conversation is well formed and comes back to the model as it was;
record, usage and steps agree with what the host did.
*Run*: it ends, with a report; the reasons for ending mean what they say; the log
tells what the report of a stopped run does not.
*Watchdog*: no run is interrupted before it has had the whole ticks of its budget, up
to one for where in a tick it starts; the deadline of each comes.
*Model client*: no more requests than granted, no retry of what is final, no early
surrender, and it returns.
*Policy and module checks*: the commands agree on what they accept, and what the
rest of the system assumes has been checked.
*Server*: answers are true; who waits is answered; shutdown loses nobody's run.

## 2. The modules

```
 composition by EXTENDS, from left to right:

 ToolBox ── CapabilityHost ── AgentRun ──(refines)──> RunContract
                                 ├── MockRun ────┐
                GuestLog ────────┴── LoggedRun ──┴── CompleteRun

 ModelClient ──┬── Turn          Server ──(refines)──> RunLife <──(refines)── Watchdog
 HttpBody ─────┘

 in more detail than AgentRun and CapabilityHost have:
   ModelClient  between CompleteBegin and CompleteEnd
   HttpBody     between FetchBegin and FetchEnd
   GuestMemory  the buffers of AllocInput to FreeOutput, and BAD_POINTER
   EchoPath     the conversation's way to the API and back
   Truncate     the record's results
   Allowlist    ToolBox's AllowedHosts
   Startup      the assumptions on the policy, and BootFails

 proofs, each in a module that extends what it is about:
   CapabilityHostProofs ── AgentRunProofs ──┐
                            SequenceFacts ──┼── RunProofs   of CompleteRun
                                            └── PartsProofs of EchoPath, GuestMemory,
                                                Truncate, Allowlist and Startup
   TurnProofs of Turn and its two clients, WatchdogProofs, ServerProofs
```

A module `MC...` gives its module small instances for TLC. `MCParts` does so for six
modules that share no state with each other or with a run; each of its behaviours is
one of one of them, while the others rest.

### ToolBox

The four tools as operators that relate a request, a result and the scratchpad.
`http_get` is cut in two where the thread blocks: `HttpSend` (all the checks, then
the request leaves) and `HttpReply`. `contacted` is a history variable: the hosts a
request was sent to. JSON arguments are records with `Missing` for what is absent
or of the wrong type. Results keep their kind, and their
content where it tells answers apart; wording is the single value `Text`.

### CapabilityHost

`call` is one action for each way through it: `CallTooLong`, `CallRejected`, and one
or more per arm of `dispatch`. `llm.complete` has four: denied (tested before the
request is parsed, as in the code), malformed, begun, ended. Between `CompleteBegin`
and `CompleteEnd`, or `FetchBegin` and `FetchEnd`, the thread is in the host (`at`)
and nothing else of the run can happen. `response_read` is `Read`, `ReadWrongLength`
(the response is put back) and `ReadUnwritable` (it is lost). `pending` is a record
of its length, its result, and the ticket of the call it answers; tickets, `turns`
and `delivered` are history. `HostNext` lets the guest make any call at any time
with any length and read, or not, with any length.

The response codes -1 and -2 are produced. `INTERNAL` (-3) is never returned by the
code. The `internal` envelope of `respond` needs a value that does not serialise,
and none of the response types has one.

### AgentRun

Extends CapabilityHost and uses its actions as they are. `pc` is the place in
`run` / `invoke_agent` / `run_agent`. A `host_call` of the agent is two steps, the
call and `Read(ret)` with the local work after it. `Trap` can take any step's
place while the guest runs, from `tds_alloc` to the last `tds_dealloc`: fuel, the
epoch, a panic or a failed allocation, all of which end in the report made by the
host (`HostReport`). `executed` and `billed` are history variables that collect
what the host did, at the moment it did it, to compare the report with.

`Answer` is what `run_agent` looks at in an `LlmResponse`: its stop reason (only a
refusal makes a difference), its tool uses, its tokens. An answer with tool uses need
not have the stop reason `tool_use`, and a refusal may carry tool uses; the code
handles both this way. Left out because the host and the agent agree on the
encoding: the agent's branches for a response or an input that does not parse.

### RunContract

The abstract specification of a run: ceiling, turns taken, whether the model is being
asked, tool calls owed, and the verdict. Turns and tool calls alternate, and each stop
reason has its condition. `AgentRun!KeepsContract` is the refinement, with the
mapping in `Contract`: `ceiling` is the clamped `max_steps`, `owed` the length of the
queue of tool uses, `waiting` whether the current turn has been handed over and not
read. A report, or a run that never started, gives the verdict.

### GuestLog and LoggedRun

`GuestLog` is the `log` function: the cut at `MaxLineBytes`, lossy decoding (a text is
a sequence of character widths, so that a cut through a character and stray bytes
happen), and the buffer that keeps the first lines. `LoggedRun` is `AgentRun` with
what the agent emits at each step, in the order of its statements; a run that is
stopped may have said any beginning of it.

### MockRun and CompleteRun

`MockRun` adds the provider the policy names. With the mock, the model's answers are
what `MockProvider` computes from the conversation and from the tools in the request
(`tools`, which `AgentRun` has no use for); with any other, the model may answer
anything. `Directives` are the parsed `!tool` lines of the task and its context.
`CompleteRun` puts agent, host, log and provider together: a step of the run is taken
with what is logged in it and with what the provider makes of it.

### EchoPath

Content blocks as JSON objects, and their decoding and encoding at each of the three
hops of a turn, of every turn. A block that fits `KnownContent` keeps the fields its
type names; anything else is `Raw`. `extra` stands for the fields no type names.

### GuestMemory

A run's buffers in the linear memory, in addresses of `Word` values (2^32 in the
code) that the host adds without wrapping. The guest is the shipped agent, whose
allocator gives blocks that do not overlap, or one that passes any pointer and any
length. Memory may grow whenever the guest runs.

### HttpBody

The wire side of one allowed `http_get`: head, redirect, body in pieces, a server
that is late, breaks off or never ends, the client's timer per wait, and `take`.

### ModelClient

The loop of `AnthropicProvider::complete`, one action per outcome of a request. The
blocking HTTP client applies its timeout to the headers and again to the body, which
is an external fact (reqwest) and shows in `Takes`.

### Turn

The two calls that leave the process, one after the other, as in a turn whose answer
has the agent fetch a page: the guest has one thread. Each has a clock of its own,
since no limit in the code looks at both.

### Truncate and Allowlist

Two pure functions, each stepped through or asked once and compared with a reference
definition: `truncate` (the same code in the agent and in the model client) cuts at a
character's boundary; `allows` compares characters, and a host name is a sequence of
labels.

### Startup

`run`, `serve`, `check` and `check --offline` on the same policy file, module and
environment: the order of their checks and where each refuses, then what
instantiation and the ABI check find in the first run.

### Watchdog

Real time, the epoch, the ticker thread with its sleep, any number of runs and the
owner of the `Runtime`. `Accept` is the handler that passes a run on to the blocking
pool, where it may wait its turn, or be dropped when the async runtime is shut down;
from then on the run has a reference of its own. A started run is in the guest, where
the epoch is compared, or in the host, where nothing compares it. `Pass` lets a unit
of time go by only if the ticker is no later than `Lag` and no guest that is past its
deadline is still computing; that is the assumption about the scheduler and about
compiled code. `LetGo` is the reference count: `Drop` sets the stop flag when the
last holder goes.

The epoch knows only ticks, and a run starts somewhere in one. `before` records when the
ticker had last woken by then, so that `TicksGranted` can say both what the code grants,
all the whole ticks of the budget (at least one) from that moment on, and what is left
of it from the run's own start, at most one tick less. A budget of less than two ticks
may therefore be over as soon as the run has started; nothing stronger holds, and
runtime.rs:27-29 promises no more.

### Server

Clients that connect, send, wait and disconnect; handlers; the queue and the threads
of the blocking pool; graceful shutdown and a crash. External facts: tokio's pool runs
what it has begun and cancels what is queued when it is shut down with an idle thread,
although a busy one may still take it; axum's graceful shutdown waits for every open
connection; a second Ctrl-C does nothing; `JoinError` covers panic and cancellation.

### RunLife

The abstract specification that `Server` and `Watchdog` share: a run is accepted by
the owner of the Runtime, starts at most once, ends at most once, is dropped only when
there is no owner, and the Runtime is there as long as the owner, or a run that may
still enter the guest. Each implements it with its own mapping, `Life`. That is how
the two fit together: the watchdog needs a Runtime for each run, and the server never
lets a run outlive it.

Definitions whose comment starts with "Mutant:" are deliberate mistakes. Each is a
plausible bug in the code it stands beside, and is named in `PROJECT.json` with the
property that catches it; no specification uses them.

## 3. The runs

| Run | Shows | Bounds, and why they are enough |
|---|---|---|
| `host_any_guest` | `HostTypeOK`, `TurnCap`, `PendingIsLatestUnread`, `EffectsAuthorized`, `ScratchpadBounded`, `DenialHasNoEffect` | four calls, one turn, two hosts of which one is allowed, three keys for two slots, one value at the limit and one over it, lengths at and over the limit. Four calls are a turn, a turn that is denied, and a fetch or put around them, or fill, overwrite and overflow |
| `complete_run` | `ConversationAnswered`, `VerdictsPassedOn`, `AuditTrailComplete`, `UsageSummed`, `StepsReported`, `HostLimitNeverBinds`, `AgentReadsOwnAnswer`, `MockKeepsToTask`, `LogTellsRun`, `KeepsContract`, `EventuallyReported` | three turns, up to three tool uses in each, one of them refused, wishes 0, 2 and 9; four directives for the mock, one twice and one for a tool that is not enabled; a log of five lines, which the longer runs fill. Three turns are needed for results of one turn to meet those of a later one. `MaxCalls` = 16 is more than any run makes (list, and three turns of a question and three tools) |
| `watchdog` | `TicksGranted`, `DeadlineComes`, `KeepsRunLife` | two runs, a budget of two and a half ticks, time for a full budget after another has been used up; the runs are symmetric |
| `server` | `AnswersAreTrue`, `CancelledOnlyIfGone`, `WaitersAnswered`, `ShutdownCompletes`, `ServesRuns` | three clients and a pool of one thread: one run running, one queued, one arriving |
| `turn` | `AttemptsBounded`, `FailsOnlyInTheEnd`, `CallTimeBounded`, `FinalIsFinal`, `UnmarkedIsWhole`, `FetchTimeBounded`, `TurnComesBack` | two retries, and retry-after of none, one and five seconds, under and over the backoff; a limit of four bytes, bodies of none, fewer, as many and more; a timeout of three ticks |
| `parts` | `ChecksHold` of Startup, `AllowsByLabels` of Allowlist, `EchoFaithful` of EchoPath, `LogKeepsLimits` of GuestLog, `CopiesStayInside`, `OwnBuffersAccepted` and `DeallocMatches` of GuestMemory, `KeepsWhatFits` of Truncate | see below |

The bounds of `parts`: policies that differ from a sound one in up to two respects and
modules in one; every rule of up to four characters out of `a A . *` and blank and every
host of up to four out of `a b .`, with one rule or two; seven blocks, one for each way a
block can be treated, two in an answer and three turns, so that a block is sent back
twice; lines of three bytes with characters of one to four and stray bytes, up to two
lines more than there is room for; a word of six values, of which the memory has four,
five or six, so that ranges end before, at and past the end and sums exceed a word; all
texts of up to four characters of one to four bytes, with limits 0, 1, 5 and 8.

Five of these properties are conjunctions of two that are stated separately in their
modules: `MockKeepsToTask`, `LogTellsRun`, `ChecksHold`, `EchoFaithful`,
`LogKeepsLimits`.

Where a run checks with `CHECK_DEADLOCK FALSE` the system really stops: a run ends
with its report, a call or a fetch returns, a command has run, the server has exited,
a function has its value, and the watchdog's time stops at `Horizon`.

Six runs state what a comment or document says and find that the code does
otherwise:

| Run | Property | What happens |
|---|---|---|
| `audit_of_stopped_run` | `EveryReportIsAuditable` | a run that is stopped after its tools had effects reports no tool calls, steps or usage, although the README promises every tool call |
| `stale_response` | `PendingIsOfMostRecentCall` | after a call rejected with a code, `response_read` still hands over the response to an earlier call. The shipped agent never meets this (`AgentReadsOwnAnswer`) |
| `budget_in_host_call` | `BudgetBinds` | a run that waits on a slow model is not stopped at its deadline but when the model has answered |
| `steps_of_failed_turn` | `StepsAreTurnsConsumed` | a turn that failed at the provider was consumed, and the report does not count it |
| `cut_answer_completed` | `CompletedMeansFinal` | an answer cut off by `max_tokens` is reported as completed |
| `echo_verbatim` | `EchoedVerbatim` | a block of a known type loses the fields the crate does not name |

What does hold in their place: `StepsReported`, `AuditTrailComplete` and, for stopped
runs, `LogTellsRun`; `CallTimeBounded` and `FetchTimeBounded`, which bound by how
much a budget is overrun; `EchoFaithful`.

Seen while modelling, and not the subject of a run: a page of exactly
`max_response_bytes` is marked as truncated although nothing was cut
(`HttpBody!Reply`, tools.rs:120); a module with the right names and other signatures
passes every check and fails in each run (`Startup!FirstRun`, runtime.rs:206-247);
`max_tokens = 0`, or a tool listed twice, passes `validate` (policy.rs:34-65), and the
Messages API rejects it.

**Fairness.** `CompleteRun!RunSpec` has weak fairness of `Proceeds`, every action but
`Trap`: a run has one thread which the operating system schedules, and a blocked host
call returns, which is what `Turn!TurnComesBack` shows of the two there are.
`Turn!TurnSpec` in turn assumes that the clients' own steps are taken (their timers,
the retry loop, the end of a sleep), and nothing of the far side.
`Server!FairServerSpec` assumes that the pool's threads and the async workers are
scheduled and that a run ends (`EventuallyReported`), and nothing of clients, signals
or crashes; a client that holds a connection open with a request it never finishes
holds up the shutdown, and `ShutdownCompletes` says so in its premise. No particular
answer ever has to come, and no trap ever has to stop a run. `Watchdog` states its
liveness as a bound on real time (`DeadlineComes`), an invariant, and needs no fairness.

## 4. The proofs

TLAPS proves, for all values of the constants under the assumptions named in the
modules (`ToolBoxAssumption`, `HostAssumption`, `AgentAssumption`, `LogAssumption`,
`MockAssumption`, `ClientAssumption`, `HttpAssumption`, `MemoryAssumption`,
`AllowAssumption`, `StartupAssumption`, `EchoAssumption`, `TextAssumption`,
`ServerAssumption`, `WatchdogAssumption`), which TLC evaluates in every run that uses
them:

Every invariant and every action property of the six passing runs is proved. The
type invariants (all but `HostTypeOK`) and `QueueIsWhatWaits` are proved and not
checked by a run.

*CapabilityHostProofs*, of `HostSpec`, that is under any guest:

- `HostTypeCorrect`. The invariant is inductive as it stands, with `llmCalls` kept
  within `0..MaxSteps` by the guard of `CompleteBegin`.
- `TurnCapHolds`. `turns <= MaxSteps` is not inductive: nothing in it ties `turns` to
  the counter the guard reads. The strengthening `TurnInv` adds `turns = llmCalls`.
- `PendingIsLatestUnreadHolds`. The strengthening `BufferInv` adds that `answered`
  never runs ahead of `calls`, is behind it while a call is in the host, and that
  nothing is delivered with a ticket above `answered`; so the response of a call that
  comes back is newer than everything delivered.
- `EffectsAuthorizedHolds`, from the fact that every step is a tool step
  (`HostStepIsToolStep`): it leaves the tool box alone, is a put past the enabled
  check, or is a send past all the checks.
- `ScratchpadBoundedHolds`, from the same fact, with `PutKeepsScratchpad` on
  cardinalities: a put adds no key or adds one to fewer than `MaxKeys`.
- `DenialHasNoEffectHolds`, an action property, by cases on the action.

*AgentRunProofs*, of `Spec`, the shipped agent in its host:

- `HostLimitNeverBindsHolds`, by `ControlInv`: at each `pc`, where the thread is,
  how the loop counter and the host's counter relate (`turns = step - 1` when the
  model is about to be asked) and that a tool call has a tool use to answer.
- `AgentRunImplementsHost`: every step of a run is a step of the unconstrained host
  or leaves it alone. Each host theorem therefore holds of runs; `AgentTurnCap`
  draws the conclusion for one.
- `AuditTrailCompleteHolds`, `UsageSummedHolds`, `StepsReportedHolds`, by `HistoryInv`:
  `BooksInv` states how far the agent's books are behind the host's history at each
  `pc` (one answer, or nothing), `OutInv` that an output once made agrees with it.
- `AgentReadsOwnAnswerHolds`: inductive as it stands, since between a call and its
  read the guest does nothing else.
- `KeepsContractHolds`, the refinement of `RunContract`. `ContractInv` adds to
  `ControlInv` that nothing is owed outside a turn's calls, that there is no report
  before the end, and that an output fits its stop reason; with both, each action maps
  to one action of the contract or to none (`StepKeepsContract`).
- `AgentTypeCorrect`, by `DataInv`, and `ConversationAnsweredHolds`, by `ConvInv`: in the
  middle of a turn the results so far followed by the uses still queued are the uses
  the last message asks for, and all turns before it are answered.

- `RunEnds`: what a prover can say of `EventuallyReported` without fairness. Each step
  takes the run further in the order of stage, step, place in the step, and tools still
  queued (`RunGetsOn`), and there is a last step (`RunHasEnd`). It rests on `ControlInv`,
  which tells where a thread that is in the host belongs, and on `AgentTypeOK`.

*RunProofs*, of `RunSpec`, a run with its log and its provider:

- `RunImplementsAgent`: the log and the provider take nothing from the run and add
  nothing to it. What is proved of `Spec` holds of `RunSpec`.
- `VerdictsPassedOnHolds`, by `VerdictInv`: the verdicts in the conversation, followed
  by those of the turn that is under way, are those of the record, and the record agrees
  with what the host did by `BooksInv`. `Told` joins the results of all messages, and
  `FlattenAppend` says what one message more adds.
- `LogKeepsLimitsHolds`, of `LogSpec`: any guest, any lines. `LogInv` says that the report
  has the first of the traced lines, as many as there is room for; `SumStages` and
  `DecodedBounded` bound what a decoded line takes.
- `LogTellsRunHolds`. `TracedInv` says what the traced lines announce: the calls made and,
  while a tool is being called, the one that is under way; `EndInv` that an output which
  needs an explanation is preceded by one. Since the log is the beginning of what was
  traced, and a beginning announces a beginning, the log tells it too, or is full.
- `MockKeepsToTaskHolds`. `MockInv` follows the mock's run: before its calls are answered
  no result is in the conversation, so that they are made; during the first turn those
  recorded and those queued together are the task's (`Partly`); from then on there is a
  result in the conversation, so that they are never made again.

*TurnProofs*, of `ClientSpec`, `HttpSpec` and `TurnSpec`:

- `AttemptsBoundedHolds` and `FailsOnlyInTheEndHolds`. Neither is inductive: the loop
  tests `attempt`, and the properties speak of `sent`. `RetryInv` ties the two, equal
  before a request and one apart after it.
- `FinalIsFinalHolds`, an action property, by `FinalInv`: a final answer is only ever
  the last thing of a call that has returned.
- `ClientTypeCorrect` and `CallTimeBoundedHolds`, by `TimeInv`: time spent is at most
  what the requests sent and the waits taken account for, and no wait is longer than
  the longest, since `backoff` grows (`BackoffGrows`).
- `HttpTypeCorrect`, `UnmarkedIsWholeHolds` and `FetchTimeBoundedHolds`, by `FetchInv`,
  which adds the current wait to the time bound.
- `TurnMakesItsCalls`: a turn is a behaviour of each of its calls, so that all of the
  above holds in it. `TurnEnds` is to `TurnComesBack` what `RunEnds` is to
  `EventuallyReported`: how far a call has come is a number, each step makes it larger,
  and it has a bound. A byte that resets the timer counts for more than all the ticks
  that it gives back (`StationOutweighs`).

*PartsProofs*:

- `KeepsWhatFitsHolds` of Truncate. `BackInv` says that no boundary lies between where
  the cut is and the limit; that the text has a boundary in every four bytes gives the
  rest.
- `PackedComesBack`, on division, for every word size, and `MemoryTypeCorrect`,
  `CopiesStayInsideHolds`, `OwnBuffersAcceptedHolds` and `DeallocMatchesHolds` of
  GuestMemory, by `OwnerInv`, which says at each place of `invoke_agent` which blocks are
  allocated: the input, the input and the output, the output, none.
- `ChecksHoldAlways` of Startup, by `ChecksBehind`: where a command is tells which checks
  lie behind it, and one that was refused had a check that fails; the commands see the
  same files and environment, hence they agree.
- `EchoFaithfulHolds` of EchoPath. `EchoInv` has each answer at its place in the
  conversation, decoded once, and each request equal to the encoded conversation up to
  its length; that decoding what was encoded loses nothing a second time
  (`WiredShape`) makes all later hops harmless.
- `AllowsByLabelsHolds` of Allowlist, for every alphabet. The labels of a name are a fold;
  `LabelsConcat` says that a dot between two names joins their labels, `LabelsSplit` that
  labels divide in no other way, and `LabelsInjective` that names with the same labels are
  the same. Hence a name ends with a dot and another name exactly if its labels end with
  the other's (`UnderName`), and a rule begins with `*.` exactly if its first label is a
  star and it has more (`StarRule`).

*SequenceFacts* has what these need of the community modules' operators. Induction over
numbers and over sequences is stated there for sets (`NatSetInduction`,
`SeqSetInduction`): a set that has the first and with each the next has them all. With
these a `FoldLeft` is computed stage by stage (`FoldExists`, `SameFold`), `FlattenSeq`
too (`FlattenAppend`), and `Min`, `Max`, `IsPrefix` and `IsSuffix` get the facts that
their definitions by `CHOOSE` and `Reverse` hide.

*WatchdogProofs*: `WatchdogTypeCorrect`, `TicksGrantedHolds` and
`DeadlineComesHolds`, for any number of runs. `TickerInv` says that the epoch is never
ahead of time and the ticker never later than its lag; `RunInv` counts that k ticks take
at least k periods from when the ticker last woke before the start of a run, and at
least (k - 1) and at most (k + 1) periods from the start itself; `TicksMakeGranted` that
the ticks of a budget make up all of it but the rest of the division; `HeldInv`
that the ticker has not been told to stop while a run may need it. `KeepsRunLifeHolds`
is the refinement of `RunLife`.

*ServerProofs*: `ServerTypeCorrect`, `AnswersAreTrueHolds`, `CancelledOnlyIfGoneHolds` and
`QueueIsWhatWaitsHolds`. `EndInv` says that from the moment `serve` returns no
connection is open, so that whoever finds a run cancelled has gone; `ClientInv` says
what each client's state tells of its run. `NobodyOvertakes` is an action property no
run checks: whoever is in front of another in the queue is started or given up first,
and whoever is accepted goes behind all who wait. `TurnsMoveUp` (the head leaves) and
`TurnsStay` (the queue is left alone) are the two ways a step keeps that. It is the
safety half of `WaitersAnswered`: a client waits for the runs in front of its own and
for no later one. `ServesRunsHolds` is the refinement of `RunLife`.

**Only model-checked.** Liveness: `EventuallyReported`, `TurnComesBack`,
`WaitersAnswered` and `ShutdownCompletes`. Weak fairness speaks of ENABLED, which TLAPS
does not reason about here. What is proved of the first two is that no run and no call
can go on for ever; that neither gets stuck on the way is left to TLC. And the six
disagreements of section 3, which are counterexamples.

The library's induction theorems take an operator as a parameter and cannot be used
here, nor can `SelectSeq` be unfolded: concatenations and filters are therefore written
with `FlattenSeq`, and sums with `FoldLeft`.

## 5. What is not modelled

- Fuel and memory limits as quantities of a run: both can stop it at any guest step,
  which is `Trap`.
- Encodings: JSON, TOML, URLs. A malformed request or file is a case of its own. In
  particular `EchoPath` says nothing of how JSON writes a number: a block's numbers may
  come back in another notation.
- That `kv_put` refuses nothing that fits, an overwrite at the limit among them:
  `ScratchpadBounded` is the upper bound only.
- An upper limit on `retry-after`: the code sets none (`llm.rs:157`), so the longest that
  the API asks for is the constant `LongestRetryAfter`, and `CallTimeBounded` is a bound
  in terms of it.
- The model's and the web's behaviour, beyond that they may answer anything or fail.
- What the API bills for a request that timed out (`llm.rs:125`): it is retried without
  an idempotency key, and whether the first was processed is outside the code.
- `RunReport`'s model, duration and fuel; all wording, tracing and the printed report;
  the descriptions and schemas of tools; `GET /healthz` and `GET /v1/policy`, which read
  a constant and the policy.
- Argument syntax; container, build and CI files.

## 6. What could follow

- `ModelClient` and `HttpBody` as steps inside `CapabilityHost` with one clock, to state
  the longest run as one bound.

To check a module: `tlc -config MCRun.cfg MCRun`; to check proofs:
`tlapm AgentRunProofs.tla`.
