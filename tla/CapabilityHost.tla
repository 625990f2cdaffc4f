--------------------------- MODULE CapabilityHost ---------------------------
(***************************************************************************)
(* The host side of one run: the functions call and response_read that     *)
(* crates/tds-host/src/runtime.rs registers, and dispatch behind them.     *)
(*                                                                         *)
(* The guest is unconstrained: any module with the right imports may be    *)
(* loaded, so HostNext lets it make any call, in any order, with any       *)
(* length, and read or not read each response.  AgentRun composes the same *)
(* actions with the agent shipped in crates/tds-agent.                     *)
(*                                                                         *)
(* A run has one thread.  It is in guest code, or inside a call that left  *)
(* the process and blocks there; `at` says which.  log is not here: the    *)
(* buffer it fills is touched by no other host function.                   *)
(***************************************************************************)
EXTENDS ToolBox, Sequences

CONSTANTS
  MaxSteps,         \* policy.limits.max_steps
  MaxRequestBytes,  \* policy.limits.max_request_bytes
  RequestLens,      \* lengths of the requests a guest makes
  ResponseLens,     \* lengths an encoded response may have
  Inputs,           \* tool arguments a guest sends
  Answers,          \* answers a model may give
  MaxCalls          \* bound: calls a guest makes in one run

ASSUME HostAssumption ==
  /\ MaxSteps \in Nat \ {0}           \* Policy::validate, policy.rs:41
  /\ MaxRequestBytes \in Nat
  /\ RequestLens \subseteq Nat
  /\ ResponseLens \subseteq Nat \ {0} \* an envelope is never empty
  /\ Inputs \subseteq Input
  /\ MaxCalls \in Nat

VARIABLES
  pending,    \* HostState.pending: the response waiting to be read
  llmCalls,   \* HostState.llm_calls
  at,         \* where the run's thread is: "guest", "model" or "web"
  ret,        \* what the last host function returned to the guest
  buffer,     \* what response_read last copied into guest memory
  calls,      \* history: number of calls made, the ticket of the latest
  answered,   \* history: ticket of the latest call that got a response
  delivered,  \* history: tickets of the responses copied to the guest
  turns       \* history: requests handed to the model provider

hostOnly == <<pending, llmCalls, at, ret, buffer, calls, answered, delivered,
              turns>>
hostVars == <<toolVars, hostOnly>>

\* tds-abi lib.rs:40-47
BAD_POINTER == -1
BAD_REQUEST == -2

Result == {Ok(b) : b \in Contents \cup Answers} \cup {Err(k) : k \in ErrorKinds}
NoResult == [kind |-> "none", body |-> Missing]

\* The empty vector: nothing is waiting.
Empty == [ticket |-> 0, len |-> 0, res |-> NoResult]

HostInit ==
  /\ ToolBoxInit
  /\ pending = Empty
  /\ buffer = Empty
  /\ llmCalls = 0 /\ turns = 0
  /\ at = "guest"
  /\ ret = 0
  /\ calls = 0 /\ answered = 0
  /\ delivered = {}

-----------------------------------------------------------------------------
(***************************************************************************)
(* Pieces of call.  Respond stores the encoded envelope of call number     *)
(* ticket and returns its length; it replaces a response that was never    *)
(* read (runtime.rs:364-366).                                              *)
(***************************************************************************)
Enter ==
  /\ at = "guest"
  /\ calls < MaxCalls
  /\ calls' = calls + 1

Fits(len) == len <= MaxRequestBytes

\* Mutant: a response that was never read is not replaced.
RespondIfEmpty(ticket, res) ==
  \E n \in ResponseLens :
    /\ pending' = IF pending = Empty
                  THEN [ticket |-> ticket, len |-> n, res |-> res] ELSE pending
    /\ answered' = ticket
    /\ ret' = n

\* Mutant: the length returned is not that of the envelope.
RespondBodyLen(ticket, res) ==
  \E n \in ResponseLens :
    /\ pending' = [ticket |-> ticket, len |-> n, res |-> res]
    /\ answered' = ticket
    /\ ret' = n - 1

Respond(ticket, res) ==
  \E n \in ResponseLens :
    /\ pending' = [ticket |-> ticket, len |-> n, res |-> res]
    /\ answered' = ticket
    /\ ret' = n

\* The request, or the capability's name, is over its limit (runtime.rs:347).
CallTooLong(len, longName) ==
  /\ Enter
  /\ ~Fits(len) \/ longName
  /\ Respond(calls + 1, Err("invalid"))
  /\ UNCHANGED <<toolVars, llmCalls, at, buffer, delivered, turns>>

\* A range outside guest memory, or a name that is not UTF-8: the call returns
\* a code and leaves everything as it was.
CallRejected(len, code) ==
  /\ Enter
  /\ Fits(len)
  /\ code \in {BAD_POINTER, BAD_REQUEST}
  /\ ret' = code
  /\ UNCHANGED <<toolVars, pending, llmCalls, at, buffer, answered, delivered,
                 turns>>

-----------------------------------------------------------------------------
(***************************************************************************)
(* dispatch, one action for each arm (runtime.rs:391-437).                 *)
(***************************************************************************)
ListTools(len) ==
  /\ Enter
  /\ Fits(len)
  /\ Respond(calls + 1, Ok(Text))
  /\ UNCHANGED <<toolVars, llmCalls, at, buffer, delivered, turns>>

InvokeMalformed(len) ==
  /\ Enter
  /\ Fits(len)
  /\ Respond(calls + 1, Err("invalid"))
  /\ UNCHANGED <<toolVars, llmCalls, at, buffer, delivered, turns>>

InvokeTool(name, in, len) ==
  /\ Enter
  /\ Fits(len)
  /\ \E res \in ToolResult : InvokeAtOnce(name, in, res) /\ Respond(calls + 1, res)
  /\ UNCHANGED <<llmCalls, at, buffer, delivered, turns>>

\* http_get blocks the thread until the far host answers or times out.
FetchBegin(name, in, len) ==
  /\ Enter
  /\ Fits(len)
  /\ HttpSend(name, in)
  /\ at' = "web"
  /\ UNCHANGED <<pending, llmCalls, ret, buffer, answered, delivered, turns>>

FetchEnd ==
  /\ at = "web"
  /\ at' = "guest"
  /\ \E res \in ToolResult : HttpReply(res) /\ Respond(calls, res)
  /\ UNCHANGED <<llmCalls, buffer, calls, delivered, turns>>

\* Mutant: the limit is off by one.
TurnsUsedUpLate == llmCalls > MaxSteps

\* The turn limit is tested before the request is parsed (runtime.rs:415-420).
TurnsUsedUp == llmCalls >= MaxSteps

CompleteDenied(len) ==
  /\ Enter
  /\ Fits(len)
  /\ TurnsUsedUp
  /\ Respond(calls + 1, Err("denied"))
  /\ UNCHANGED <<toolVars, llmCalls, at, buffer, delivered, turns>>

\* Mutant: a request that does not parse is charged as a turn.
CompleteMalformedCharged(len) ==
  /\ Enter
  /\ Fits(len)
  /\ ~TurnsUsedUp
  /\ Respond(calls + 1, Err("invalid"))
  /\ llmCalls' = llmCalls + 1
  /\ UNCHANGED <<toolVars, at, buffer, delivered, turns>>

CompleteMalformed(len) ==
  /\ Enter
  /\ Fits(len)
  /\ ~TurnsUsedUp
  /\ Respond(calls + 1, Err("invalid"))
  /\ UNCHANGED <<toolVars, llmCalls, at, buffer, delivered, turns>>

\* Mutant: the turn is not counted when the request is handed over.
CompleteBeginUncounted(len) ==
  /\ Enter
  /\ Fits(len)
  /\ ~TurnsUsedUp
  /\ turns' = turns + 1
  /\ at' = "model"
  /\ UNCHANGED <<toolVars, pending, llmCalls, ret, buffer, answered, delivered>>

\* The turn is counted, then the thread blocks in LlmProvider::complete.
CompleteBegin(len) ==
  /\ Enter
  /\ Fits(len)
  /\ ~TurnsUsedUp
  /\ llmCalls' = llmCalls + 1
  /\ turns' = turns + 1
  /\ at' = "model"
  /\ UNCHANGED <<toolVars, pending, ret, buffer, answered, delivered>>

CompleteEnd(res) ==
  /\ at = "model"
  /\ at' = "guest"
  /\ Respond(calls, res)
  /\ UNCHANGED <<toolVars, llmCalls, buffer, calls, delivered, turns>>

UnknownCapability(len) ==
  /\ Enter
  /\ Fits(len)
  /\ Respond(calls + 1, Err("not_found"))
  /\ UNCHANGED <<toolVars, llmCalls, at, buffer, delivered, turns>>

-----------------------------------------------------------------------------
(***************************************************************************)
(* response_read (runtime.rs:370-385).  The response is taken, then put    *)
(* back if the guest named another length.  One that cannot be written is  *)
(* not put back: it is lost.                                               *)
(***************************************************************************)
ReadWrongLength(len) ==
  /\ at = "guest"
  /\ len # pending.len
  /\ ret' = BAD_REQUEST
  /\ UNCHANGED <<toolVars, pending, llmCalls, at, buffer, calls, answered,
                 delivered, turns>>

ReadUnwritable(len) ==
  /\ at = "guest"
  /\ len = pending.len
  /\ pending' = Empty
  /\ ret' = BAD_POINTER
  /\ UNCHANGED <<toolVars, llmCalls, at, buffer, calls, answered, delivered,
                 turns>>

Read(len) ==
  /\ at = "guest"
  /\ len = pending.len
  /\ pending' = Empty
  /\ buffer' = pending
  /\ delivered' = delivered \cup ({pending.ticket} \ {0})
  /\ ret' = len
  /\ UNCHANGED <<toolVars, llmCalls, at, calls, answered, turns>>

-----------------------------------------------------------------------------
\* What the unconstrained guest may do in one step, and what may come back.
GuestCalls ==
  \E len \in RequestLens :
    \/ \E longName \in BOOLEAN : CallTooLong(len, longName)
    \/ \E code \in {BAD_POINTER, BAD_REQUEST} : CallRejected(len, code)
    \/ ListTools(len)
    \/ InvokeMalformed(len)
    \/ \E name \in ToolNames, in \in Inputs :
         InvokeTool(name, in, len) \/ FetchBegin(name, in, len)
    \/ CompleteDenied(len)
    \/ CompleteMalformed(len)
    \/ CompleteBegin(len)
    \/ UnknownCapability(len)

GuestReads ==
  \E len \in ResponseLens \cup {0} :
    ReadWrongLength(len) \/ ReadUnwritable(len) \/ Read(len)

WorldAnswers ==
  \/ FetchEnd
  \/ \E a \in Answers : CompleteEnd(Ok(a))
  \/ CompleteEnd(Err("upstream"))

HostNext == GuestCalls \/ GuestReads \/ WorldAnswers

HostSpec == HostInit /\ [][HostNext]_hostVars

-----------------------------------------------------------------------------
Response == [ticket : Nat, len : Nat, res : Result \cup {NoResult}]

HostTypeOK ==
  /\ ToolBoxTypeOK
  /\ pending \in Response
  /\ buffer \in Response
  /\ llmCalls \in 0..MaxSteps /\ turns \in Nat
  /\ at \in {"guest", "model", "web"}
  /\ ret \in Int
  /\ calls \in Nat /\ answered \in Nat
  /\ delivered \subseteq Nat

(***************************************************************************)
(* "The host does not take its word for it: this is the ceiling that       *)
(* actually binds" (runtime.rs:413-414).  However many completions a guest *)
(* asks for, and whether they parse, are answered or fail, the provider is *)
(* never handed more than max_steps requests in a run.                     *)
(***************************************************************************)
TurnCap == turns <= MaxSteps

(***************************************************************************)
(* The response waiting to be read is the answer to the latest call that   *)
(* got one, and it has not been handed over before: a new answer replaces  *)
(* an unread one, and response_read takes what it copies (runtime.rs:364-  *)
(* 366, 374).                                                              *)
(***************************************************************************)
PendingIsLatestUnread ==
  pending # Empty =>
    /\ pending.ticket = answered
    /\ pending.ticket \notin delivered

(***************************************************************************)
(* A call the host answers with denied, invalid or not_found, or rejects   *)
(* with a code, has no effect: nothing is stored, no host is contacted,    *)
(* and no model turn is spent or charged (runtime.rs:347-362, 397-435).    *)
(***************************************************************************)
DenialHasNoEffect ==
  [][ \/ at' = "guest" /\ ret' < 0
      \/ pending'.ticket # pending.ticket
         /\ pending'.res.kind \in {"denied", "invalid", "not_found"}
      => UNCHANGED <<kv, contacted, llmCalls, turns>> ]_hostVars

(***************************************************************************)
(* "The response to the most recent capability call, waiting to be read."  *)
(* (runtime.rs:53): what response_read would hand over was produced by the *)
(* last call the guest made.                                               *)
(***************************************************************************)
PendingIsOfMostRecentCall ==
  at = "guest" /\ pending # Empty => pending.ticket = calls

=============================================================================
