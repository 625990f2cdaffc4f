----------------------- MODULE CapabilityHostProofs -----------------------
(***************************************************************************)
(* Theorems about CapabilityHost: what holds of a run whatever the guest   *)
(* does, for every policy, every set of inputs and every number of calls.  *)
(***************************************************************************)
EXTENDS CapabilityHost, FiniteSetTheorems, TLAPS

USE DEF hostVars, hostOnly, toolVars

-----------------------------------------------------------------------------
(***************************************************************************)
(* What any step does to the tools: nothing, one put, or one request.      *)
(***************************************************************************)
Put(in) ==
  /\ "kv_put" \in Enabled
  /\ in.key # Missing /\ in.value # Missing
  /\ ~KvRefuses(in)
  /\ kv' = [kv EXCEPT ![in.key] = in.value]
  /\ UNCHANGED contacted

Contact(host) ==
  /\ "http_get" \in Enabled
  /\ host \in AllowedHosts
  /\ contacted' = contacted \cup {host}
  /\ UNCHANGED kv

ToolStep ==
  \/ UNCHANGED toolVars
  \/ \E in \in Inputs : Put(in)
  \/ \E host \in AllowedHosts : Contact(host)

\* A tool answered at once leaves the tools alone, or puts.
LEMMA InvokeIsToolStep ==
  ASSUME NEW name, NEW in \in Inputs, NEW res, InvokeAtOnce(name, in, res)
  PROVE  ToolStep
PROOF
<1>1. CASE ToolDenied(name, res) \/ Now(name, res) \/ KvGet(name, in, res)
           \/ HttpRefused(name, in, res)
  BY <1>1 DEF ToolDenied, Now, KvGet, HttpRefused, ToolStep
<1>2. CASE KvPut(name, in, res)
  <2>1. UNCHANGED toolVars \/ Put(in)
    BY <1>2 DEF KvPut, Put
  <2> QED BY <2>1 DEF ToolStep
<1> QED BY <1>1, <1>2 DEF InvokeAtOnce

\* Every step of the host is a ToolStep.
LEMMA HostStepIsToolStep ==
  ASSUME [HostNext]_hostVars
  PROVE  ToolStep
PROOF
<1>1. CASE UNCHANGED hostVars
  BY <1>1 DEF ToolStep
<1>2. CASE GuestReads
  BY <1>2 DEF GuestReads, ReadWrongLength, ReadUnwritable, Read, ToolStep
<1>3. CASE WorldAnswers
  <2>1. ASSUME FetchEnd PROVE UNCHANGED toolVars
    BY <2>1 DEF FetchEnd, HttpReply
  <2>2. ASSUME NEW res, CompleteEnd(res) PROVE UNCHANGED toolVars
    BY <2>2 DEF CompleteEnd
  <2> QED BY <1>3, <2>1, <2>2 DEF WorldAnswers, ToolStep
<1>4. CASE GuestCalls
  <2> PICK len \in RequestLens :
        \/ \E longName \in BOOLEAN : CallTooLong(len, longName)
        \/ \E code \in {BAD_POINTER, BAD_REQUEST} : CallRejected(len, code)
        \/ ListTools(len)
        \/ InvokeMalformed(len)
        \/ \E name \in ToolNames, in \in Inputs :
             InvokeTool(name, in, len) \/ FetchBegin(name, in, len)
        \/ CompleteDenied(len)
        \/ CompleteMalformed(len)
        \/ CompleteBegin(len)
        \/ UnknownCapability(len)
    BY <1>4 DEF GuestCalls
  <2>1. CASE \E longName \in BOOLEAN : CallTooLong(len, longName)
    BY <2>1 DEF CallTooLong, ToolStep
  <2>2. CASE \E code \in {BAD_POINTER, BAD_REQUEST} : CallRejected(len, code)
    BY <2>2 DEF CallRejected, ToolStep
  <2>3. CASE \/ ListTools(len) \/ InvokeMalformed(len) \/ CompleteDenied(len)
             \/ CompleteMalformed(len) \/ CompleteBegin(len)
             \/ UnknownCapability(len)
    BY <2>3 DEF ListTools, InvokeMalformed, CompleteDenied, CompleteMalformed,
                CompleteBegin, UnknownCapability, ToolStep
  <2>4. ASSUME NEW name \in ToolNames, NEW in \in Inputs, InvokeTool(name, in, len)
        PROVE  ToolStep
    BY <2>4, InvokeIsToolStep DEF InvokeTool
  <2>5. ASSUME NEW name \in ToolNames, NEW in \in Inputs, FetchBegin(name, in, len)
        PROVE  ToolStep
    <3>1. Contact(in.url.host) /\ in.url.host \in AllowedHosts
      BY <2>5 DEF FetchBegin, HttpSend, Contact
    <3> QED BY <3>1 DEF ToolStep
  <2> QED BY <2>1, <2>2, <2>3, <2>4, <2>5
<1> QED BY <1>1, <1>2, <1>3, <1>4 DEF HostNext

-----------------------------------------------------------------------------
(***************************************************************************)
(* What any step does to the rest of the host.  A call is answered at      *)
(* once, rejected with a code, or leaves the process; one that left comes  *)
(* back with its answer; or the guest reads.                               *)
(***************************************************************************)
AnsweredAtOnce ==
  /\ Enter
  /\ \E res \in Result : Respond(calls + 1, res)
  /\ UNCHANGED <<llmCalls, at, buffer, delivered, turns>>

Rejected ==
  /\ Enter
  /\ ret' \in Int
  /\ UNCHANGED <<pending, llmCalls, at, buffer, answered, delivered, turns>>

LeavesForModel ==
  /\ Enter
  /\ ~TurnsUsedUp
  /\ at' = "model"
  /\ llmCalls' = llmCalls + 1
  /\ turns' = turns + 1
  /\ UNCHANGED <<pending, ret, buffer, answered, delivered>>

LeavesForWeb ==
  /\ Enter
  /\ at' = "web"
  /\ UNCHANGED <<pending, llmCalls, ret, buffer, answered, delivered, turns>>

ComesBack ==
  /\ at # "guest"
  /\ at' = "guest"
  /\ \E res \in Result : Respond(calls, res)
  /\ UNCHANGED <<llmCalls, buffer, calls, delivered, turns>>

GuestStep == AnsweredAtOnce \/ Rejected \/ LeavesForModel \/ LeavesForWeb

LEMMA HostStepKinds ==
  ASSUME HostNext
  PROVE  GuestStep \/ ComesBack \/ GuestReads
PROOF
<1> USE HostAssumption
<1>0. ToolResult \subseteq Result
  BY DEF ToolResult, Result
<1>1. \A k \in ErrorKinds : Err(k) \in Result
  BY DEF Result
<1>2. Ok(Text) \in Result
  BY DEF Result, Contents
<1>3. CASE WorldAnswers
  <2>1. ASSUME FetchEnd PROVE ComesBack
    BY <2>1, <1>0 DEF FetchEnd, ComesBack
  <2>2. ASSUME NEW res \in Result, CompleteEnd(res) PROVE ComesBack
    BY <2>2 DEF CompleteEnd, ComesBack
  <2>3. \A a \in Answers : Ok(a) \in Result
    BY DEF Result
  <2>4. Err("upstream") \in Result
    BY <1>1 DEF ErrorKinds
  <2> QED BY <1>3, <2>1, <2>2, <2>3, <2>4 DEF WorldAnswers
<1>4. CASE GuestCalls
  <2> PICK len \in RequestLens :
        \/ \E longName \in BOOLEAN : CallTooLong(len, longName)
        \/ \E code \in {BAD_POINTER, BAD_REQUEST} : CallRejected(len, code)
        \/ ListTools(len)
        \/ InvokeMalformed(len)
        \/ \E name \in ToolNames, in \in Inputs :
             InvokeTool(name, in, len) \/ FetchBegin(name, in, len)
        \/ CompleteDenied(len)
        \/ CompleteMalformed(len)
        \/ CompleteBegin(len)
        \/ UnknownCapability(len)
    BY <1>4 DEF GuestCalls
  <2>1. CASE \E longName \in BOOLEAN : CallTooLong(len, longName)
    <3>1. Enter /\ Respond(calls + 1, Err("invalid"))
          /\ UNCHANGED <<llmCalls, at, buffer, delivered, turns>>
      BY <2>1 DEF CallTooLong
    <3> QED BY <3>1, <1>1 DEF AnsweredAtOnce, GuestStep, ErrorKinds
  <2>2. CASE \E code \in {BAD_POINTER, BAD_REQUEST} : CallRejected(len, code)
    BY <2>2 DEF CallRejected, BAD_POINTER, BAD_REQUEST, Rejected, GuestStep
  <2>3. CASE ListTools(len)
    BY <2>3, <1>2 DEF ListTools, AnsweredAtOnce, GuestStep
  <2>4. CASE InvokeMalformed(len)
    BY <2>4, <1>1 DEF InvokeMalformed, AnsweredAtOnce, GuestStep, ErrorKinds
  <2>5. ASSUME NEW name \in ToolNames, NEW in \in Inputs, InvokeTool(name, in, len)
        PROVE  AnsweredAtOnce
    BY <2>5, <1>0 DEF InvokeTool, AnsweredAtOnce
  <2>6. ASSUME NEW name \in ToolNames, NEW in \in Inputs, FetchBegin(name, in, len)
        PROVE  LeavesForWeb
    BY <2>6 DEF FetchBegin, LeavesForWeb
  <2>7. CASE CompleteDenied(len)
    BY <2>7, <1>1 DEF CompleteDenied, AnsweredAtOnce, GuestStep, ErrorKinds
  <2>8. CASE CompleteMalformed(len)
    BY <2>8, <1>1 DEF CompleteMalformed, AnsweredAtOnce, GuestStep, ErrorKinds
  <2>9. CASE CompleteBegin(len)
    BY <2>9 DEF CompleteBegin, LeavesForModel, GuestStep
  <2>10. CASE UnknownCapability(len)
    BY <2>10, <1>1 DEF UnknownCapability, AnsweredAtOnce, GuestStep, ErrorKinds
  <2> QED BY <2>1, <2>2, <2>3, <2>4, <2>5, <2>6, <2>7, <2>8, <2>9, <2>10
          DEF GuestStep
<1> QED BY <1>3, <1>4 DEF HostNext

-----------------------------------------------------------------------------
\* A response put in place is a Response, and its length is positive.
LEMMA RespondType ==
  ASSUME NEW ticket \in Nat, NEW res \in Result, Respond(ticket, res)
  PROVE  pending' \in Response /\ answered' = ticket /\ ret' \in Nat \ {0}
PROOF
BY HostAssumption DEF Respond, Response

LEMMA EmptyType == Empty \in Response
PROOF
BY DEF Empty, Response

\* HostTypeOK without its part about the tools.
CallTypeOK ==
  /\ pending \in Response
  /\ buffer \in Response
  /\ llmCalls \in 0..MaxSteps /\ turns \in Nat
  /\ at \in {"guest", "model", "web"}
  /\ ret \in Int
  /\ calls \in Nat /\ answered \in Nat
  /\ delivered \subseteq Nat

(***************************************************************************)
(* Every state of a run is well typed, whatever the guest calls.           *)
(***************************************************************************)
THEOREM HostTypeCorrect == HostSpec => []HostTypeOK
PROOF
<1>1. ASSUME HostInit PROVE HostTypeOK
  BY <1>1, EmptyType, ToolBoxAssumption, HostAssumption
  DEF HostInit, ToolBoxInit, HostTypeOK, ToolBoxTypeOK
<1>2. ASSUME HostTypeOK, [HostNext]_hostVars PROVE HostTypeOK'
  <2>1. ToolBoxTypeOK'
    <3>1. ToolStep
      BY <1>2, HostStepIsToolStep
    <3>2. CASE UNCHANGED toolVars
      BY <1>2, <3>2 DEF HostTypeOK, ToolBoxTypeOK
    <3>3. ASSUME NEW in \in Inputs, Put(in) PROVE ToolBoxTypeOK'
      <4>1. in \in Input
        BY HostAssumption
      <4>2. in.value \in Values
        BY <3>3, <4>1 DEF Put, Input
      <4> QED BY <1>2, <3>3, <4>2 DEF Put, HostTypeOK, ToolBoxTypeOK
    <3>4. ASSUME NEW host \in AllowedHosts, Contact(host) PROVE ToolBoxTypeOK'
      BY <1>2, <3>4, ToolBoxAssumption DEF Contact, HostTypeOK, ToolBoxTypeOK
    <3> QED BY <3>1, <3>2, <3>3, <3>4 DEF ToolStep
  <2> CallTypeOK
    BY <1>2 DEF HostTypeOK, CallTypeOK
  <2>2. CallTypeOK'
    <3>1. CASE UNCHANGED hostVars
      BY <3>1 DEF CallTypeOK
    <3>2. CASE AnsweredAtOnce
      <4>1. PICK res \in Result : Respond(calls + 1, res)
        BY <3>2 DEF AnsweredAtOnce
      <4>2. calls + 1 \in Nat
        BY DEF CallTypeOK
      <4>3. pending' \in Response /\ answered' = calls + 1 /\ ret' \in Nat \ {0}
        BY <4>1, <4>2, RespondType
      <4> QED BY <3>2, <4>3 DEF AnsweredAtOnce, Enter, CallTypeOK
    <3>3. CASE Rejected
      BY <3>3 DEF Rejected, Enter, CallTypeOK
    <3>4. CASE LeavesForModel \/ LeavesForWeb
      <4>1. UNCHANGED <<pending, buffer, ret, answered, delivered>>
        BY <3>4 DEF LeavesForModel, LeavesForWeb
      <4>2. llmCalls' \in 0..MaxSteps /\ turns' \in Nat
            /\ at' \in {"model", "web"} /\ calls' \in Nat
        BY <3>4, HostAssumption
        DEF LeavesForModel, LeavesForWeb, Enter, TurnsUsedUp, CallTypeOK
      <4> QED BY <4>1, <4>2 DEF CallTypeOK
    <3>5. CASE ComesBack
      <4>1. PICK res \in Result : Respond(calls, res)
        BY <3>5 DEF ComesBack
      <4>2. pending' \in Response /\ answered' = calls /\ ret' \in Nat \ {0}
        BY <4>1, RespondType DEF CallTypeOK
      <4> QED BY <3>5, <4>2 DEF ComesBack, CallTypeOK
    <3>6. CASE GuestReads
      <4>1. PICK len \in ResponseLens \cup {0} :
              ReadWrongLength(len) \/ ReadUnwritable(len) \/ Read(len)
        BY <3>6 DEF GuestReads
      <4>2. CASE ReadWrongLength(len)
        BY <4>2 DEF ReadWrongLength, BAD_REQUEST, CallTypeOK
      <4>3. CASE ReadUnwritable(len)
        BY <4>3, EmptyType DEF ReadUnwritable, BAD_POINTER, CallTypeOK
      <4>4. CASE Read(len)
        <5>1. len \in Int /\ pending.ticket \in Nat
          BY HostAssumption DEF Response, CallTypeOK
        <5> QED BY <4>4, <5>1, EmptyType DEF Read, CallTypeOK
      <4> QED BY <4>1, <4>2, <4>3, <4>4
    <3> QED BY <1>2, <3>1, <3>2, <3>3, <3>4, <3>5, <3>6, HostStepKinds
            DEF GuestStep
  <2> QED BY <2>1, <2>2 DEF HostTypeOK, CallTypeOK
<1> QED BY <1>1, <1>2, PTL DEF HostSpec

-----------------------------------------------------------------------------
(***************************************************************************)
(* The turn limit.  What makes TurnCap inductive is that the counter the   *)
(* host tests is the number of requests handed over.                       *)
(***************************************************************************)
TurnInv ==
  /\ turns \in Nat
  /\ llmCalls = turns
  /\ turns <= MaxSteps

\* No guest makes the host hand over more than max_steps requests.
THEOREM TurnCapHolds == HostSpec => []TurnCap
PROOF
<1> USE HostAssumption
<1>1. ASSUME HostInit PROVE TurnInv
  BY <1>1 DEF HostInit, TurnInv
<1>2. ASSUME TurnInv, [HostNext]_hostVars PROVE TurnInv'
  <2>1. CASE UNCHANGED <<llmCalls, turns>>
    BY <1>2, <2>1 DEF TurnInv
  <2>2. CASE LeavesForModel
    BY <1>2, <2>2 DEF LeavesForModel, TurnsUsedUp, TurnInv
  <2>3. UNCHANGED <<llmCalls, turns>> \/ LeavesForModel
    <3>1. CASE UNCHANGED hostVars
      BY <3>1
    <3>2. CASE GuestStep \/ ComesBack
      BY <3>2 DEF GuestStep, AnsweredAtOnce, Rejected, LeavesForWeb, ComesBack
    <3>3. CASE GuestReads
      BY <3>3 DEF GuestReads, ReadWrongLength, ReadUnwritable, Read
    <3> QED BY <1>2, <3>1, <3>2, <3>3, HostStepKinds
  <2> QED BY <2>1, <2>2, <2>3
<1>3. ASSUME TurnInv PROVE TurnCap
  BY <1>3 DEF TurnInv, TurnCap
<1> QED BY <1>1, <1>2, <1>3, PTL DEF HostSpec

-----------------------------------------------------------------------------
(***************************************************************************)
(* The response buffer.  Tickets are handed out in order, a call that is   *)
(* under way has not been answered, and nothing is delivered before it is  *)
(* answered; so a new answer is newer than everything delivered.           *)
(***************************************************************************)
BufferInv ==
  /\ HostTypeOK
  /\ answered <= calls
  /\ at # "guest" => answered < calls
  /\ delivered \subseteq 1..answered
  /\ PendingIsLatestUnread

\* Putting the answer of an unanswered call in place keeps the invariant.
LEMMA RespondKeepsBufferInv ==
  ASSUME BufferInv, HostTypeOK', NEW ticket \in Nat, NEW res,
         answered < ticket, ticket = calls', Respond(ticket, res),
         at' = "guest", delivered' = delivered
  PROVE  BufferInv'
PROOF
<1>1. pending'.ticket = ticket /\ answered' = ticket
  BY DEF Respond
<1>2. answered \in Nat /\ delivered \subseteq 1..answered
  BY DEF BufferInv, HostTypeOK
<1>3. delivered' \subseteq 1..answered' /\ ticket \notin delivered'
  BY <1>1, <1>2
<1>4. PendingIsLatestUnread'
  BY <1>1, <1>3 DEF PendingIsLatestUnread
<1> QED BY <1>1, <1>3, <1>4 DEF BufferInv, HostTypeOK

\* What waits to be read is the latest answer, and has not been read before.
THEOREM PendingIsLatestUnreadHolds == HostSpec => []PendingIsLatestUnread
PROOF
<1>1. ASSUME HostInit, HostTypeOK PROVE BufferInv
  BY <1>1 DEF HostInit, BufferInv, PendingIsLatestUnread
<1>2. ASSUME BufferInv, HostTypeOK', [HostNext]_hostVars PROVE BufferInv'
  <2>0. /\ answered \in Nat /\ calls \in Nat /\ pending \in Response
        /\ at \in {"guest", "model", "web"}
    BY <1>2 DEF BufferInv, HostTypeOK
  <2>1. CASE UNCHANGED hostVars
    BY <1>2, <2>1 DEF BufferInv, PendingIsLatestUnread
  <2>2. CASE AnsweredAtOnce
    <3>1. PICK res \in Result : Respond(calls + 1, res)
      BY <2>2 DEF AnsweredAtOnce
    <3>2. /\ calls' = calls + 1 /\ at' = "guest" /\ delivered' = delivered
          /\ answered < calls + 1
      BY <1>2, <2>0, <2>2 DEF AnsweredAtOnce, Enter, BufferInv
    <3> QED BY <1>2, <2>0, <3>1, <3>2, RespondKeepsBufferInv
  <2>3. CASE Rejected \/ LeavesForModel \/ LeavesForWeb
    <3>1. /\ calls' = calls + 1 /\ answered < calls'
          /\ UNCHANGED <<pending, answered, delivered>>
      BY <1>2, <2>0, <2>3
      DEF Rejected, LeavesForModel, LeavesForWeb, Enter, BufferInv
    <3> QED BY <1>2, <2>0, <3>1 DEF BufferInv, PendingIsLatestUnread
  <2>4. CASE ComesBack
    <3>1. PICK res \in Result : Respond(calls, res)
      BY <2>4 DEF ComesBack
    <3>2. /\ calls' = calls /\ at' = "guest" /\ delivered' = delivered
          /\ answered < calls
      BY <1>2, <2>4 DEF ComesBack, BufferInv
    <3> QED BY <1>2, <2>0, <3>1, <3>2, RespondKeepsBufferInv
  <2>5. CASE GuestReads
    <3>1. PICK len \in ResponseLens \cup {0} :
            ReadWrongLength(len) \/ ReadUnwritable(len) \/ Read(len)
      BY <2>5 DEF GuestReads
    <3>2. CASE ReadWrongLength(len)
      BY <1>2, <3>2 DEF ReadWrongLength, BufferInv, PendingIsLatestUnread
    <3>3. CASE ReadUnwritable(len)
      BY <1>2, <3>3 DEF ReadUnwritable, BufferInv, PendingIsLatestUnread
    <3>4. CASE Read(len)
      <4>1. /\ UNCHANGED <<at, calls, answered>> /\ pending' = Empty
            /\ delivered' = delivered \cup ({pending.ticket} \ {0})
        BY <3>4 DEF Read
      <4>2. {pending.ticket} \ {0} \subseteq 1..answered
        BY <1>2, <2>0 DEF BufferInv, PendingIsLatestUnread, Empty, Response
      <4> QED BY <1>2, <4>1, <4>2 DEF BufferInv, PendingIsLatestUnread
    <3> QED BY <3>1, <3>2, <3>3, <3>4
  <2> QED BY <1>2, <2>1, <2>2, <2>3, <2>4, <2>5, HostStepKinds DEF GuestStep
<1>3. ASSUME BufferInv PROVE PendingIsLatestUnread
  BY <1>3 DEF BufferInv
<1> QED BY <1>1, <1>2, <1>3, HostTypeCorrect, PTL DEF HostSpec

-----------------------------------------------------------------------------
(***************************************************************************)
(* Whatever the guest calls, only allowed hosts are contacted, and neither *)
(* effect appears unless the policy enables its tool.                      *)
(***************************************************************************)
THEOREM EffectsAuthorizedHolds == HostSpec => []EffectsAuthorized
PROOF
<1>1. ASSUME HostInit PROVE EffectsAuthorized
  BY <1>1 DEF HostInit, ToolBoxInit, EffectsAuthorized, Stored
<1>2. ASSUME EffectsAuthorized, ToolStep PROVE EffectsAuthorized'
  <2>1. CASE UNCHANGED toolVars
    BY <1>2, <2>1 DEF EffectsAuthorized, Stored
  <2>2. CASE \E in \in Inputs : Put(in)
    BY <1>2, <2>2 DEF Put, EffectsAuthorized
  <2>3. CASE \E host \in AllowedHosts : Contact(host)
    BY <1>2, <2>3 DEF Contact, EffectsAuthorized, Stored
  <2> QED BY <1>2, <2>1, <2>2, <2>3 DEF ToolStep
<1> QED BY <1>1, <1>2, HostStepIsToolStep, PTL DEF HostSpec

(***************************************************************************)
(* The scratchpad stays within its limits.  Cardinality needs to know that *)
(* the stored keys are finitely many, which the set of all keys may not be.*)
(***************************************************************************)
ScratchpadInv ==
  /\ ToolBoxTypeOK
  /\ IsFiniteSet(Stored)
  /\ ScratchpadBounded

\* A put that is not refused keeps the scratchpad within its limits.
LEMMA PutKeepsScratchpad ==
  ASSUME ScratchpadInv, NEW in \in Inputs, Put(in), ToolBoxTypeOK'
  PROVE  ScratchpadInv'
PROOF
<1>1. in.key \in Keys /\ in.value \in Values /\ in.value # Missing
  BY HostAssumption DEF Put, Input
<1>2. kv \in [Keys -> Values \cup {Missing}]
  BY DEF ScratchpadInv, ToolBoxTypeOK
<1>3. kv' = [kv EXCEPT ![in.key] = in.value]
  BY DEF Put
<1>4. Stored' = Stored \cup {in.key}
  BY <1>1, <1>2, <1>3 DEF Stored
<1>5. /\ IsFiniteSet(Stored')
      /\ Cardinality(Stored') = IF in.key \in Stored THEN Cardinality(Stored)
                                ELSE Cardinality(Stored) + 1
  BY <1>4, FS_AddElement DEF ScratchpadInv
<1>6. Cardinality(Stored) \in Nat
  BY FS_CardinalityType DEF ScratchpadInv
<1>7. Cardinality(Stored') <= MaxKeys
  BY <1>5, <1>6, ToolBoxAssumption DEF Put, KvRefuses, ScratchpadInv, ScratchpadBounded
<1>8. ByteLen[in.value] <= MaxValueBytes
  BY <1>1, ToolBoxAssumption DEF Put, KvRefuses
<1>9. ASSUME NEW k \in Stored' PROVE ByteLen[kv'[k]] <= MaxValueBytes
  <2>1. CASE k = in.key
    BY <1>1, <1>2, <1>3, <1>8, <2>1
  <2>2. CASE k # in.key
    <3>1. k \in Stored /\ kv'[k] = kv[k]
      BY <1>2, <1>3, <1>4, <2>2 DEF Stored
    <3> QED BY <3>1 DEF ScratchpadInv, ScratchpadBounded
  <2> QED BY <2>1, <2>2
<1> QED BY <1>5, <1>7, <1>9 DEF ScratchpadInv, ScratchpadBounded

\* No sequence of puts takes the scratchpad past max_keys or max_value_bytes.
THEOREM ScratchpadBoundedHolds == HostSpec => []ScratchpadBounded
PROOF
<1>1. ASSUME HostInit, HostTypeOK PROVE ScratchpadInv
  <2>1. Stored = {}
    BY <1>1 DEF HostInit, ToolBoxInit, Stored
  <2> QED BY <1>1, <2>1, FS_EmptySet, ToolBoxAssumption
          DEF HostTypeOK, ScratchpadInv, ScratchpadBounded
<1>2. ASSUME ScratchpadInv, HostTypeOK', ToolStep PROVE ScratchpadInv'
  <2>1. CASE UNCHANGED kv
    <3>1. Stored' = Stored
      BY <2>1 DEF Stored
    <3> QED BY <1>2, <2>1, <3>1 DEF ScratchpadInv, ScratchpadBounded, HostTypeOK
  <2>2. CASE \E in \in Inputs : Put(in)
    BY <1>2, <2>2, PutKeepsScratchpad DEF HostTypeOK
  <2> QED BY <1>2, <2>1, <2>2 DEF ToolStep, Contact
<1>3. ASSUME ScratchpadInv PROVE ScratchpadBounded
  BY <1>3 DEF ScratchpadInv
<1> QED BY <1>1, <1>2, <1>3, HostStepIsToolStep, HostTypeCorrect, PTL
        DEF HostSpec

-----------------------------------------------------------------------------
\* A tool that refuses leaves no trace.
LEMMA RefusedToolHasNoEffect ==
  ASSUME NEW name, NEW in \in Inputs, NEW res, InvokeAtOnce(name, in, res),
         res.kind \in {"denied", "invalid", "not_found"}
  PROVE  UNCHANGED toolVars
PROOF
<1>1. CASE ToolDenied(name, res) \/ Now(name, res) \/ KvGet(name, in, res)
           \/ HttpRefused(name, in, res)
  BY <1>1 DEF ToolDenied, Now, KvGet, HttpRefused
<1>2. CASE KvPut(name, in, res)
  BY <1>2 DEF KvPut, Ok
<1> QED BY <1>1, <1>2 DEF InvokeAtOnce

\* A call the host refuses changes neither the tools nor the turn count.
THEOREM DenialHasNoEffectHolds == HostSpec => DenialHasNoEffect
PROOF
<1> DEFINE Refusal ==
      \/ at' = "guest" /\ ret' < 0
      \/ pending'.ticket # pending.ticket
         /\ pending'.res.kind \in {"denied", "invalid", "not_found"}
<1> USE HostAssumption
<1>1. ASSUME [HostNext]_hostVars, Refusal
      PROVE  UNCHANGED <<kv, contacted, llmCalls, turns>>
  <2>1. CASE UNCHANGED hostVars
    BY <2>1
  <2>2. CASE GuestReads
    BY <2>2 DEF GuestReads, ReadWrongLength, ReadUnwritable, Read
  <2>3. CASE WorldAnswers
    <3>1. ASSUME FetchEnd PROVE UNCHANGED <<toolVars, llmCalls, turns>>
      BY <3>1 DEF FetchEnd, HttpReply
    <3>2. ASSUME NEW res, CompleteEnd(res)
          PROVE  UNCHANGED <<toolVars, llmCalls, turns>>
      BY <3>2 DEF CompleteEnd
    <3> QED BY <2>3, <3>1, <3>2 DEF WorldAnswers
  <2>4. CASE GuestCalls
    <3> PICK len \in RequestLens :
          \/ \E longName \in BOOLEAN : CallTooLong(len, longName)
          \/ \E code \in {BAD_POINTER, BAD_REQUEST} : CallRejected(len, code)
          \/ ListTools(len)
          \/ InvokeMalformed(len)
          \/ \E name \in ToolNames, in \in Inputs :
               InvokeTool(name, in, len) \/ FetchBegin(name, in, len)
          \/ CompleteDenied(len)
          \/ CompleteMalformed(len)
          \/ CompleteBegin(len)
          \/ UnknownCapability(len)
      BY <2>4 DEF GuestCalls
    <3>1. CASE \E longName \in BOOLEAN : CallTooLong(len, longName)
      BY <3>1 DEF CallTooLong
    <3>2. CASE \E code \in {BAD_POINTER, BAD_REQUEST} : CallRejected(len, code)
      BY <3>2 DEF CallRejected
    <3>3. CASE \/ ListTools(len) \/ InvokeMalformed(len) \/ CompleteDenied(len)
               \/ CompleteMalformed(len) \/ UnknownCapability(len)
      BY <3>3 DEF ListTools, InvokeMalformed, CompleteDenied, CompleteMalformed,
                  UnknownCapability
    <3>4. ASSUME NEW name \in ToolNames, NEW in \in Inputs, InvokeTool(name, in, len)
          PROVE  UNCHANGED <<kv, contacted, llmCalls, turns>>
      <4>1. PICK res \in ToolResult :
              InvokeAtOnce(name, in, res) /\ Respond(calls + 1, res)
        BY <3>4 DEF InvokeTool
      <4>2. pending'.res = res /\ ret' \in Nat
        BY <4>1 DEF Respond
      <4>3. ~(ret' < 0)
        BY <4>2
      <4>4. res.kind \in {"denied", "invalid", "not_found"}
        BY <1>1, <4>2, <4>3
      <4>5. UNCHANGED toolVars
        BY <4>1, <4>4, RefusedToolHasNoEffect
      <4> QED BY <3>4, <4>5 DEF InvokeTool
    <3>5. ASSUME NEW name \in ToolNames, NEW in \in Inputs, FetchBegin(name, in, len)
          PROVE  FALSE
      BY <1>1, <3>5 DEF FetchBegin
    <3>6. CASE CompleteBegin(len)
      BY <1>1, <3>6 DEF CompleteBegin
    <3> QED BY <3>1, <3>2, <3>3, <3>4, <3>5, <3>6
  <2> QED BY <1>1, <2>1, <2>2, <2>3, <2>4 DEF HostNext
<1> QED BY <1>1, PTL DEF HostSpec, DenialHasNoEffect, Refusal

=============================================================================
