------------------------------ MODULE RunProofs ------------------------------
(***************************************************************************)
(* Theorems about CompleteRun, a run with its log and its model, for every *)
(* policy, model, caller and task.  A complete run is a run of AgentRun,   *)
(* so that the theorems of AgentRunProofs hold of it.                      *)
(***************************************************************************)
EXTENDS CompleteRun, AgentRunProofs, SequenceFacts

USE DEF vars, agentOnly, loopVars, hostVars, hostOnly, toolVars, logVars, runVars

-----------------------------------------------------------------------------
\* A step of a complete run is one of the run in it.
LEMMA StepOfRun ==
  ASSUME [RunNext]_runVars
  PROVE  [Next]_vars
PROOF
BY DEF RunNext, Proceeds, Speaks, Silent, Stopped, Next

(***************************************************************************)
(* The log and the model a policy names take nothing from the run and add  *)
(* nothing to it: what is proved of AgentRun is proved of CompleteRun.     *)
(***************************************************************************)
THEOREM RunImplementsAgent == RunSpec => Spec
PROOF
<1>1. ASSUME RunInit PROVE Init
  BY <1>1 DEF RunInit, LoggedInit
<1> QED BY <1>1, StepOfRun, PTL DEF RunSpec, Spec

\* What every state of a run satisfies, together.
AgentInv == ControlInv /\ HistoryInv /\ DataInv

\* The invariants of AgentRunProofs hold of every run.
LEMMA AgentInvHolds == Spec => []AgentInv
PROOF
BY ControlInvHolds, HistoryInvHolds, DataInvHolds, PTL DEF AgentInv

-----------------------------------------------------------------------------
(***************************************************************************)
(* VerdictsPassedOn.  The verdicts in the conversation and those collected *)
(* in this turn are, in this order, the verdicts in the agent's record;    *)
(* and the record is what the host answered, as BooksInv says.             *)
(***************************************************************************)
VerdictInv ==
  /\ pc \in {"boot", "alloc", "list", "list_read"} => record = <<>>
  /\ pc \in {"ask", "ask_read"} => Told(messages) = Verdicts(record)
  /\ pc \in {"tool", "tool_read"} =>
       Told(messages) \o Verdicts(results) = Verdicts(record)

\* Verdicts are Booleans, one for each answer, in their order.
LEMMA VerdictsShape ==
  ASSUME NEW S, \A a \in S : a.ok \in BOOLEAN, NEW s \in Seq(S)
  PROVE  /\ Verdicts(s) \in Seq(BOOLEAN)
         /\ \A e \in S : Verdicts(Append(s, e)) = Append(Verdicts(s), e.ok)
PROOF
<1> DEFINE n == Len(s)
<1>1. n \in Nat /\ DOMAIN s = 1..n /\ \A i \in 1..n : s[i] \in S
  OBVIOUS
<1>2. Verdicts(s) = [i \in 1..n |-> s[i].ok]
  BY <1>1 DEF Verdicts
<1>3. Verdicts(s) \in Seq(BOOLEAN)
  <2>1. [i \in 1..n |-> s[i].ok] \in [1..n -> BOOLEAN]
    BY <1>1
  <2>2. [1..n -> BOOLEAN] \subseteq Seq(BOOLEAN)
    BY <1>1
  <2> QED BY <1>2, <2>1, <2>2
<1>4. ASSUME NEW e \in S
      PROVE  Verdicts(Append(s, e)) = Append(Verdicts(s), e.ok)
  <2> DEFINE longer == Append(s, e)
  <2>1. /\ DOMAIN longer = 1..(n + 1) /\ longer[n + 1] = e
        /\ \A i \in 1..n : longer[i] = s[i]
    OBVIOUS
  <2> HIDE DEF longer
  <2>2. Verdicts(longer) = [i \in 1..(n + 1) |-> IF i = n + 1 THEN e.ok ELSE s[i].ok]
    BY <1>1, <2>1 DEF Verdicts
  <2>3. Append(Verdicts(s), e.ok)
          = [i \in 1..(n + 1) |-> IF i = n + 1 THEN e.ok ELSE s[i].ok]
    BY <1>1, <1>2
  <2> QED BY <2>2, <2>3 DEF longer
<1> QED BY <1>3, <1>4

\* One message more tells the verdicts of its results in addition.
LEMMA ToldAppend ==
  ASSUME NEW ms \in Seq(Message), NEW msg \in Message
  PROVE  /\ Told(ms) \in Seq(BOOLEAN)
         /\ Told(Append(ms, msg)) = Told(ms) \o Verdicts(msg.results)
PROOF
<1> DEFINE n == Len(ms)
           Q == Seq(BOOLEAN)
           told == [i \in 1..n |-> Verdicts(ms[i].results)]
           longer == Append(ms, msg)
           toldLonger == [i \in 1..(n + 1) |-> Verdicts(longer[i].results)]
<1>1. \A m \in Message : Verdicts(m.results) \in Seq(BOOLEAN)
  <2>1. ASSUME NEW m \in Message PROVE Verdicts(m.results) \in Seq(BOOLEAN)
    <3>1. m.results \in Seq(ToolResultBlock)
      BY DEF Message, ToolResultBlock
    <3>2. \A r \in ToolResultBlock : r.ok \in BOOLEAN
      BY DEF ToolResultBlock
    <3> QED BY <3>1, <3>2, VerdictsShape
  <2> QED BY <2>1
<1>2. /\ n \in Nat /\ DOMAIN ms = 1..n /\ \A i \in 1..n : ms[i] \in Message
      /\ DOMAIN longer = 1..(n + 1) /\ longer[n + 1] = msg
      /\ \A i \in 1..n : longer[i] = ms[i]
  OBVIOUS
<1>3. told \in Seq(Q)
  <2>1. told \in [1..n -> Q]
    BY <1>1, <1>2
  <2> HIDE DEF told, Q
  <2> QED BY <1>2, <2>1
<1> HIDE DEF longer
<1>4. toldLonger = Append(told, Verdicts(msg.results))
  <2>1. Append(told, Verdicts(msg.results))
          = [i \in 1..(n + 1) |->
               IF i = n + 1 THEN Verdicts(msg.results) ELSE Verdicts(ms[i].results)]
    BY <1>2
  <2> QED BY <1>2, <2>1
<1>5. Told(ms) = FlattenSeq(told) /\ Told(longer) = FlattenSeq(toldLonger)
  BY <1>2 DEF Told
<1> HIDE DEF told, toldLonger
<1>6. FlattenSeq(told) \in Seq(BOOLEAN)
  BY <1>3, FlattenType
<1>7. FlattenSeq(toldLonger) = FlattenSeq(told) \o Verdicts(msg.results)
  BY <1>1, <1>3, <1>4, FlattenAppend
<1> QED BY <1>5, <1>6, <1>7 DEF longer

\* A message without results tells nothing.
LEMMA NothingTold ==
  ASSUME NEW ms \in Seq(Message), NEW msg \in Message, msg.results = <<>>
  PROVE  Told(Append(ms, msg)) = Told(ms)
PROOF
<1>1. Verdicts(msg.results) = <<>>
  BY DEF Verdicts
<1>2. \A t \in Seq(BOOLEAN) : t \o <<>> = t
  OBVIOUS
<1> QED BY <1>1, <1>2, ToldAppend

\* The task, with or without its context, carries no verdict.
LEMMA ConversationStarts ==
  /\ UserText \in Message /\ UserText.results = <<>>
  /\ Told(<<UserText>>) = <<>> /\ Told(<<UserText, UserText>>) = <<>>
PROOF
<1>1. UserText \in Message /\ UserText.results = <<>>
  <2>1. <<>> \in Seq(Ids) /\ <<>> \in Seq([id : Ids, ok : BOOLEAN])
    OBVIOUS
  <2> QED BY <2>1 DEF UserText, Message
<1>2. Told(<<>>) = <<>>
  BY DEF Told, FlattenSeq
<1>3. /\ <<>> \in Seq(Message) /\ <<UserText>> \in Seq(Message)
      /\ <<UserText>> = Append(<<>>, UserText)
      /\ <<UserText, UserText>> = Append(<<UserText>>, UserText)
  BY <1>1
<1>4. Told(<<UserText>>) = <<>>
  BY <1>1, <1>2, <1>3, NothingTold
<1>5. Told(<<UserText, UserText>>) = <<>>
  BY <1>1, <1>3, <1>4, NothingTold
<1> QED BY <1>1, <1>4, <1>5

\* One turn of the tool loop: the verdict goes to the record and the results.
LEMMA VerdictCollected ==
  ASSUME AgentInv, NEW ok \in BOOLEAN, ToolAnswered(ok),
         Told(messages) \o Verdicts(results) = Verdicts(record)
  PROVE  Told(messages) \o Verdicts(results') = Verdicts(record')
PROOF
<1>1. /\ messages \in Seq(Message) /\ results \in Seq(ToolResultBlock)
      /\ record \in Seq(CallRecord) /\ step \in Nat /\ Head(queue) \in Use
  BY QueueShape DEF AgentInv, DataInv, ControlInv, QueueInv, CountInv, ToolAnswered
<1> DEFINE result == [id |-> Head(queue).id, ok |-> ok]
           call == Call(Head(queue), ok)
<1>2. result \in ToolResultBlock /\ result.ok = ok
  BY <1>1 DEF ToolResultBlock, Use
<1>3. call \in CallRecord /\ call.ok = ok
  BY <1>1, CallShape DEF Call
<1>4. results' = Append(results, result) /\ record' = Append(record, call)
  BY DEF ToolAnswered
<1>5. /\ Verdicts(results) \in Seq(BOOLEAN)
      /\ Verdicts(results') = Append(Verdicts(results), ok)
  <2>1. \A r \in ToolResultBlock : r.ok \in BOOLEAN
    BY DEF ToolResultBlock
  <2> HIDE DEF result
  <2> QED BY <1>1, <1>2, <1>4, <2>1, VerdictsShape
<1>6. Verdicts(record') = Append(Verdicts(record), ok)
  <2>1. \A c \in CallRecord : c.ok \in BOOLEAN
    BY DEF CallRecord
  <2> HIDE DEF call
  <2> QED BY <1>1, <1>3, <1>4, <2>1, VerdictsShape
<1>7. Told(messages) \in Seq(BOOLEAN)
  <2>1. UserText \in Message
    BY ConversationStarts
  <2> QED BY <1>1, <2>1, ToldAppend
<1>8. \A t, v \in Seq(BOOLEAN) : t \o Append(v, ok) = Append(t \o v, ok)
  OBVIOUS
<1> QED BY <1>5, <1>6, <1>7, <1>8

\* Every step of a run keeps VerdictInv.
LEMMA NextVerdict ==
  ASSUME AgentInv, AgentInv', VerdictInv, [Next]_vars
  PROVE  VerdictInv'
PROOF
<1>1. messages \in Seq(Message) /\ Told(messages) \in Seq(BOOLEAN)
  <2>1. messages \in Seq(Message) /\ UserText \in Message
    BY ConversationStarts DEF AgentInv, DataInv
  <2> QED BY <2>1, ToldAppend
<1>2. CASE pc' \in {"free_input", "free_output", "reported", "failed"}
  BY <1>2 DEF VerdictInv
<1>3. CASE \/ Trap \/ AskFailed \/ Refused \/ Completed \/ StepLimit \/ FreeInput
           \/ EmptyOutput \/ FreeOutput \/ BootFails
  BY <1>2, <1>3 DEF Trap, HostReport, AskFailed, Refused, Completed, StepLimit,
                    Finish, FreeInput, EmptyOutput, FreeOutput, BootFails
<1>4. CASE Boot \/ AllocInput \/ CallList
  <2>1. /\ pc \in {"boot", "alloc", "list"} /\ pc' \in {"alloc", "list", "list_read"}
        /\ record' = record
    BY <1>4 DEF Boot, AllocInput, CallList
  <2> QED BY <2>1 DEF VerdictInv
<1>5. CASE \/ UNCHANGED vars \/ CallModel \/ CallTool \/ WebAnswers
           \/ (\E a \in Answers : ModelAnswers(a)) \/ ModelFails
  <2>1. /\ UNCHANGED <<messages, results, record>>
        /\ pc \in {"ask", "ask_read"} <=> pc' \in {"ask", "ask_read"}
        /\ pc \in {"tool", "tool_read"} <=> pc' \in {"tool", "tool_read"}
        /\ pc' \in {"boot", "alloc", "list", "list_read"} <=>
             pc \in {"boot", "alloc", "list", "list_read"}
    BY <1>5 DEF CallModel, ModelAnswers, ModelFails, CallTool, WebAnswers
  <2> QED BY <2>1 DEF VerdictInv
<1>6. CASE ReadList
  <2>1. /\ pc = "list_read" /\ pc' = "ask" /\ record' = record
        /\ messages' \in {<<UserText>>, <<UserText, UserText>>}
    BY <1>6 DEF ReadList
  <2>2. Told(messages') = <<>> /\ record' = <<>>
    BY <2>1, ConversationStarts DEF VerdictInv
  <2>3. Verdicts(record') = <<>>
    BY <2>2 DEF Verdicts
  <2> QED BY <2>1, <2>2, <2>3 DEF VerdictInv
<1>7. CASE ToolsRequested
  <2>1. /\ pc = "ask_read" /\ pc' = "tool" /\ record' = record /\ results' = <<>>
        /\ messages' = Append(messages, AssistantTurn(pending.res.body.uses))
        /\ pending.res.kind = "ok" /\ at = "guest"
    BY <1>7 DEF ToolsRequested, ReadAnswer, Read
  <2>2. pending.res.body.uses \in Seq(Use)
    <3>1. pending.res.body \in Answer
      BY <2>1, AgentAssumption DEF AgentInv, ControlInv, QueueInv
    <3> QED BY <3>1 DEF Answer
  <2>3. Told(messages') = Told(messages)
    <3>1. /\ AssistantTurn(pending.res.body.uses) \in Message
          /\ AssistantTurn(pending.res.body.uses).results = <<>>
      BY <2>2, TurnShape DEF AssistantTurn
    <3> QED BY <1>1, <2>1, <3>1, NothingTold
  <2>4. Verdicts(results') = <<>>
    BY <2>1 DEF Verdicts
  <2>5. \A t \in Seq(BOOLEAN) : t \o <<>> = t
    OBVIOUS
  <2> QED BY <1>1, <2>1, <2>3, <2>4, <2>5 DEF VerdictInv
<1>8. CASE ReadTool
  <2>1. PICK ok \in BOOLEAN : ToolAnswered(ok)
    BY <1>8 DEF ReadTool
  <2>2. pc = "tool_read" /\ pc' = "tool" /\ messages' = messages
    BY <1>8, <2>1 DEF ReadTool, ToolAnswered
  <2>3. Told(messages) \o Verdicts(results') = Verdicts(record')
    BY <2>1, <2>2, VerdictCollected DEF VerdictInv
  <2> QED BY <2>2, <2>3 DEF VerdictInv
<1>9. CASE AskAgain
  <2>1. PICK ok \in BOOLEAN : ToolAnswered(ok)
    BY <1>9 DEF AskAgain
  <2>2. /\ pc = "tool_read" /\ pc' = "ask"
        /\ messages' = Append(messages, ToolResults(results'))
    BY <1>9, <2>1 DEF AskAgain, ToolAnswered
  <2>3. Told(messages) \o Verdicts(results') = Verdicts(record')
    BY <2>1, <2>2, VerdictCollected DEF VerdictInv
  <2>4. /\ ToolResults(results') \in Message
        /\ ToolResults(results').results = results'
    <3>1. results' \in Seq(ToolResultBlock)
      BY DEF AgentInv, DataInv
    <3> QED BY <3>1, ResultsShape DEF ToolResults
  <2>5. Told(messages') = Told(messages) \o Verdicts(results')
    BY <1>1, <2>2, <2>4, ToldAppend
  <2> QED BY <2>2, <2>3, <2>5 DEF VerdictInv
<1> QED BY <1>3, <1>4, <1>5, <1>6, <1>7, <1>8, <1>9 DEF Next, Progress

\* Verdicts are passed on in every state of a run.
LEMMA VerdictInvHolds == Spec => []VerdictInv
PROOF
<1>1. ASSUME Init PROVE VerdictInv
  BY <1>1 DEF Init, VerdictInv
<1> QED BY <1>1, NextVerdict, AgentInvHolds, PTL DEF Spec

(***************************************************************************)
(* Whatever the model asks for over a run, it is told the host's verdict   *)
(* on every call, in order, refused calls included.                        *)
(***************************************************************************)
THEOREM VerdictsPassedOnHolds == Spec => []VerdictsPassedOn
PROOF
<1>1. ASSUME AgentInv, VerdictInv PROVE VerdictsPassedOn
  BY <1>1 DEF AgentInv, HistoryInv, BooksInv, VerdictInv, VerdictsPassedOn
<1> QED BY <1>1, AgentInvHolds, VerdictInvHolds, PTL

-----------------------------------------------------------------------------
(***************************************************************************)
(* The log.  Of lines from S, the host has kept the first ones of those it *)
(* has traced, as many as there is room for.                               *)
(***************************************************************************)
LogInv(S) ==
  /\ logs \in Seq(S) /\ traced \in Seq(S)
  /\ Len(logs) <= MaxLines /\ Len(logs) <= Len(traced)
  /\ \A i \in 1..Len(logs) : logs[i] = traced[i]
  /\ Len(logs) < MaxLines => Len(logs) = Len(traced)

\* A log begins empty.
LEMMA InitLog == ASSUME NEW S, LogInit PROVE LogInv(S)
PROOF
<1>1. <<>> \in Seq(S) /\ Len(<<>>) = 0 /\ 0 <= MaxLines
  BY LogAssumption
<1> QED BY <1>1 DEF LogInit, LogInv

\* However many lines come at once, LogInv is kept.
LEMMA EmitKeepsLog ==
  ASSUME NEW S, LogInv(S), NEW lines \in Seq(S), Emit(lines)
  PROVE  LogInv(S)'
PROOF
<1> DEFINE all == logs \o lines
           l == Len(logs)
           t == Len(traced)
           n == Len(lines)
           m == Min({MaxLines, Len(all)})
<1>1. /\ logs \in Seq(S) /\ traced \in Seq(S) /\ l \in Nat /\ t \in Nat /\ n \in Nat
      /\ l <= MaxLines /\ l <= t /\ MaxLines \in Nat
      /\ \A i \in 1..l : logs[i] = traced[i]
      /\ l < MaxLines => l = t
  BY LogAssumption DEF LogInv
<1>2. /\ all \in Seq(S) /\ Len(all) = l + n
      /\ \A i \in 1..(l + n) : all[i] = IF i <= l THEN logs[i] ELSE lines[i - l]
  BY <1>1
<1>3. /\ traced' \in Seq(S) /\ Len(traced') = t + n
      /\ \A i \in 1..(t + n) :
           traced'[i] = IF i <= t THEN traced[i] ELSE lines[i - t]
  BY <1>1 DEF Emit
<1>4. m \in Nat /\ m <= MaxLines /\ m <= l + n /\ (m = MaxLines \/ m = l + n)
  <2>1. l + n \in Nat /\ m = Min({MaxLines, l + n})
    BY <1>1, <1>2
  <2> HIDE DEF m, l, n
  <2>2. m = IF MaxLines <= l + n THEN MaxLines ELSE l + n
    BY <1>1, <2>1, MinOfTwo
  <2> QED BY <1>1, <2>1, <2>2
<1>5. logs' = SubSeq(all, 1, m)
  BY DEF Emit
<1> HIDE DEF all, m, l, t, n
<1>6. /\ logs' \in Seq(S) /\ Len(logs') = m
      /\ \A i \in 1..m : logs'[i] = all[i]
  <2>1. m \in 0..Len(all)
    BY <1>1, <1>2, <1>4
  <2>2. \A i \in 1..m : i \in 1..Len(all) /\ all[i] \in S
    BY <1>2, <2>1
  <2>3. /\ SubSeq(all, 1, m) \in Seq(S) /\ Len(SubSeq(all, 1, m)) = m
        /\ \A i \in 1..m : SubSeq(all, 1, m)[i] = all[i]
    BY <1>2, <2>1, <2>2
  <2> QED BY <1>5, <2>3
<1>7. \A i \in 1..m : logs'[i] = traced'[i]
  <2>1. ASSUME NEW i \in 1..m PROVE all[i] = traced'[i]
    <3>1. i \in 1..(l + n) /\ i \in 1..(t + n)
      BY <1>1, <1>4
    <3>2. CASE i <= l
      <4>1. i \in 1..l /\ i <= t
        BY <1>1, <3>1, <3>2
      <4>2. all[i] = logs[i]
        BY <1>2, <3>1, <3>2
      <4>3. traced'[i] = traced[i]
        BY <1>3, <3>1, <4>1
      <4> QED BY <1>1, <4>1, <4>2, <4>3
    <3>3. CASE ~(i <= l)
      <4>1. l = t
        BY <1>1, <1>4, <3>3
      <4>2. all[i] = lines[i - l]
        BY <1>2, <3>1, <3>3
      <4>3. traced'[i] = lines[i - t]
        BY <1>3, <3>1, <3>3, <4>1
      <4> QED BY <4>1, <4>2, <4>3
    <3> QED BY <3>2, <3>3
  <2> QED BY <1>6, <2>1
<1>8. /\ m <= MaxLines /\ m <= t + n
      /\ m < MaxLines => m = t + n
  BY <1>1, <1>4
<1> QED BY <1>3, <1>6, <1>7, <1>8 DEF LogInv

\* LogInv says what LogIsBeginning does.
LEMMA LogInvBeginning ==
  ASSUME NEW S, LogInv(S)
  PROVE  LogIsBeginning
PROOF
<1>1. /\ logs \in Seq(S) /\ traced \in Seq(S)
      /\ Len(logs) \in Nat /\ Len(traced) \in Nat /\ Len(logs) <= Len(traced)
      /\ \A i \in 1..Len(logs) : logs[i] = traced[i]
  BY DEF LogInv
<1>2. IsPrefix(logs, traced)
  BY <1>1, PrefixIs
<1>3. Len(logs) = Len(traced) => logs = traced
  BY <1>1, SeqEqual
<1> QED BY <1>2, <1>3 DEF LogInv, LogIsBeginning

-----------------------------------------------------------------------------
\* The width of one unit, where one that is no character is w wide.
UnitWidth(unit, w) == IF unit = Invalid THEN w ELSE unit

\* The sum over a message is a recursion over its units.
LEMMA SumStages ==
  ASSUME NEW message \in Seq(Unit), NEW w \in Nat
  PROVE  \E f : /\ Sum(message, w) = f[1..Len(message)]
                /\ f[{}] = 0
                /\ \A k \in 1..Len(message) :
                     f[1..k] = f[1..(k - 1)] + UnitWidth(message[k], w)
PROOF
<1> DEFINE n == Len(message)
           F == [p \in Nat \X (1..n) |-> p[1] + UnitWidth(message[p[2]], w)]
           Fold(f) == f = [T \in SUBSET DOMAIN message |->
                             IF T = {} THEN 0
                             ELSE f[T \ {Max(T)}] + UnitWidth(message[Max(T)], w)]
<1>1. n \in Nat /\ DOMAIN message = 1..n
  OBVIOUS
<1>2. F \in Steps(Nat, n)
  <2>1. \A k \in 1..n : UnitWidth(message[k], w) \in Nat
    BY DEF UnitWidth, Unit, Invalid
  <2> QED BY <2>1 DEF Steps
<1>3. \E f : Fold(f)
  <2>1. PICK f \in [SUBSET (1..n) -> Nat] : IsFold(f, F, 0, n)
    <3>1. 0 \in Nat
      OBVIOUS
    <3> HIDE DEF F, n
    <3> QED BY <3>1, <1>1, <1>2, FoldExists
  <2>2. Fold(f)
    BY <1>1, <2>1, MaxIn DEF IsFold
  <2> QED BY <2>2
<1> DEFINE g == CHOOSE f : Fold(f)
<1>4. Fold(g)
  <2> HIDE DEF Fold
  <2> QED BY <1>3
<1>5. Sum(message, w) = g[1..n]
  BY <1>1 DEF Sum, FoldLeft, MapThenFoldSet, UnitWidth
<1> HIDE DEF g
<1>6. g[{}] = 0
  BY <1>4
<1>7. ASSUME NEW k \in 1..n
      PROVE  g[1..k] = g[1..(k - 1)] + UnitWidth(message[k], w)
  <2>1. /\ 1..k \in SUBSET (1..n) /\ 1..k # {} /\ Max(1..k) = k
        /\ (1..k) \ {k} = 1..(k - 1)
    BY <1>1, LastStage
  <2> QED BY <1>1, <1>4, <2>1
<1> QED BY <1>5, <1>6, <1>7

\* One unit more adds its width.
LEMMA SumAppend ==
  ASSUME NEW message \in Seq(Unit), NEW unit \in Unit, NEW w \in Nat
  PROVE  Sum(Append(message, unit), w) = Sum(message, w) + UnitWidth(unit, w)
PROOF
<1> DEFINE longer == Append(message, unit)
           n == Len(message)
<1>1. /\ longer \in Seq(Unit) /\ Len(longer) = n + 1 /\ n \in Nat
      /\ longer[n + 1] = unit /\ \A k \in 1..n : longer[k] = message[k]
  OBVIOUS
<1> HIDE DEF longer
<1>2. PICK f : /\ Sum(message, w) = f[1..n] /\ f[{}] = 0
               /\ \A k \in 1..n : f[1..k] = f[1..(k - 1)] + UnitWidth(message[k], w)
  BY SumStages
<1>3. PICK g : /\ Sum(longer, w) = g[1..(n + 1)] /\ g[{}] = 0
               /\ \A k \in 1..(n + 1) :
                    g[1..k] = g[1..(k - 1)] + UnitWidth(longer[k], w)
  <2>1. \E g : /\ Sum(longer, w) = g[1..Len(longer)] /\ g[{}] = 0
               /\ \A k \in 1..Len(longer) :
                    g[1..k] = g[1..(k - 1)] + UnitWidth(longer[k], w)
    BY <1>1, SumStages
  <2> QED BY <1>1, <2>1
<1>4. f[1..n] = g[1..n]
  <2>1. \A k \in 1..n : k \in 1..(n + 1)
    BY <1>1
  <2>2. \A k \in 1..n : f[1..(k - 1)] = g[1..(k - 1)] => f[1..k] = g[1..k]
    BY <1>1, <1>2, <1>3, <2>1
  <2>3. n \in Nat /\ f[{}] = g[{}]
    BY <1>1, <1>2, <1>3
  <2> HIDE DEF n
  <2>4. ASSUME NEW k \in 1..n, f[1..(k - 1)] = g[1..(k - 1)]
        PROVE  f[1..k] = g[1..k]
    BY <2>2, <2>4
  <2> QED BY <2>3, <2>4, SameFold, ZenonT(60)
<1>5. g[1..(n + 1)] = g[1..n] + UnitWidth(unit, w)
  BY <1>1, <1>3
<1> QED BY <1>2, <1>3, <1>4, <1>5 DEF longer

\* A line without units has no bytes.
LEMMA SumEmpty == ASSUME NEW w \in Nat PROVE Sum(<<>>, w) = 0
PROOF
<1>1. PICK f : Sum(<<>>, w) = f[1..0] /\ f[{}] = 0
  <2>1. <<>> \in Seq(Unit) /\ Len(<<>>) = 0
    OBVIOUS
  <2>2. \E f : Sum(<<>>, w) = f[1..Len(<<>>)] /\ f[{}] = 0
    BY <2>1, SumStages, Zenon
  <2> QED BY <2>1, <2>2
<1>2. 1..0 = {}
  OBVIOUS
<1> QED BY <1>1, <1>2

\* What is decoded takes at most three times the bytes that came.
LEMMA SizeWithinBytes ==
  ASSUME NEW message \in Seq(Unit)
  PROVE  Bytes(message) \in Nat /\ Size(message) \in Nat
         /\ Size(message) <= 3 * Bytes(message)
PROOF
<1> DEFINE T == {s \in Seq(Unit) : /\ Bytes(s) \in Nat /\ Size(s) \in Nat
                                   /\ Size(s) <= 3 * Bytes(s)}
<1>1. <<>> \in T
  <2>1. Bytes(<<>>) = 0 /\ Size(<<>>) = 0
    BY SumEmpty DEF Bytes, Size
  <2> QED BY <2>1
<1>2. ASSUME NEW s \in Seq(Unit), NEW e \in Unit, s \in T
      PROVE  Append(s, e) \in T
  <2>1. /\ Bytes(Append(s, e)) = Bytes(s) + UnitWidth(e, 1)
        /\ Size(Append(s, e)) = Size(s) + UnitWidth(e, 3)
    BY SumAppend DEF Bytes, Size
  <2>2. /\ UnitWidth(e, 1) \in Nat /\ UnitWidth(e, 3) \in Nat
        /\ UnitWidth(e, 3) <= 3 * UnitWidth(e, 1)
    BY DEF UnitWidth, Unit, Invalid
  <2>3. Append(s, e) \in Seq(Unit)
    OBVIOUS
  <2> QED BY <1>2, <2>1, <2>2, <2>3
<1>3. \A s \in Seq(Unit) : s \in T
  <2> HIDE DEF T
  <2> QED BY <1>1, <1>2, SeqSetInduction
<1> QED BY <1>3

\* A line as the host keeps it.
KeptLine == {line \in [level : {"debug", "info", "warn", "error"}, text : Seq(Unit)] :
               Size(line.text) <= 3 * MaxLineBytes}

\* The replacement character is there only where a byte has gone.
LEMMA DecodedBounded ==
  ASSUME NEW message \in Seq(Unit)
  PROVE  Decoded(message) \in Seq(Unit) /\ Size(Decoded(message)) <= 3 * MaxLineBytes
PROOF
<1> DEFINE n == Len(message)
           fits == {k \in 0..n : Bytes(SubSeq(message, 1, k)) <= MaxLineBytes}
           whole == SubSeq(message, 1, Max(fits))
<1>1. n \in Nat /\ MaxLineBytes \in Nat
  BY LogAssumption
<1>2. 0 \in fits
  <2>1. SubSeq(message, 1, 0) = <<>> /\ Bytes(<<>>) = 0
    BY SumEmpty DEF Bytes
  <2>2. 0 \in 0..n /\ 0 <= MaxLineBytes
    BY <1>1
  <2> QED BY <2>1, <2>2
<1>3. Max(fits) \in fits
  <2>1. fits \in SUBSET (0..n) /\ fits # {}
    BY <1>2
  <2> HIDE DEF fits, n
  <2> QED BY <1>1, <2>1, MaxOf
<1>4. whole \in Seq(Unit) /\ Bytes(whole) <= MaxLineBytes
  <2>1. ASSUME NEW k \in fits
        PROVE  /\ SubSeq(message, 1, k) \in Seq(Unit)
               /\ Bytes(SubSeq(message, 1, k)) <= MaxLineBytes
    BY <1>1
  <2> HIDE DEF fits
  <2> QED BY <1>3, <2>1
<1>5. /\ Decoded(message) = IF Bytes(whole) < MaxLineBytes /\ Len(whole) < Len(message)
                            THEN Append(whole, Invalid) ELSE whole
  BY DEF Decoded
<1> HIDE DEF whole
<1>6. Bytes(whole) \in Nat /\ Size(whole) \in Nat /\ Size(whole) <= 3 * Bytes(whole)
  BY <1>4, SizeWithinBytes
<1>7. Invalid \in Unit /\ UnitWidth(Invalid, 3) = 3
  BY DEF Unit, UnitWidth
<1>8. Size(Append(whole, Invalid)) = Size(whole) + 3
  BY <1>4, <1>7, SumAppend DEF Size
<1>9. Append(whole, Invalid) \in Seq(Unit)
  BY <1>4, <1>7
<1> QED BY <1>1, <1>4, <1>5, <1>6, <1>8, <1>9

\* What a guest logs is kept in such lines.
LEMMA LogSpecInv == LogSpec => []LogInv(KeptLine)
PROOF
<1>1. ASSUME LogInit PROVE LogInv(KeptLine)
  BY <1>1, InitLog
<1>2. ASSUME LogInv(KeptLine), [LogNext]_logVars PROVE LogInv(KeptLine)'
  <2>1. CASE UNCHANGED logVars
    BY <1>2, <2>1 DEF LogInv
  <2>2. CASE LogNext
    <3>1. PICK level \in -1..4, message \in Messages : Log(level, message)
      BY <2>2 DEF LogNext
    <3> DEFINE line == [level |-> Level(level), text |-> Decoded(message)]
    <3>2. line \in KeptLine
      <4>1. message \in Seq(Unit)
        BY LogAssumption
      <4>2. Level(level) \in {"debug", "info", "warn", "error"}
        BY DEF Level
      <4> QED BY <4>1, <4>2, DecodedBounded DEF KeptLine
    <3>3. <<line>> \in Seq(KeptLine) /\ Emit(<<line>>)
      BY <3>1, <3>2 DEF Log
    <3> QED BY <1>2, <3>3, EmitKeepsLog
  <2> QED BY <1>2, <2>1, <2>2
<1> QED BY <1>1, <1>2, PTL DEF LogSpec

(***************************************************************************)
(* Whatever a guest logs, the report has the first lines of it, in order,  *)
(* and never more than its limits times three.                             *)
(***************************************************************************)
THEOREM LogKeepsLimitsHolds == LogSpec => []LogKeepsLimits
PROOF
<1>1. ASSUME LogInv(KeptLine) PROVE LogKeepsLimits
  <2>1. LogIsBeginning
    BY <1>1, LogInvBeginning
  <2>2. LogBounded
    <3>1. \A i \in DOMAIN logs : logs[i] \in KeptLine
      BY <1>1 DEF LogInv
    <3> QED BY <1>1, <3>1 DEF LogInv, KeptLine, LogBounded
  <2> QED BY <2>1, <2>2 DEF LogKeepsLimits
<1> QED BY <1>1, LogSpecInv, PTL

-----------------------------------------------------------------------------
(***************************************************************************)
(* LogTellsRun.  The calls that the traced lines name are those the host   *)
(* has answered, and one more from the line before a call to its answer,   *)
(* for good if the guest is stopped there; that line is then the last.     *)
(***************************************************************************)
Line == [level : {"info", "warn", "error"},
         text : {"call", "starting", "no_tools", "turn_failed", "step_limit"},
         step : Nat, name : ToolNames \cup {"none"}]
Quiet == {line \in Line : line.text # "call"}
Named == Nat \X (ToolNames \cup {"none"})

\* Another line names its call, if it is one.
LEMMA CallsInAppend ==
  ASSUME NEW lines \in Seq(Line), NEW line \in Line
  PROVE  /\ CallsIn(lines) \in Seq(Named)
         /\ CallsIn(Append(lines, line)) =
              IF line.text = "call" THEN Append(CallsIn(lines), <<line.step, line.name>>)
              ELSE CallsIn(lines)
PROOF
<1> DEFINE n == Len(lines)
           Q == Seq(Named)
           said == [i \in 1..n |-> Announced(lines[i])]
           longer == Append(lines, line)
           saidLonger == [i \in 1..(n + 1) |-> Announced(longer[i])]
<1>1. \A l \in Line : Announced(l) \in Q
  <2>1. ASSUME NEW l \in Line PROVE Announced(l) \in Q
    <3>1. <<l.step, l.name>> \in Named
      BY DEF Line, Named
    <3>2. <<>> \in Seq(Named) /\ \A d \in Named : <<d>> \in Seq(Named)
      OBVIOUS
    <3> QED BY <3>1, <3>2 DEF Announced
  <2> QED BY <2>1
<1>2. /\ n \in Nat /\ DOMAIN lines = 1..n /\ \A i \in 1..n : lines[i] \in Line
      /\ DOMAIN longer = 1..(n + 1) /\ longer[n + 1] = line
      /\ \A i \in 1..n : longer[i] = lines[i]
  OBVIOUS
<1>3. said \in Seq(Q)
  <2>1. said \in [1..n -> Q]
    BY <1>1, <1>2
  <2> HIDE DEF said, Q
  <2> QED BY <1>2, <2>1
<1> HIDE DEF longer
<1>4. saidLonger = Append(said, Announced(line))
  <2>1. Append(said, Announced(line))
          = [i \in 1..(n + 1) |->
               IF i = n + 1 THEN Announced(line) ELSE Announced(lines[i])]
    BY <1>2
  <2> QED BY <1>2, <2>1
<1>5. CallsIn(lines) = FlattenSeq(said) /\ CallsIn(longer) = FlattenSeq(saidLonger)
  BY <1>2 DEF CallsIn
<1> HIDE DEF said, saidLonger
<1>6. FlattenSeq(said) \in Seq(Named)
  BY <1>3, FlattenType
<1>7. FlattenSeq(saidLonger) = FlattenSeq(said) \o Announced(line)
  BY <1>1, <1>3, <1>4, FlattenAppend
<1>8. /\ \A c \in Seq(Named) : c \o <<>> = c
      /\ \A c \in Seq(Named), d \in Named : c \o <<d>> = Append(c, d)
  OBVIOUS
<1>9. <<line.step, line.name>> \in Named
  BY DEF Line, Named
<1> QED BY <1>5, <1>6, <1>7, <1>8, <1>9 DEF longer, Announced

\* Lines without a call name none.
LEMMA QuietLines ==
  ASSUME NEW lines \in Seq(Line), NEW say \in Seq(Quiet)
  PROVE  CallsIn(lines \o say) = CallsIn(lines)
PROOF
<1> DEFINE T == {s \in Seq(Quiet) : CallsIn(lines \o s) = CallsIn(lines)}
<1>1. <<>> \in T
  <2>1. lines \o <<>> = lines /\ <<>> \in Seq(Quiet)
    OBVIOUS
  <2> QED BY <2>1
<1>2. ASSUME NEW s \in Seq(Quiet), NEW e \in Quiet, s \in T
      PROVE  Append(s, e) \in T
  <2>1. e \in Line /\ e.text # "call" /\ Append(s, e) \in Seq(Quiet)
    BY DEF Quiet
  <2>2. lines \o s \in Seq(Line) /\ lines \o Append(s, e) = Append(lines \o s, e)
    <3>1. s \in Seq(Line)
      BY DEF Quiet
    <3> QED BY <2>1, <3>1
  <2> QED BY <1>2, <2>1, <2>2, CallsInAppend
<1>3. \A s \in Seq(Quiet) : s \in T
  <2> HIDE DEF T
  <2> QED BY <1>1, <1>2, SeqSetInduction
<1> QED BY <1>3

\* The first lines name the first calls.
LEMMA FirstLines ==
  ASSUME NEW lines \in Seq(Line), NEW k \in 0..Len(lines)
  PROVE  IsPrefix(CallsIn(SubSeq(lines, 1, k)), CallsIn(lines))
PROOF
<1> DEFINE First(s) == \A n \in 0..Len(s) :
                         IsPrefix(CallsIn(SubSeq(s, 1, n)), CallsIn(s))
           T == {s \in Seq(Line) : First(s)}
<1>0. ASSUME NEW s \in Seq(Line) PROVE CallsIn(s) \in Seq(Named)
  <2>1. [level |-> "info", text |-> "call", step |-> 0, name |-> "none"] \in Line
    BY DEF Line
  <2> QED BY <2>1, CallsInAppend
<1>1. ASSUME NEW c \in Seq(Named) PROVE IsPrefix(c, c)
  <2>1. Len(c) <= Len(c)
    OBVIOUS
  <2> QED BY <2>1, PrefixIs
<1>2. <<>> \in T
  <2>1. /\ <<>> \in Seq(Line) /\ Len(<<>>) = 0
        /\ \A n \in 0..0 : SubSeq(<<>>, 1, n) = <<>>
    OBVIOUS
  <2> QED BY <1>0, <1>1, <2>1
<1>3. ASSUME NEW s \in Seq(Line), NEW e \in Line, s \in T
      PROVE  Append(s, e) \in T
  <2> DEFINE longer == Append(s, e)
  <2>1. ASSUME NEW n \in 0..Len(longer)
        PROVE  IsPrefix(CallsIn(SubSeq(longer, 1, n)), CallsIn(longer))
    <3>1. CASE n = Len(longer)
      <4>1. SubSeq(longer, 1, n) = longer /\ longer \in Seq(Line)
        BY <3>1, SubSeqFull
      <4> QED BY <1>0, <1>1, <4>1
    <3>2. CASE n # Len(longer)
      <4>1. n \in 0..Len(s) /\ SubSeq(longer, 1, n) = SubSeq(s, 1, n)
        BY <3>2
      <4>2. SubSeq(s, 1, n) \in Seq(Line)
        BY <4>1
      <4> DEFINE c == CallsIn(SubSeq(s, 1, n))
                 d == CallsIn(s)
      <4>3. IsPrefix(c, d) /\ c \in Seq(Named) /\ d \in Seq(Named)
        BY <1>0, <1>3, <4>1, <4>2
      <4>4. <<e.step, e.name>> \in Named
        BY DEF Line, Named
      <4>5. CallsIn(longer) \in {d, Append(d, <<e.step, e.name>>)}
        BY CallsInAppend
      <4> HIDE DEF c, d
      <4>6. IsPrefix(c, Append(d, <<e.step, e.name>>))
        <5>1. Len(c) <= Len(d) /\ \A i \in 1..Len(c) : c[i] = d[i]
          BY <4>3, PrefixIs
        <5>2. /\ Append(d, <<e.step, e.name>>) \in Seq(Named)
              /\ Len(Append(d, <<e.step, e.name>>)) = Len(d) + 1
              /\ \A i \in 1..Len(d) : Append(d, <<e.step, e.name>>)[i] = d[i]
          BY <4>3, <4>4
        <5>3. Len(c) \in Nat /\ Len(d) \in Nat
          BY <4>3
        <5> DEFINE a == Append(d, <<e.step, e.name>>)
        <5>4. Len(c) <= Len(a) /\ \A i \in 1..Len(c) : c[i] = a[i]
          <6>1. \A i \in 1..Len(c) : i \in 1..Len(d)
            BY <5>1, <5>3
          <6> QED BY <5>1, <5>2, <5>3, <6>1
        <5> HIDE DEF a
        <5>5. a \in Seq(Named)
          BY <5>2 DEF a
        <5>6. IsPrefix(c, a)
          BY <4>3, <5>4, <5>5, PrefixIs
        <5> QED BY <5>6 DEF a
      <4> QED BY <4>1, <4>3, <4>5, <4>6 DEF c
    <3> QED BY <3>1, <3>2
  <2> QED BY <2>1
<1>4. \A s \in Seq(Line) : s \in T
  <2> HIDE DEF T
  <2> QED BY <1>2, <1>3, SeqSetInduction
<1> QED BY <1>4

-----------------------------------------------------------------------------
\* The last traced line may name a call that is not made yet, or never will be.
Ahead ==
  \E lines \in Seq(Line), line \in Line :
    traced = Append(lines, line) /\ CallsIn(lines) = CallsMade

TracedInv ==
  /\ CallsIn(traced) = CallsMade \/ Ahead
  /\ pc = "tool_read" /\ at = "web" =>
       CallsIn(traced) = Append(CallsMade, <<step, Head(queue).name>>)
  /\ pc # "reported" /\ ~(pc = "tool_read" /\ at = "web") =>
       CallsIn(traced) = CallsMade

\* What each step of the guest says is of the type of lines, and names a call
\* only where a tool is called.
LEMMA ToSayShape ==
  ASSUME AgentInv
  PROVE  /\ pc # "tool" => ToSay \in Seq(Quiet)
         /\ pc = "tool" => ToSay = <<Calling>>
         /\ pc \in {"tool", "tool_read"} =>
              /\ Calling \in Line /\ Calling.text = "call"
              /\ Calling.step = step /\ Calling.name = Head(queue).name
PROOF
<1>1. step \in Nat
  BY DEF AgentInv, ControlInv, CountInv
<1>2. ASSUME NEW level \in {"info", "warn", "error"},
             NEW what \in {"starting", "no_tools", "turn_failed", "step_limit"}
      PROVE  Says(level, what) \in Quiet
  BY <1>1 DEF Says, Line, Quiet
<1>3. ASSUME pc # "tool" PROVE ToSay \in Seq(Quiet)
  <2>1. \/ ToSay = <<>>
        \/ ToSay = <<Says("info", "starting")>>
        \/ ToSay = <<Says("warn", "no_tools"), Says("info", "starting")>>
        \/ ToSay = <<Says("error", "turn_failed")>>
        \/ ToSay = <<Says("warn", "step_limit")>>
    BY <1>3 DEF ToSay
  <2>2. /\ Says("info", "starting") \in Quiet /\ Says("warn", "no_tools") \in Quiet
        /\ Says("error", "turn_failed") \in Quiet
        /\ Says("warn", "step_limit") \in Quiet
    BY <1>2
  <2>3. \A a, b \in Quiet : <<>> \in Seq(Quiet) /\ <<a>> \in Seq(Quiet)
                            /\ <<a, b>> \in Seq(Quiet)
    OBVIOUS
  <2> QED BY <2>1, <2>2, <2>3
<1>4. ASSUME pc = "tool" PROVE ToSay = <<Calling>>
  BY <1>4 DEF ToSay
<1>5. ASSUME pc \in {"tool", "tool_read"}
      PROVE  /\ Calling \in Line /\ Calling.text = "call"
             /\ Calling.step = step /\ Calling.name = Head(queue).name
  <2>1. Head(queue).name \in ToolNames
    <3>1. Head(queue) \in Use
      BY <1>5, QueueShape DEF AgentInv, ControlInv, QueueInv
    <3> QED BY <3>1 DEF Use
  <2> QED BY <1>1, <2>1 DEF Calling, Says, Line
<1> QED BY <1>3, <1>4, <1>5

\* A call the host has answered is one more of the calls made.
LEMMA MadeAppend ==
  ASSUME AgentInv, Executed, pc \in {"tool", "tool_read"}
  PROVE  CallsMade' = Append(CallsMade, <<step, Head(queue).name>>)
PROOF
<1>1. executed \in Seq(CallRecord)
  BY DEF AgentInv, DataInv
<1> DEFINE call == Call(Head(queue), pending'.res.kind = "ok")
           n == Len(executed)
<1>2. call.step = step /\ call.name = Head(queue).name
  BY DEF Call
<1>3. executed' = Append(executed, call)
  BY DEF Executed
<1> HIDE DEF call
<1>4. /\ n \in Nat /\ DOMAIN executed = 1..n
      /\ DOMAIN executed' = 1..(n + 1) /\ executed'[n + 1] = call
      /\ \A i \in 1..n : executed'[i] = executed[i]
  BY <1>1, <1>3
<1>5. CallsMade = [i \in 1..n |-> <<executed[i].step, executed[i].name>>]
  BY <1>4 DEF CallsMade
<1>6. CallsMade' = [i \in 1..(n + 1) |-> <<executed'[i].step, executed'[i].name>>]
  BY <1>4 DEF CallsMade
<1>7. Append(CallsMade, <<step, Head(queue).name>>)
        = [i \in 1..(n + 1) |-> IF i = n + 1 THEN <<step, Head(queue).name>>
                                ELSE <<executed[i].step, executed[i].name>>]
  BY <1>4, <1>5
<1>8. \A i \in 1..(n + 1) :
        <<executed'[i].step, executed'[i].name>>
          = IF i = n + 1 THEN <<step, Head(queue).name>>
            ELSE <<executed[i].step, executed[i].name>>
  BY <1>2, <1>4
<1> QED BY <1>6, <1>7, <1>8

\* After a step in which the log and the calls say the same, they do not differ.
LEMMA SameCalls ==
  ASSUME CallsIn(traced)' = CallsMade', ~(pc' = "tool_read" /\ at' = "web")
  PROVE  TracedInv'
PROOF
BY DEF TracedInv

\* While the thread is in the host, the run takes one of three steps.
LEMMA HostsTurn ==
  ASSUME AgentInv, Progress, at # "guest"
  PROVE  WebAnswers \/ (\E a \in Answers : ModelAnswers(a)) \/ ModelFails
PROOF
<1>1. pc \in {"ask_read", "tool_read"}
  BY DEF AgentInv, ControlInv, ThreadInv
<1>2. ~(Boot \/ BootFails \/ AllocInput \/ CallList \/ ReadList \/ CallModel
        \/ CallTool \/ FreeInput \/ EmptyOutput \/ FreeOutput)
  BY <1>1 DEF Boot, BootFails, AllocInput, CallList, ReadList, CallModel, CallTool,
              FreeInput, EmptyOutput, FreeOutput
<1>3. ~(AskFailed \/ Refused \/ Completed \/ ToolsRequested)
  BY ReadShape DEF AskFailed, Refused, Completed, ToolsRequested, ReadAnswer
<1>4. ~(ReadTool \/ AskAgain \/ StepLimit)
  BY ReadShape DEF ReadTool, AskAgain, StepLimit, ToolAnswered
<1> QED BY <1>2, <1>3, <1>4 DEF Progress

\* Every step of a complete run keeps TracedInv.
LEMMA NextTraced ==
  ASSUME AgentInv, LogInv(Line), TracedInv, [RunNext]_runVars
  PROVE  TracedInv'
PROOF
<1>1. traced \in Seq(Line)
  BY DEF LogInv
<1>2. /\ at \in {"guest", "model", "web"}
      /\ at = "model" => pc = "ask_read"
      /\ at = "web" => pc = "tool_read"
  BY DEF AgentInv, ControlInv, ThreadInv
<1>3. CASE UNCHANGED runVars
  BY <1>3 DEF TracedInv, Ahead, CallsMade
<1>4. ASSUME NEW say \in Seq(Quiet), traced' = traced \o say, executed' = executed,
             pc # "reported", at = "guest", ~(pc' = "tool_read" /\ at' = "web")
      PROVE  TracedInv'
  <2>1. CallsIn(traced') = CallsIn(traced) /\ CallsMade' = CallsMade
    BY <1>1, <1>4, QuietLines DEF CallsMade
  <2>2. CallsIn(traced) = CallsMade
    BY <1>4 DEF TracedInv
  <2> QED BY <1>4, <2>1, <2>2, SameCalls
<1>5. CASE Speaks
  <2>1. at = "guest" /\ traced' = traced \o ToSay /\ Progress
    BY <1>5 DEF Speaks, Emit
  <2>2. CASE CallTool
    <3>1. /\ pc = "tool" /\ pc' = "tool_read"
          /\ UNCHANGED <<step, queue>>
      BY <2>2 DEF CallTool
    <3>2. /\ traced' = Append(traced, Calling) /\ Calling \in Line
          /\ Calling.text = "call"
          /\ <<Calling.step, Calling.name>> = <<step, Head(queue).name>>
      <4>1. ToSay = <<Calling>> /\ Calling \in Line
        BY <3>1, ToSayShape
      <4> QED BY <1>1, <2>1, <3>1, <4>1, ToSayShape
    <3>3. CallsIn(traced') = Append(CallsIn(traced), <<step, Head(queue).name>>)
      BY <1>1, <3>2, CallsInAppend
    <3>4. CallsIn(traced) = CallsMade
      BY <3>1 DEF TracedInv
    <3>5. \/ at' = "web" /\ executed' = executed
          \/ at' = "guest" /\ Executed
      BY <2>2 DEF CallTool, InvokeTool, CallTooLong, FetchBegin, Enter
    <3>6. CASE at' = "web" /\ executed' = executed
      <4>1. CallsMade' = CallsMade
        BY <3>6 DEF CallsMade
      <4>2. Ahead'
        BY <1>1, <3>2, <3>4, <4>1 DEF Ahead
      <4> QED BY <3>1, <3>3, <3>4, <3>6, <4>1, <4>2 DEF TracedInv
    <3>7. CASE at' = "guest" /\ Executed
      <4>1. CallsMade' = Append(CallsMade, <<step, Head(queue).name>>)
        BY <3>1, <3>7, MadeAppend
      <4> QED BY <3>3, <3>4, <3>7, <4>1, SameCalls
    <3> QED BY <3>5, <3>6, <3>7
  <2>3. CASE ~CallTool
    <3>1. /\ executed' = executed /\ pc \notin {"tool", "reported"}
          /\ ~(pc' = "tool_read" /\ at' = "web")
      BY <2>1, <2>3
      DEF Progress, Boot, BootFails, AllocInput, CallList, ReadList, CallModel,
          ModelAnswers, ModelFails, CompleteEnd, AskFailed, Refused, Completed,
          ToolsRequested, ReadAnswer, WebAnswers, FetchEnd, ReadTool, AskAgain,
          StepLimit, ToolAnswered, Finish, FreeInput, EmptyOutput, HostReport,
          FreeOutput
    <3> QED BY <1>4, <2>1, <3>1, ToSayShape
  <2> QED BY <2>2, <2>3
<1>6. CASE Silent
  <2>1. at # "guest" /\ Progress /\ traced' = traced
    BY <1>6 DEF Silent
  <2>2. CASE WebAnswers
    <3>1. /\ at = "web" /\ pc = "tool_read" /\ at' = "guest" /\ Executed
          /\ UNCHANGED <<step, queue>>
      BY <1>2, <2>2 DEF WebAnswers, FetchEnd
    <3>2. CallsIn(traced) = Append(CallsMade, <<step, Head(queue).name>>)
      BY <3>1 DEF TracedInv
    <3>3. CallsMade' = Append(CallsMade, <<step, Head(queue).name>>)
      BY <3>1, MadeAppend
    <3> QED BY <2>1, <3>1, <3>2, <3>3, SameCalls
  <2>3. CASE ~WebAnswers
    <3>1. pc = "ask_read" /\ pc' = pc /\ executed' = executed
      <4>1. (\E a \in Answers : ModelAnswers(a)) \/ ModelFails
        BY <2>1, <2>3, HostsTurn
      <4> QED BY <1>2, <4>1 DEF ModelAnswers, ModelFails, CompleteEnd
    <3>2. CallsMade' = CallsMade
      BY <3>1 DEF CallsMade
    <3>3. CallsIn(traced) = CallsMade
      BY <3>1 DEF TracedInv
    <3> QED BY <2>1, <3>1, <3>2, <3>3, SameCalls
  <2> QED BY <2>2, <2>3
<1>7. CASE Stopped
  <2>1. /\ at = "guest" /\ pc # "reported" /\ pc' = "reported"
        /\ executed' = executed
    BY <1>7 DEF Stopped, Trap, HostReport
  <2>2. PICK n \in 0..Len(ToSay) : traced' = traced \o SubSeq(ToSay, 1, n)
    BY <1>7 DEF Stopped, Emit
  <2>3. CASE pc # "tool"
    <3>1. ToSay \in Seq(Quiet)
      BY <2>3, ToSayShape
    <3>2. SubSeq(ToSay, 1, n) \in Seq(Quiet)
      BY <3>1
    <3> QED BY <1>4, <2>1, <2>2, <3>2
  <2>4. CASE pc = "tool"
    <3>1. ToSay = <<Calling>> /\ Calling \in Line
      BY <2>4, ToSayShape
    <3>2. SubSeq(ToSay, 1, n) = <<>> \/ SubSeq(ToSay, 1, n) = <<Calling>>
      <4>1. n = 0 \/ n = 1
        BY <3>1
      <4>2. ASSUME NEW e \in Line
            PROVE  SubSeq(<<e>>, 1, 0) = <<>> /\ SubSeq(<<e>>, 1, 1) = <<e>>
        <5>1. <<e>> \in Seq(Line) /\ Len(<<e>>) = 1
          OBVIOUS
        <5>2. SubSeq(<<e>>, 1, 0) = <<>>
          BY <5>1, SubSeqEmpty
        <5>3. SubSeq(<<e>>, 1, 1) = <<e>>
          BY <5>1, SubSeqFull
        <5> QED BY <5>2, <5>3
      <4> QED BY <3>1, <4>1, <4>2
    <3>3. CASE SubSeq(ToSay, 1, n) = <<>>
      <4>1. <<>> \in Seq(Quiet)
        OBVIOUS
      <4> QED BY <1>4, <2>1, <2>2, <3>3, <4>1
    <3>4. CASE SubSeq(ToSay, 1, n) = <<Calling>>
      <4>1. traced' = Append(traced, Calling)
        <5>1. \A s \in Seq(Line), e \in Line : s \o <<e>> = Append(s, e)
          OBVIOUS
        <5> QED BY <1>1, <2>2, <3>1, <3>4, <5>1
      <4>2. CallsIn(traced) = CallsMade /\ CallsMade' = CallsMade
        BY <2>1, <2>4 DEF TracedInv, CallsMade
      <4>3. Ahead'
        BY <1>1, <3>1, <4>1, <4>2 DEF Ahead
      <4> QED BY <2>1, <4>3 DEF TracedInv
    <3> QED BY <3>2, <3>3, <3>4
  <2> QED BY <2>3, <2>4
<1> QED BY <1>3, <1>5, <1>6, <1>7 DEF RunNext, Proceeds

-----------------------------------------------------------------------------
\* What the guest's next step says is a sequence of lines.
LEMMA ToSayLines == ASSUME AgentInv PROVE ToSay \in Seq(Line)
PROOF
<1>1. CASE pc = "tool"
  <2>1. \A e \in Line : <<e>> \in Seq(Line)
    OBVIOUS
  <2> QED BY <1>1, <2>1, ToSayShape
<1>2. CASE pc # "tool"
  <2>1. \A s \in Seq(Quiet) : s \in Seq(Line)
    BY DEF Quiet
  <2> QED BY <1>2, <2>1, ToSayShape
<1> QED BY <1>1, <1>2

\* Every step of a complete run keeps what the host has of its log in order.
LEMMA NextLog ==
  ASSUME AgentInv, LogInv(Line), [RunNext]_runVars
  PROVE  LogInv(Line)'
PROOF
<1>1. ToSay \in Seq(Line)
  BY ToSayLines
<1>2. CASE UNCHANGED logVars
  BY <1>2 DEF LogInv
<1>3. CASE Emit(ToSay)
  BY <1>1, <1>3, EmitKeepsLog
<1>4. ASSUME NEW n \in 0..Len(ToSay), Emit(SubSeq(ToSay, 1, n))
      PROVE  LogInv(Line)'
  <2>1. SubSeq(ToSay, 1, n) \in Seq(Line)
    BY <1>1
  <2> QED BY <1>4, <2>1, EmitKeepsLog
<1> QED BY <1>2, <1>3, <1>4 DEF RunNext, Proceeds, Speaks, Silent, Stopped

\* A guest's report of an error or a step limit has a line that explains it.
Explained(o) ==
  o.by = "guest" /\ o.stop \in {"error", "step_limit"} =>
    /\ traced[Len(traced)].level \in {"warn", "error"}
    /\ traced[Len(traced)].step >= o.steps

EndInv == Explained(out) /\ Explained(report)

\* The output of a step that ends in a line of its own is explained by it.
LEMMA LastLine ==
  ASSUME LogInv(Line), OutInv, pc \notin {"free_input", "free_output", "reported"},
         NEW stop, NEW steps, Finish(stop, steps),
         NEW line \in Line, traced' = traced \o <<line>>,
         line.level \in {"warn", "error"}, line.step >= steps
  PROVE  EndInv'
PROOF
<1>1. traced' = Append(traced, line) /\ traced \in Seq(Line)
  <2>1. \A s \in Seq(Line), e \in Line : s \o <<e>> = Append(s, e)
    OBVIOUS
  <2> QED BY <2>1 DEF LogInv
<1>2. traced'[Len(traced')] = line
  BY <1>1
<1>3. report.by # "guest" /\ report' = report
  BY DEF OutInv, Finish
<1>4. out'.by = "guest" => out'.steps = steps
  BY DEF Finish, NoReport
<1> QED BY <1>2, <1>3, <1>4 DEF EndInv, Explained

\* Every step of a complete run keeps EndInv.
LEMMA NextEnd ==
  ASSUME AgentInv, LogInv(Line), EndInv, [RunNext]_runVars
  PROVE  EndInv'
PROOF
<1>1. OutInv /\ traced \in Seq(Line) /\ step \in Nat
  BY DEF AgentInv, HistoryInv, LogInv, ControlInv, CountInv
<1>2. /\ out.by = "guest" => pc \in {"free_input", "free_output", "reported"}
      /\ report.by = "guest" => pc = "reported"
  BY <1>1 DEF OutInv
<1>3. ASSUME UNCHANGED <<out, report>>,
             pc \notin {"free_input", "free_output", "reported"}
      PROVE  EndInv'
  BY <1>2, <1>3 DEF EndInv, Explained
<1>4. ASSUME NEW n \in 0..Len(ToSay), Emit(SubSeq(ToSay, 1, n)),
             pc \in {"free_input", "free_output"}
      PROVE  traced' = traced
  <2>1. ToSay = <<>>
    BY <1>4 DEF ToSay
  <2>2. SubSeq(ToSay, 1, n) = <<>>
    <3>1. n = 0
      BY <2>1
    <3> QED BY <3>1, SubSeqEmpty
  <2>3. \A s \in Seq(Line) : s \o <<>> = s
    OBVIOUS
  <2> QED BY <1>1, <1>4, <2>2, <2>3 DEF Emit
<1>5. ASSUME HostReport, NEW n \in 0..Len(ToSay), Emit(SubSeq(ToSay, 1, n)),
             pc # "reported"
      PROVE  EndInv'
  <2>1. out' = out /\ report'.by = "host"
    BY <1>5 DEF HostReport
  <2>2. CASE pc \in {"free_input", "free_output"}
    BY <1>4, <1>5, <2>1, <2>2 DEF EndInv, Explained
  <2>3. CASE pc \notin {"free_input", "free_output"}
    BY <1>2, <1>5, <2>1, <2>3 DEF EndInv, Explained
  <2> QED BY <2>2, <2>3
<1>6. ASSUME Emit(ToSay)
      PROVE  \E n \in 0..Len(ToSay) : Emit(SubSeq(ToSay, 1, n))
  <2>1. ToSay \in Seq(Line)
    BY ToSayLines
  <2>2. Len(ToSay) \in 0..Len(ToSay) /\ SubSeq(ToSay, 1, Len(ToSay)) = ToSay
    BY <2>1, SubSeqFull
  <2> QED BY <1>6, <2>2
<1>7. CASE UNCHANGED runVars
  BY <1>7 DEF EndInv, Explained
<1>8. CASE Silent
  <2>1. (WebAnswers \/ (\E a \in Answers : ModelAnswers(a)) \/ ModelFails)
        /\ pc \in {"ask_read", "tool_read"}
    BY <1>8, HostsTurn DEF Silent, AgentInv, ControlInv, ThreadInv
  <2> QED BY <1>3, <2>1 DEF WebAnswers, ModelAnswers, ModelFails
<1>9. CASE Stopped
  BY <1>5, <1>9 DEF Stopped, Trap
<1>10. CASE Speaks /\ (FreeInput \/ FreeOutput)
  <2>1. traced' = traced
    BY <1>4, <1>6, <1>10 DEF Speaks, FreeInput, FreeOutput
  <2>2. out' = out /\ (report' = report \/ report' = out)
    BY <1>10 DEF FreeInput, FreeOutput
  <2> QED BY <2>1, <2>2 DEF EndInv, Explained
<1>11. CASE Speaks /\ EmptyOutput
  BY <1>5, <1>6, <1>11 DEF Speaks, EmptyOutput
<1>12. ASSUME NEW level \in {"warn", "error"},
              NEW what \in {"turn_failed", "step_limit"}
       PROVE  /\ Says(level, what) \in Line
              /\ Says(level, what).level = level /\ Says(level, what).step = step
  BY <1>1 DEF Says, Line
<1>13. CASE Speaks /\ AskFailed
  <2>1. /\ pc = "ask_read" /\ Finish("error", step - 1)
        /\ ToSay = <<Says("error", "turn_failed")>>
    BY <1>13 DEF AskFailed, ToSay
  <2>2. traced' = traced \o <<Says("error", "turn_failed")>>
    BY <1>13, <2>1 DEF Speaks, Emit
  <2>3. step >= step - 1
    BY <1>1
  <2> QED BY <1>1, <1>12, <2>1, <2>2, <2>3, LastLine
<1>14. CASE Speaks /\ StepLimit
  <2>1. /\ pc = "tool_read" /\ Finish("step_limit", maxSteps) /\ step >= maxSteps
        /\ Tail(queue) = <<>>
    BY <1>14 DEF StepLimit, ToolAnswered
  <2>2. ToSay = <<Says("warn", "step_limit")>>
    BY <2>1 DEF ToSay
  <2>3. traced' = traced \o <<Says("warn", "step_limit")>>
    BY <1>14, <2>2 DEF Speaks, Emit
  <2> QED BY <1>1, <1>12, <2>1, <2>3, LastLine
<1>15. CASE Refused \/ Completed
  <2>1. /\ pc = "ask_read"
        /\ \E stop \in {"refusal", "completed"} : Finish(stop, step)
    BY <1>15 DEF Refused, Completed, ReadAnswer
  <2>2. report' = report /\ out'.stop \notin {"error", "step_limit"}
    BY <2>1 DEF Finish, NoReport
  <2> QED BY <1>2, <2>1, <2>2 DEF EndInv, Explained
<1>16. CASE \/ Boot \/ BootFails \/ AllocInput \/ CallList \/ ReadList \/ CallModel
            \/ ToolsRequested \/ CallTool \/ ReadTool \/ AskAgain
  <2>1. /\ UNCHANGED <<out, report>>
        /\ pc \notin {"free_input", "free_output", "reported"}
    BY <1>16 DEF Boot, BootFails, AllocInput, CallList, ReadList, CallModel,
                 ToolsRequested, ReadAnswer, CallTool, ReadTool, AskAgain,
                 ToolAnswered
  <2> QED BY <1>3, <2>1
<1>17. CASE Speaks
  <2>1. Progress /\ at = "guest"
    BY <1>17 DEF Speaks
  <2>2. ~(WebAnswers \/ (\E a \in Answers : ModelAnswers(a)) \/ ModelFails)
    BY <2>1 DEF WebAnswers, FetchEnd, ModelAnswers, ModelFails, CompleteEnd
  <2> QED BY <1>10, <1>11, <1>13, <1>14, <1>15, <1>16, <1>17, <2>1, <2>2
          DEF Progress
<1> QED BY <1>7, <1>8, <1>9, <1>17 DEF RunNext, Proceeds

\* What every state of a complete run satisfies of its log.
LoggedInv == LogInv(Line) /\ TracedInv /\ EndInv

\* What is said of the log holds in every state of a complete run.
LEMMA LoggedInvHolds == RunSpec => []LoggedInv
PROOF
<1>1. ASSUME RunInit PROVE LoggedInv
  <2>1. Init /\ LogInit
    BY <1>1 DEF RunInit, LoggedInit
  <2>2. LogInv(Line)
    BY <2>1, InitLog
  <2>3. CallsIn(<<>>) = <<>>
    BY DEF CallsIn, FlattenSeq
  <2>4. CallsMade = <<>> /\ traced = <<>> /\ pc = "boot"
    BY <2>1 DEF Init, LogInit, CallsMade
  <2>5. EndInv
    BY <2>1 DEF Init, EndInv, Explained, NoReport
  <2> QED BY <2>2, <2>3, <2>4, <2>5 DEF LoggedInv, TracedInv
<1>2. ASSUME AgentInv, LoggedInv, [RunNext]_runVars PROVE LoggedInv'
  BY <1>2, NextLog, NextTraced, NextEnd DEF LoggedInv
<1>3. RunSpec => []AgentInv
  BY RunImplementsAgent, AgentInvHolds, PTL
<1> QED BY <1>1, <1>2, <1>3, PTL DEF RunSpec

\* Of the calls made, the log names all it has room for.
LEMMA NamesCalls ==
  ASSUME LogInv(Line), TracedInv
  PROVE  LogNamesCalls
PROOF
<1>1. /\ logs \in Seq(Line) /\ traced \in Seq(Line)
      /\ Len(logs) \in Nat /\ Len(traced) \in Nat
      /\ Len(logs) <= MaxLines /\ Len(logs) <= Len(traced)
      /\ \A i \in 1..Len(logs) : logs[i] = traced[i]
      /\ Len(logs) < MaxLines => Len(logs) = Len(traced)
  BY DEF LogInv
<1>2. ASSUME NEW s \in Seq(Line) PROVE CallsIn(s) \in Seq(Named)
  <2>1. [level |-> "info", text |-> "call", step |-> 0, name |-> "none"] \in Line
    BY DEF Line
  <2> QED BY <2>1, CallsInAppend
<1>3. ASSUME NEW c \in Seq(Named)
      PROVE  IsPrefix(c, c) /\ Len(c) \in Nat
             /\ \A d \in Named : IsPrefix(c, Append(c, d)) /\ Len(Append(c, d)) = Len(c) + 1
  <2>1. Len(c) \in Nat /\ Len(c) <= Len(c)
    OBVIOUS
  <2>2. ASSUME NEW d \in Named
        PROVE  /\ Append(c, d) \in Seq(Named) /\ Len(Append(c, d)) = Len(c) + 1
               /\ \A i \in 1..Len(c) : Append(c, d)[i] = c[i]
    OBVIOUS
  <2>3. ASSUME NEW d \in Named
        PROVE  IsPrefix(c, Append(c, d))
    <3> DEFINE a == Append(c, d)
    <3>1. /\ a \in Seq(Named) /\ Len(c) <= Len(a)
          /\ \A i \in 1..Len(c) : c[i] = a[i]
      BY <2>1, <2>2
    <3> HIDE DEF a
    <3>2. IsPrefix(c, a)
      BY <3>1, PrefixIs
    <3> QED BY <3>2 DEF a
  <2> QED BY <2>1, <2>2, <2>3, PrefixIs
\* The log is the beginning of any sequence that begins as what was traced.
<1>4. ASSUME NEW s \in Seq(Line), Len(logs) <= Len(s),
             \A i \in 1..Len(logs) : s[i] = logs[i]
      PROVE  IsPrefix(CallsIn(logs), CallsIn(s))
  <2>1. /\ SubSeq(s, 1, Len(logs)) \in Seq(Line)
        /\ Len(SubSeq(s, 1, Len(logs))) = Len(logs)
        /\ \A i \in 1..Len(logs) : SubSeq(s, 1, Len(logs))[i] = logs[i]
    BY <1>1, <1>4
  <2>2. SubSeq(s, 1, Len(logs)) = logs
    BY <1>1, <2>1, SeqEqual
  <2>3. Len(logs) \in 0..Len(s)
    BY <1>1, <1>4
  <2> QED BY <2>2, <2>3, FirstLines
<1>5. CASE CallsIn(traced) = CallsMade
  <2>1. CASE Len(logs) = Len(traced)
    <3>1. logs = traced
      BY <1>1, <2>1, SeqEqual
    <3> QED BY <1>1, <1>2, <1>3, <1>5, <3>1 DEF LogNamesCalls
  <2>2. CASE Len(logs) # Len(traced)
    <3>1. Len(logs) = MaxLines
      BY <1>1, <2>2, LogAssumption
    <3>2. IsPrefix(CallsIn(logs), CallsIn(traced))
      <4>1. \A i \in 1..Len(logs) : traced[i] = logs[i]
        BY <1>1
      <4> QED BY <1>1, <1>4, <4>1
    <3> QED BY <1>5, <3>1, <3>2 DEF LogNamesCalls
  <2> QED BY <2>1, <2>2
<1>6. CASE Ahead
  <2>1. PICK lines \in Seq(Line), line \in Line :
          traced = Append(lines, line) /\ CallsIn(lines) = CallsMade
    BY <1>6 DEF Ahead
  <2>2. <<line.step, line.name>> \in Named
    BY DEF Line, Named
  <2>3. CallsIn(traced) \in {CallsMade, Append(CallsMade, <<line.step, line.name>>)}
    BY <2>1, CallsInAppend
  <2>4. CallsMade \in Seq(Named)
    BY <1>2, <2>1
  <2>5. CASE Len(logs) = Len(traced)
    <3>1. logs = traced
      BY <1>1, <2>5, SeqEqual
    <3>2. IsPrefix(CallsMade, CallsIn(logs)) /\ Len(CallsIn(logs)) <= Len(CallsMade) + 1
      <4>1. /\ IsPrefix(CallsMade, CallsMade) /\ Len(CallsMade) \in Nat
            /\ IsPrefix(CallsMade, Append(CallsMade, <<line.step, line.name>>))
            /\ Len(Append(CallsMade, <<line.step, line.name>>)) = Len(CallsMade) + 1
        BY <1>3, <2>2, <2>4
      <4>2. Len(CallsMade) <= Len(CallsMade) + 1
        BY <4>1
      <4>3. CASE CallsIn(logs) = CallsMade
        BY <4>1, <4>2, <4>3
      <4>4. CASE CallsIn(logs) = Append(CallsMade, <<line.step, line.name>>)
        <5>1. Len(CallsIn(logs)) <= Len(CallsMade) + 1
          BY <4>1, <4>4
        <5> QED BY <4>1, <4>4, <5>1
      <4> QED BY <2>3, <3>1, <4>3, <4>4
    <3> QED BY <3>2 DEF LogNamesCalls
  <2>6. CASE Len(logs) # Len(traced)
    <3>1. Len(logs) = MaxLines
      BY <1>1, <2>6, LogAssumption
    <3>2. Len(traced) = Len(lines) + 1 /\ \A i \in 1..Len(lines) : traced[i] = lines[i]
      BY <2>1, AppendProperties
    <3>3. Len(logs) <= Len(lines) /\ \A i \in 1..Len(logs) : lines[i] = logs[i]
      <4>1. Len(lines) \in Nat /\ Len(logs) <= Len(lines)
        BY <1>1, <2>6, <3>2
      <4>2. \A i \in 1..Len(logs) : i \in 1..Len(lines)
        BY <1>1, <4>1
      <4> QED BY <1>1, <3>2, <4>1, <4>2
    <3>4. IsPrefix(CallsIn(logs), CallsMade)
      BY <1>4, <2>1, <3>3
    <3> QED BY <3>1, <3>4 DEF LogNamesCalls
  <2> QED BY <2>5, <2>6
<1> QED BY <1>5, <1>6 DEF TracedInv

(***************************************************************************)
(* Whatever stops a run, its log names the calls it made, as far as it has *)
(* room; and it explains an ending without an answer.                      *)
(***************************************************************************)
THEOREM LogTellsRunHolds == RunSpec => []LogTellsRun
PROOF
<1>1. ASSUME LoggedInv PROVE LogTellsRun
  BY <1>1, NamesCalls DEF LoggedInv, EndInv, Explained, EndingExplained, LogTellsRun
<1> QED BY <1>1, LoggedInvHolds, PTL

-----------------------------------------------------------------------------
(***************************************************************************)
(* MockKeepsToTask.  The calls of a mock run that are recorded and those   *)
(* that are still queued are together the directives for tools on offer;   *)
(* the mock asks for them in the first turn, and in the second it sees     *)
(* their results in the conversation.                                      *)
(***************************************************************************)
LEMMA TakenShape == ASSUME NEW available PROVE Taken(available) \in Seq(Directive)
PROOF
<1> DEFINE Q == Seq(Directive)
           n == Len(Directives)
           ss == [i \in 1..n |-> IF Directives[i].name \in available
                                 THEN <<Directives[i]>> ELSE <<>>]
<1>1. n \in Nat /\ DOMAIN Directives = 1..n /\ \A i \in 1..n : Directives[i] \in Directive
  BY MockAssumption
<1>2. <<>> \in Q /\ \A d \in Directive : <<d>> \in Q
  OBVIOUS
<1>3. ss \in Seq(Q)
  <2>1. ss \in [1..n -> Q]
    BY <1>1, <1>2
  <2> HIDE DEF ss, Q
  <2> QED BY <1>1, <2>1
<1>4. Taken(available) = FlattenSeq(ss)
  BY <1>1 DEF Taken
<1> HIDE DEF ss
<1> QED BY <1>3, <1>4, FlattenType

\* Each directive that is taken becomes one tool use.
LEMMA MockUsesShape ==
  ASSUME NEW available
  PROVE  /\ Len(MockUses(available)) = Len(Taken(available))
         /\ MockUses(available) = <<>> <=> Taken(available) = <<>>
         /\ \A i \in 1..Len(Taken(available)) :
              /\ MockUses(available)[i].name = Taken(available)[i].name
              /\ MockUses(available)[i].in = Taken(available)[i].in
PROOF
<1> DEFINE taken == Taken(available)
           n == Len(taken)
           uses == [i \in 1..n |-> [id |-> i, name |-> taken[i].name, in |-> taken[i].in]]
           MockUse == [id : Nat, name : ToolNames, in : Inputs]
<1>1. taken \in Seq(Directive)
  BY TakenShape
<1> HIDE DEF taken
<1>2. n \in Nat /\ DOMAIN taken = 1..n /\ \A i \in 1..n : taken[i] \in Directive
  BY <1>1
<1>3. MockUses(available) = uses
  BY <1>2 DEF MockUses, taken
<1>4. uses \in [1..n -> MockUse]
  BY <1>2 DEF Directive
<1>5. /\ uses \in Seq(MockUse) /\ Len(uses) = n
      /\ \A i \in 1..n : uses[i].name = taken[i].name /\ uses[i].in = taken[i].in
  BY <1>2, <1>4
<1>6. uses = <<>> <=> taken = <<>>
  BY <1>1, <1>5
<1> QED BY <1>3, <1>5, <1>6 DEF taken

\* The calls recorded, and the uses still to do, are the directives taken.
Partly(done, todo) ==
  /\ Len(done) + Len(todo) = Len(Taken(tools))
  /\ \A i \in 1..Len(done) : done[i].name = Taken(tools)[i].name
                             /\ done[i].in = Taken(tools)[i].in
  /\ \A i \in 1..Len(todo) : todo[i].name = Taken(tools)[Len(done) + i].name
                             /\ todo[i].in = Taken(tools)[Len(done) + i].in

Carried(done) == Partly(done, <<>>)

\* What an output promises of a mock run.
Kept(o) ==
  /\ o.stop \in {"completed", "step_limit"} => Carried(o.calls)
  /\ o.stop = "step_limit" => maxSteps = 1

\* Where a mock run is, and how far it got with its task.
MockPlace ==
  /\ pc \in {"boot", "alloc", "list", "list_read"} =>
       record = <<>> /\ out.stop = "none" /\ report.stop = "none"
  /\ pc \in {"ask", "ask_read"} =>
       \/ step = 1 /\ ~AlreadyUsedTools /\ record = <<>>
       \/ step = 2 /\ AlreadyUsedTools /\ Carried(record)
  /\ pc = "ask_read" /\ at = "guest" /\ pending.res.kind = "ok" =>
       pending.res.body = MockAnswer
  /\ pc \in {"tool", "tool_read"} => step = 1 /\ Partly(record, queue)

MockCounts ==
  /\ turns <= 2
  /\ \A i \in DOMAIN record : record[i].step = 1

MockInv == provider = "mock" => MockPlace /\ MockCounts /\ Kept(out) /\ Kept(report)

\* A call is recorded: it goes from those to do to those done.
LEMMA PartlyMoves ==
  ASSUME AgentInv, NEW ok \in BOOLEAN, ToolAnswered(ok), Partly(record, queue),
         tools' = tools, step = 1, \A i \in DOMAIN record : record[i].step = 1
  PROVE  /\ Partly(record, queue)'
         /\ \A i \in DOMAIN record' : record'[i].step = 1
         /\ Tail(queue) = <<>> => Carried(record)'
PROOF
<1> DEFINE call == Call(Head(queue), ok)
           n == Len(record)
<1>1. /\ record \in Seq(CallRecord) /\ queue \in Seq(Use) /\ queue # <<>>
      /\ n \in Nat
  BY DEF AgentInv, DataInv, ControlInv, QueueInv, ToolAnswered
<1>2. /\ call.step = 1 /\ call.name = queue[1].name /\ call.in = queue[1].in
      /\ call \in CallRecord
  <2>1. Head(queue) = queue[1] /\ Head(queue) \in Use
    BY <1>1
  <2>2. 1 \in Nat
    OBVIOUS
  <2> QED BY <2>1, <2>2, CallShape DEF Call
<1>3. record' = Append(record, call) /\ queue' = Tail(queue)
  BY DEF ToolAnswered
<1> HIDE DEF call
<1>4. /\ Len(record') = n + 1 /\ DOMAIN record' = 1..(n + 1) /\ record'[n + 1] = call
      /\ \A i \in 1..n : record'[i] = record[i]
      /\ DOMAIN record = 1..n
  BY <1>1, <1>2, <1>3
<1>5. /\ Len(queue) \in Nat /\ Len(queue) >= 1 /\ Len(queue') = Len(queue) - 1
      /\ \A i \in 1..Len(queue') : queue'[i] = queue[i + 1]
  BY <1>1, <1>3
<1>6. \A i \in DOMAIN record' : record'[i].step = 1
  BY <1>2, <1>4
<1>7. Partly(record', queue')
  <2>1. Len(record') + Len(queue') = Len(Taken(tools))
    <3>1. n + Len(queue) = Len(Taken(tools))
      BY DEF Partly
    <3> HIDE DEF n
    <3>2. (n + 1) + (Len(queue) - 1) = n + Len(queue)
      BY <1>1, <1>5
    <3> QED BY <1>4, <1>5, <3>1, <3>2
  <2>2. ASSUME NEW i \in 1..Len(record')
        PROVE  record'[i].name = Taken(tools)[i].name
               /\ record'[i].in = Taken(tools)[i].in
    <3>1. CASE i \in 1..n
      BY <1>4, <3>1 DEF Partly
    <3>2. CASE i = n + 1
      <4>1. 1 \in 1..Len(queue)
        BY <1>5
      <4>2. queue[1].name = Taken(tools)[n + 1].name
            /\ queue[1].in = Taken(tools)[n + 1].in
        BY <4>1 DEF Partly
      <4> QED BY <1>2, <1>4, <3>2, <4>2
    <3>3. i \in 1..n \/ i = n + 1
      BY <1>1, <1>4
    <3> QED BY <3>1, <3>2, <3>3
  <2>3. ASSUME NEW i \in 1..Len(queue')
        PROVE  queue'[i].name = Taken(tools)[Len(record') + i].name
               /\ queue'[i].in = Taken(tools)[Len(record') + i].in
    <3>1. i + 1 \in 1..Len(queue) /\ n + (i + 1) = Len(record') + i
      <4> DEFINE q == Len(queue)
      <4>1. q \in Nat /\ i \in 1..(q - 1) /\ Len(record') = n + 1
        BY <1>4, <1>5
      <4> HIDE DEF n, q
      <4>2. i + 1 \in 1..q /\ n + (i + 1) = (n + 1) + i
        BY <1>1, <4>1
      <4> QED BY <4>1, <4>2 DEF q
    <3>2. queue[i + 1].name = Taken(tools)[n + (i + 1)].name
          /\ queue[i + 1].in = Taken(tools)[n + (i + 1)].in
      BY <3>1 DEF Partly
    <3> QED BY <1>5, <3>1, <3>2
  <2> QED BY <2>1, <2>2, <2>3 DEF Partly
<1>8. Partly(record, queue)'
  BY <1>7 DEF Partly
<1>9. Tail(queue) = <<>> => Carried(record)'
  BY <1>3, <1>8 DEF Carried
<1> QED BY <1>6, <1>8, <1>9

\* Of an answer of the mock, what tells whether it asks for tools.
LEMMA MockAnswerShape ==
  /\ MockAnswer.stop_reason # "refusal"
  /\ MockAnswer.uses = <<>> <=> AlreadyUsedTools \/ Taken(tools) = <<>>
  /\ MockAnswer.uses # <<>> => MockAnswer.uses = MockUses(tools)
PROOF
<1>1. MockUses(tools) = <<>> <=> Taken(tools) = <<>>
  BY MockUsesShape
<1>2. CASE ~AlreadyUsedTools /\ MockUses(tools) # <<>>
  BY <1>1, <1>2 DEF MockAnswer, MockCalls
<1>3. CASE ~(~AlreadyUsedTools /\ MockUses(tools) # <<>>)
  BY <1>1, <1>3 DEF MockAnswer, MockText
<1> QED BY <1>2, <1>3

\* Nothing is carried out of a task that has nothing for the tools on offer.
LEMMA NothingToDo ==
  ASSUME Taken(tools) = <<>> PROVE Carried(<<>>)
PROOF
BY DEF Carried, Partly

\* The mock's calls are all still to do when it asks for them.
LEMMA AllToDo == Partly(<<>>, MockUses(tools))
PROOF
<1>1. /\ Taken(tools) \in Seq(Directive)
      /\ Len(MockUses(tools)) = Len(Taken(tools))
      /\ \A i \in 1..Len(Taken(tools)) :
           /\ MockUses(tools)[i].name = Taken(tools)[i].name
           /\ MockUses(tools)[i].in = Taken(tools)[i].in
  BY TakenShape, MockUsesShape
<1>2. Len(Taken(tools)) \in Nat /\ Len(<<>>) = 0
  BY <1>1
<1>3. \A i \in 1..Len(Taken(tools)) : 0 + i = i
  BY <1>2
<1> QED BY <1>1, <1>2, <1>3 DEF Partly

\* An output that is promised nothing, or that has all of the task in it.
LEMMA FinishKept ==
  ASSUME NEW stop, NEW steps, Finish(stop, steps), tools' = tools,
         maxSteps' = maxSteps, Kept(report),
         stop \in {"completed", "step_limit"} => Carried(record)',
         stop = "step_limit" => maxSteps = 1
  PROVE  Kept(out)' /\ Kept(report)'
PROOF
<1>1. report' = report
  BY DEF Finish
<1>2. Kept(report)'
  BY <1>1 DEF Kept, Carried, Partly
<1>3. CASE out' = NoReport
  BY <1>2, <1>3 DEF Kept, NoReport
<1>4. CASE out' = [by |-> "guest", stop |-> stop, steps |-> steps,
                   calls |-> record', usage |-> usage']
  <2>1. out'.stop = stop /\ out'.calls = record'
    BY <1>4
  <2> QED BY <1>2, <2>1 DEF Kept, Carried
<1> QED BY <1>3, <1>4 DEF Finish

\* Every step of a complete run keeps MockInv.
LEMMA NextMock ==
  ASSUME AgentInv, MockInv, [RunNext]_runVars
  PROVE  MockInv'
PROOF
<1> SUFFICES ASSUME provider = "mock", provider' = provider
             PROVE  (MockPlace /\ MockCounts /\ Kept(out) /\ Kept(report))'
  BY DEF MockInv, RunNext, Proceeds, Provided
<1>1. MockPlace /\ MockCounts /\ Kept(out) /\ Kept(report)
  BY DEF MockInv
<1>2. /\ step \in Nat /\ turns \in Nat /\ maxSteps \in 1..MaxSteps
      /\ pc = "ask" => turns = step - 1
      /\ MaxSteps \in Nat
  BY HostAssumption DEF AgentInv, ControlInv, CountInv
<1>3. at = "model" => pc = "ask_read"
  BY DEF AgentInv, ControlInv, ThreadInv
<1>4. ASSUME UNCHANGED <<out, report, tools, maxSteps>>
      PROVE  Kept(out)' /\ Kept(report)'
  BY <1>1, <1>4 DEF Kept, Carried, Partly
<1>5. CASE UNCHANGED runVars
  <2>1. MockPlace'
    BY <1>1, <1>5 DEF MockPlace, AlreadyUsedTools, Carried, Partly, MockAnswer
  <2> QED BY <1>1, <1>4, <1>5, <2>1 DEF MockCounts
<1>6. CASE ListRead
  <2>1. /\ pc = "list_read" /\ pc' = "ask" /\ step' = 1
        /\ messages' \in {<<UserText>>, <<UserText, UserText>>}
        /\ UNCHANGED <<maxSteps, record, out, report, turns>>
    BY <1>6, ReadShape DEF ListRead, ReadList
  <2>2. \A i \in DOMAIN messages' : messages'[i].results = <<>>
    BY <2>1 DEF UserText
  <2>3. ~AlreadyUsedTools'
    BY <2>2 DEF AlreadyUsedTools
  <2>4. record' = <<>> /\ out'.stop = "none" /\ report'.stop = "none"
    BY <1>1, <2>1 DEF MockPlace
  <2>5. MockPlace'
    BY <2>1, <2>3, <2>4 DEF MockPlace
  <2> QED BY <1>1, <2>1, <2>4, <2>5 DEF MockCounts, Kept
<1>7. CASE ModelAnswers(MockAnswer) /\ UNCHANGED tools
  <2>1. /\ at = "model" /\ at' = "guest" /\ pending'.res = Ok(MockAnswer)
        /\ UNCHANGED <<pc, maxSteps, step, messages, queue, record, out, report, turns>>
    BY <1>7, AnswerShape DEF ModelAnswers, CompleteEnd
  <2>2. pending'.res.body = MockAnswer
    BY <2>1 DEF Ok
  <2>3. MockAnswer' = MockAnswer
    BY <1>7, <2>1 DEF MockAnswer, AlreadyUsedTools
  <2>4. pc' = "ask_read"
    BY <1>3, <2>1
  <2>5. MockPlace'
    BY <1>1, <1>7, <2>1, <2>2, <2>3, <2>4
       DEF MockPlace, AlreadyUsedTools, Carried, Partly
  <2> QED BY <1>1, <1>4, <1>7, <2>1, <2>5 DEF MockCounts
<1>8. ASSUME HostReport, UNCHANGED <<tools, turns>>
      PROVE  (MockPlace /\ MockCounts /\ Kept(out) /\ Kept(report))'
  <2>1. /\ pc' = "reported" /\ report'.stop = "error"
        /\ UNCHANGED <<out, record, maxSteps>>
    BY <1>8 DEF HostReport
  <2> QED BY <1>1, <1>8, <2>1 DEF MockPlace, MockCounts, Kept, Carried, Partly
<1>9. CASE Trap /\ UNCHANGED tools
  BY <1>8, <1>9 DEF Trap, HostReport
<1>10. ASSUME Next, pc # "list_read", at # "model", tools' = tools
       PROVE  (MockPlace /\ MockCounts /\ Kept(out) /\ Kept(report))'
  <2>1. CASE Boot \/ BootFails \/ AllocInput \/ CallList
    <3>1. /\ pc \in {"boot", "alloc", "list"}
          /\ pc' \in {"alloc", "failed", "list", "list_read"}
          /\ UNCHANGED <<out, report, maxSteps, record, turns>>
      BY <2>1 DEF Boot, BootFails, AllocInput, CallList, ListTools, CallTooLong,
                  Enter
    <3> QED BY <1>1, <1>4, <1>10, <3>1 DEF MockPlace, MockCounts
  <2>2. CASE CallModel
    <3>1. /\ pc = "ask" /\ pc' = "ask_read"
          /\ UNCHANGED <<maxSteps, step, messages, record, out, report>>
      BY <2>2 DEF CallModel
    <3>2. AlreadyUsedTools' = AlreadyUsedTools /\ Carried(record)' = Carried(record)
      BY <1>10, <3>1 DEF AlreadyUsedTools, Carried, Partly
    <3>3. PICK len \in RequestLens : CompleteBegin(len) \/ CallTooLong(len, FALSE)
      BY <2>2 DEF CallModel
    <3>4. CASE CompleteBegin(len)
      <4>1. at' = "model" /\ turns' = turns + 1
        BY <3>4 DEF CompleteBegin
      <4>2. MockPlace'
        BY <1>1, <3>1, <3>2, <4>1 DEF MockPlace
      <4>3. turns' <= 2
        BY <1>1, <1>2, <3>1, <4>1 DEF MockPlace
      <4> QED BY <1>1, <1>4, <1>10, <3>1, <4>2, <4>3 DEF MockCounts
    <3>5. CASE CallTooLong(len, FALSE)
      <4>1. pending'.res = Err("invalid") /\ turns' = turns
        BY <3>5, AnswerShape DEF CallTooLong
      <4>2. pending'.res.kind # "ok"
        BY <4>1 DEF Err
      <4>3. MockPlace'
        BY <1>1, <3>1, <3>2, <4>2 DEF MockPlace
      <4> QED BY <1>1, <1>4, <1>10, <3>1, <4>1, <4>3 DEF MockCounts
    <3> QED BY <3>3, <3>4, <3>5
  <2>3. ASSUME ReadAnswer
        PROVE  /\ pc = "ask_read" /\ pending.res.body = MockAnswer /\ turns' = turns
               /\ \/ step = 1 /\ ~AlreadyUsedTools /\ record = <<>>
                  \/ step = 2 /\ AlreadyUsedTools /\ Carried(record)
    <3>1. pc = "ask_read" /\ at = "guest" /\ pending.res.kind = "ok" /\ turns' = turns
      BY <2>3, ReadShape DEF ReadAnswer
    <3> QED BY <1>1, <3>1 DEF MockPlace
  <2>4. CASE AskFailed
    <3>1. /\ Finish("error", step - 1) /\ pc' = "free_input"
          /\ UNCHANGED <<maxSteps, record, turns>>
      BY <2>4, ReadShape DEF AskFailed, Finish
    <3>2. Kept(out)' /\ Kept(report)'
      BY <1>1, <1>10, <3>1, FinishKept
    <3> QED BY <1>1, <3>1, <3>2 DEF MockPlace, MockCounts
  <2>5. CASE Refused
    BY <2>3, <2>5, MockAnswerShape DEF Refused
  <2>6. CASE Completed
    <3>1. /\ ReadAnswer /\ pending.res.body.uses = <<>> /\ Finish("completed", step)
          /\ pc' = "free_input" /\ UNCHANGED <<maxSteps, record>>
      BY <2>6 DEF Completed, Finish
    <3>2. AlreadyUsedTools \/ Taken(tools) = <<>>
      BY <2>3, <3>1, MockAnswerShape
    <3>3. Carried(record)
      BY <2>3, <3>1, <3>2, NothingToDo
    <3>4. Carried(record)'
      BY <1>10, <3>1, <3>3 DEF Carried, Partly
    <3>5. Kept(out)' /\ Kept(report)'
      BY <1>1, <1>10, <3>1, <3>4, FinishKept
    <3> QED BY <1>1, <2>3, <3>1, <3>5 DEF MockPlace, MockCounts
  <2>7. CASE ToolsRequested
    <3>1. /\ ReadAnswer /\ pending.res.body.uses # <<>>
          /\ queue' = pending.res.body.uses /\ pc' = "tool"
          /\ UNCHANGED <<maxSteps, step, record, out, report>>
      BY <2>7 DEF ToolsRequested
    <3>2. queue' = MockUses(tools) /\ step = 1 /\ record = <<>>
      BY <2>3, <3>1, MockAnswerShape
    <3>3. Partly(record, queue)'
      <4>1. Partly(record', queue')
        BY <3>1, <3>2, AllToDo
      <4> QED BY <1>10, <4>1 DEF Partly
    <3>4. MockPlace'
      BY <3>1, <3>2, <3>3 DEF MockPlace
    <3> QED BY <1>1, <1>4, <1>10, <2>3, <3>1, <3>4 DEF MockCounts
  <2>8. CASE CallTool \/ WebAnswers
    <3>1. /\ pc \in {"tool", "tool_read"} /\ pc' = "tool_read"
          /\ UNCHANGED <<maxSteps, step, queue, record, out, report, turns>>
      <4>1. CASE CallTool
        BY <4>1 DEF CallTool, InvokeTool, CallTooLong, FetchBegin, Enter
      <4>2. CASE WebAnswers
        BY <4>2 DEF WebAnswers, FetchEnd, AgentInv, ControlInv, ThreadInv
      <4> QED BY <2>8, <4>1, <4>2
    <3>2. Partly(record, queue)'
      <4>1. Partly(record, queue)
        BY <1>1, <3>1 DEF MockPlace
      <4> QED BY <1>10, <3>1, <4>1 DEF Partly
    <3>3. MockPlace'
      BY <1>1, <3>1, <3>2 DEF MockPlace
    <3> QED BY <1>1, <1>4, <1>10, <3>1, <3>3 DEF MockCounts
  <2>9. ASSUME NEW ok \in BOOLEAN, ToolAnswered(ok)
        PROVE  /\ step = 1 /\ turns' = turns /\ maxSteps' = maxSteps
               /\ Partly(record, queue)' /\ MockCounts'
               /\ Tail(queue) = <<>> => Carried(record)'
    <3>1. pc = "tool_read" /\ turns' = turns /\ maxSteps' = maxSteps
      BY <2>9, ReadShape DEF ToolAnswered
    <3>2. step = 1 /\ Partly(record, queue) /\ turns <= 2
          /\ \A i \in DOMAIN record : record[i].step = 1
      BY <1>1, <3>1 DEF MockPlace, MockCounts
    <3>3. /\ Partly(record, queue)'
          /\ \A i \in DOMAIN record' : record'[i].step = 1
          /\ Tail(queue) = <<>> => Carried(record)'
      BY <1>10, <2>9, <3>2, PartlyMoves
    <3> QED BY <3>1, <3>2, <3>3 DEF MockCounts
  <2>10. CASE ReadTool
    <3>1. PICK ok \in BOOLEAN : ToolAnswered(ok)
      BY <2>10 DEF ReadTool
    <3>2. pc' = "tool" /\ UNCHANGED <<step, out, report>>
      BY <2>10 DEF ReadTool
    <3>3. MockPlace'
      BY <2>9, <3>1, <3>2 DEF MockPlace
    <3> QED BY <1>4, <1>10, <2>9, <3>1, <3>2, <3>3
  <2>11. CASE AskAgain
    <3>1. PICK ok \in BOOLEAN : ToolAnswered(ok)
      BY <2>11 DEF AskAgain
    <3>2. /\ Tail(queue) = <<>> /\ messages' = Append(messages, ToolResults(results'))
          /\ step' = step + 1 /\ pc' = "ask" /\ UNCHANGED <<out, report>>
      BY <2>11 DEF AskAgain
    <3>3. step' = 2 /\ Carried(record)'
      BY <2>9, <3>1, <3>2
    <3>4. AlreadyUsedTools'
      <4>1. messages \in Seq(Message) /\ results \in Seq(ToolResultBlock)
            /\ results' = Append(results, [id |-> Head(queue).id, ok |-> ok])
        BY <3>1 DEF AgentInv, DataInv, ToolAnswered
      <4>2. results' # <<>>
        BY <4>1
      <4> DEFINE last == ToolResults(results')
      <4>3. last.results # <<>>
        BY <4>2 DEF ToolResults
      <4> HIDE DEF last
      <4>4. messages' = Append(messages, last) /\ Len(messages) + 1 \in DOMAIN messages'
            /\ messages'[Len(messages) + 1] = last
        BY <3>2, <4>1 DEF last
      <4> QED BY <4>3, <4>4 DEF AlreadyUsedTools
    <3>5. MockPlace'
      BY <3>2, <3>3, <3>4 DEF MockPlace
    <3> QED BY <1>4, <1>10, <2>9, <3>1, <3>2, <3>5
  <2>12. CASE StepLimit
    <3>1. PICK ok \in BOOLEAN : ToolAnswered(ok)
      BY <2>12 DEF StepLimit
    <3>2. /\ Tail(queue) = <<>> /\ step >= maxSteps
          /\ Finish("step_limit", maxSteps) /\ pc' = "free_input"
      BY <2>12 DEF StepLimit, Finish
    <3>3. maxSteps = 1
      BY <1>2, <2>9, <3>1, <3>2
    <3>4. Kept(out)' /\ Kept(report)'
      BY <1>1, <1>10, <2>9, <3>1, <3>2, <3>3, FinishKept
    <3> QED BY <2>9, <3>1, <3>2, <3>4 DEF MockPlace
  <2>13. CASE FreeInput
    <3>1. pc' = "free_output"
          /\ UNCHANGED <<maxSteps, record, out, report, turns>>
      BY <2>13 DEF FreeInput
    <3> QED BY <1>1, <1>4, <1>10, <3>1 DEF MockPlace, MockCounts
  <2>14. CASE EmptyOutput \/ Trap
    BY <1>8, <1>10, <2>14 DEF EmptyOutput, Trap, HostReport
  <2>15. CASE FreeOutput
    <3>1. /\ report' = out /\ pc' = "reported"
          /\ UNCHANGED <<maxSteps, record, out, turns>>
      BY <2>15 DEF FreeOutput
    <3>2. Kept(out)' /\ Kept(report)'
      BY <1>1, <1>10, <3>1 DEF Kept, Carried, Partly
    <3> QED BY <1>1, <3>1, <3>2 DEF MockPlace, MockCounts
  <2>16. ~(ReadList \/ (\E a \in Answers : ModelAnswers(a)) \/ ModelFails)
    BY <1>10 DEF ReadList, ModelAnswers, ModelFails, CompleteEnd
  <2> QED BY <1>10, <2>1, <2>2, <2>4, <2>5, <2>6, <2>7, <2>8, <2>10, <2>11,
             <2>12, <2>13, <2>14, <2>15, <2>16 DEF Next, Progress
<1> QED BY <1>5, <1>6, <1>7, <1>9, <1>10
        DEF RunNext, Proceeds, Provided, MockNext


\* What is said of the mock's run holds in every state of it.
LEMMA MockInvHolds == RunSpec => []MockInv
PROOF
<1>1. ASSUME RunInit PROVE MockInv
  <2>1. /\ pc = "boot" /\ record = <<>> /\ out = NoReport /\ report = NoReport
        /\ turns = 0
    BY <1>1 DEF RunInit, LoggedInit, Init, HostInit
  <2>2. out.stop = "none" /\ report.stop = "none"
    BY <2>1 DEF NoReport
  <2>3. DOMAIN record = {}
    BY <2>1
  <2> QED BY <2>1, <2>2, <2>3 DEF MockInv, MockPlace, MockCounts, Kept
<1>2. RunSpec => []AgentInv
  BY RunImplementsAgent, AgentInvHolds, PTL
<1> QED BY <1>1, <1>2, NextMock, PTL DEF RunSpec

\* The calls of a report that are the directives taken, one by one, are them.
LEMMA CarriedOut ==
  ASSUME NEW done \in Seq(CallRecord), Carried(done)
  PROVE  [i \in DOMAIN done |-> [name |-> done[i].name, in |-> done[i].in]] = Taken(tools)
PROOF
<1> DEFINE taken == Taken(tools)
           n == Len(taken)
<1>1. taken \in Seq(Directive)
  BY TakenShape
<1>2. /\ Len(done) + Len(<<>>) = n
      /\ \A i \in 1..Len(done) : done[i].name = taken[i].name /\ done[i].in = taken[i].in
  BY DEF Carried, Partly
<1> HIDE DEF taken
<1>3. n \in Nat /\ DOMAIN done = 1..n /\ taken = [i \in 1..n |-> taken[i]]
      /\ \A i \in 1..n : taken[i] \in Directive
  <2>1. Len(done) = n /\ n \in Nat
    BY <1>1, <1>2
  <2> QED BY <1>1, <2>1
<1>4. \A d \in Directive : d = [name |-> d.name, in |-> d.in]
  BY DEF Directive
<1>5. \A i \in 1..n : [name |-> done[i].name, in |-> done[i].in] = taken[i]
  BY <1>2, <1>3, <1>4
<1> QED BY <1>3, <1>5 DEF taken

(***************************************************************************)
(* A mock run that ends without error has made, in one turn, the calls of  *)
(* its task for the tools on offer, each once and in order, and only the   *)
(* caller's ceiling keeps it from a second turn.                           *)
(***************************************************************************)
THEOREM MockKeepsToTaskHolds == RunSpec => []MockKeepsToTask
PROOF
<1>1. AgentInv /\ MockInv => MockKeepsToTask
  <2> SUFFICES ASSUME AgentInv, MockInv, provider = "mock" PROVE MockKeepsToTask
    BY DEF MockKeepsToTask, DirectivesCarriedOut, MockEndsInTwoTurns
  <2>1. MockCounts /\ Kept(report) /\ report.calls \in Seq(CallRecord)
    BY DEF MockInv, AgentInv, DataInv, Output
  <2>2. DirectivesCarriedOut
    BY <2>1, CarriedOut DEF Kept, DirectivesCarriedOut
  <2>3. MockEndsInTwoTurns
    BY <2>1 DEF MockCounts, Kept, MockEndsInTwoTurns
  <2> QED BY <2>2, <2>3 DEF MockKeepsToTask
<1>2. RunSpec => []AgentInv
  BY RunImplementsAgent, AgentInvHolds, PTL
<1> QED BY <1>1, <1>2, MockInvHolds, PTL

=============================================================================
