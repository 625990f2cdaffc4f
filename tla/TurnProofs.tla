------------------------------ MODULE TurnProofs ------------------------------
(***************************************************************************)
(* Theorems about the two calls of a turn that leave the process, for      *)
(* every timeout, retry limit, body and answer of the far side, and about  *)
(* the turn that makes both.                                               *)
(***************************************************************************)
EXTENDS Turn, TLAPS

(***************************************************************************)
(* ModelClient                                                             *)
(***************************************************************************)

-----------------------------------------------------------------------------
(***************************************************************************)
(* The requests sent are the retries made, and one more from the moment a  *)
(* request leaves; the retry counter stays within the policy; and a call   *)
(* that has returned says what became of its last request.                 *)
(***************************************************************************)
RetryInv ==
  /\ phase \in {"ready", "sent", "asleep", "returned"}
  /\ attempt \in 0..MaxRetries
  /\ sent \in Nat
  /\ phase \in {"ready", "asleep"} => sent = attempt
  /\ phase \in {"sent", "returned"} => sent = attempt + 1
  /\ FailsOnlyInTheEnd

\* A failed request is either retried, and counted, or it was the last one.
LEMMA RetryOrFailShape ==
  ASSUME RetryInv, phase = "sent", NEW delays, RetryOrFail(delays),
         last' \in {"transport", "transient"}, sent' = sent
  PROVE  RetryInv'
PROOF
<1> USE ClientAssumption DEF RetryInv, FailsOnlyInTheEnd
<1>1. CASE MayRetry /\ \E delay \in delays : Retry(delay)
  BY <1>1 DEF MayRetry, Retry
<1>2. CASE ~MayRetry /\ Fail
  BY <1>2 DEF MayRetry, Fail
<1> QED BY <1>1, <1>2 DEF RetryOrFail

\* Every step of the client keeps the invariant.
LEMMA ClientStep ==
  ASSUME RetryInv, [ClientNext]_clientVars
  PROVE  RetryInv'
PROOF
<1>1. CASE Send
  BY <1>1, ClientAssumption
  DEF Send, RetryInv, FailsOnlyInTheEnd, Capped
<1>2. ASSUME NEW d, TransportFails(d) PROVE RetryInv'
  BY <1>2, RetryOrFailShape DEF TransportFails, Takes
<1>3. ASSUME NEW d, Succeeds(d) PROVE RetryInv'
  BY <1>3 DEF Succeeds, Takes, RetryInv, FailsOnlyInTheEnd
<1>4. ASSUME NEW d, Malformed(d) PROVE RetryInv'
  BY <1>4 DEF Malformed, Takes, Fail, RetryInv, FailsOnlyInTheEnd
<1>5. ASSUME NEW d, Transient(d) PROVE RetryInv'
  BY <1>5, RetryOrFailShape DEF Transient, Takes
<1>6. ASSUME NEW d, Permanent(d) PROVE RetryInv'
  BY <1>6 DEF Permanent, Takes, Fail, RetryInv, FailsOnlyInTheEnd
<1>7. CASE Wake
  BY <1>7 DEF Wake, RetryInv, FailsOnlyInTheEnd
<1>8. CASE UNCHANGED clientVars
  BY <1>8 DEF clientVars, RetryInv, FailsOnlyInTheEnd
<1> QED BY <1>1, <1>2, <1>3, <1>4, <1>5, <1>6, <1>7, <1>8 DEF ClientNext

LEMMA RetryInvHolds == ClientSpec => []RetryInv
PROOF
<1>1. ASSUME ClientInit PROVE RetryInv
  BY <1>1, ClientAssumption DEF ClientInit, RetryInv, FailsOnlyInTheEnd
<1> QED BY <1>1, ClientStep, PTL DEF ClientSpec

\* No model turn costs more than max_retries + 1 requests.
THEOREM AttemptsBoundedHolds == ClientSpec => []AttemptsBounded
PROOF
<1>1. ASSUME RetryInv PROVE AttemptsBounded
  BY <1>1, ClientAssumption DEF RetryInv, AttemptsBounded
<1> QED BY <1>1, RetryInvHolds, PTL

\* A turn fails on a transient error only after every retry it was granted.
THEOREM FailsOnlyInTheEndHolds == ClientSpec => []FailsOnlyInTheEnd
PROOF
<1>1. ASSUME RetryInv PROVE FailsOnlyInTheEnd
  BY <1>1 DEF RetryInv
<1> QED BY <1>1, RetryInvHolds, PTL

-----------------------------------------------------------------------------
\* An answer or a permanent refusal ends the call.
FinalInv == last \in {"permanent", "malformed", "success"} => phase = "returned"

LEMMA FinalStep ==
  ASSUME FinalInv, [ClientNext]_clientVars
  PROVE  /\ FinalInv'
         /\ last \in {"permanent", "malformed", "success"} => sent' = sent
PROOF
<1> USE DEF FinalInv
<1>1. CASE Send \/ Wake
  BY <1>1 DEF Send, Wake
<1>2. ASSUME NEW d, TransportFails(d) \/ Transient(d)
      PROVE  FinalInv' /\ sent' = sent
  BY <1>2 DEF TransportFails, Transient
<1>3. ASSUME NEW d, Succeeds(d) \/ Malformed(d) \/ Permanent(d)
      PROVE  FinalInv' /\ sent' = sent
  BY <1>3 DEF Succeeds, Malformed, Permanent, Fail
<1>4. CASE UNCHANGED clientVars
  BY <1>4 DEF clientVars
<1> QED BY <1>1, <1>2, <1>3, <1>4 DEF ClientNext

\* Nothing is sent again after an answer or a permanent refusal.
THEOREM FinalIsFinalHolds == ClientSpec => FinalIsFinal
PROOF
<1>1. ASSUME ClientInit PROVE FinalInv
  BY <1>1 DEF ClientInit, FinalInv
<1> QED BY <1>1, FinalStep, PTL DEF ClientSpec, FinalIsFinal

-----------------------------------------------------------------------------
(***************************************************************************)
(* Time.  Each request that has come back took two timeouts at most, and   *)
(* each wait that is over was no longer than the longest.                  *)
(***************************************************************************)
Spent(requests, waits) == requests * (2 * Timeout) + waits * LongestWait

TimeInv ==
  /\ wait \in 0..LongestWait
  /\ elapsed \in Nat
  /\ outcome \in {"none", "ok", "upstream"}
  /\ last \in {"none", "transport", "success", "malformed", "transient", "permanent"}
  /\ phase \in {"ready", "sent"} => elapsed <= Spent(attempt, attempt)
  /\ phase = "asleep" => attempt > 0 /\ elapsed <= Spent(attempt, attempt - 1)
  /\ phase = "returned" => elapsed <= Spent(attempt + 1, attempt)

\* backoff grows with the retry, and is a number of units.
LEMMA BackoffGrows ==
  ASSUME NEW m \in Nat, NEW n \in Nat, m <= n
  PROVE  backoff(m) \in Nat /\ backoff(m) <= backoff(n)
PROOF
<1>1. Doubled[1] = 2 /\ Doubled[2] = 4 /\ Doubled[3] = 8 /\ Doubled[4] = 16 /\ Doubled[5] = 32
  BY DEF Doubled
<1>2. ASSUME NEW k \in Nat
      PROVE  \/ k = 0 /\ backoff(k) = 1
             \/ k = 1 /\ backoff(k) = 2
             \/ k = 2 /\ backoff(k) = 4
             \/ k = 3 /\ backoff(k) = 8
             \/ k = 4 /\ backoff(k) = 16
             \/ k >= 5 /\ backoff(k) = 32
  BY <1>1 DEF backoff, Doublings
<1> HIDE DEF backoff
<1>3. backoff(m) \in Nat
  BY <1>2
<1>4. backoff(m) <= backoff(n)
  BY <1>2
<1> QED BY <1>3, <1>4

LEMMA LongestIsLongest ==
  /\ LongestWait \in Nat
  /\ \A n \in 0..MaxRetries : backoff(n) \in 0..LongestWait
  /\ RetryAfters \subseteq 0..LongestWait
PROOF
<1>1. backoff(MaxRetries) \in Nat
  BY BackoffGrows, ClientAssumption
<1>2. LongestWait \in Nat /\ backoff(MaxRetries) <= LongestWait
      /\ LongestRetryAfter <= LongestWait
  BY <1>1, ClientAssumption DEF LongestWait
<1>3. ASSUME NEW n \in 0..MaxRetries PROVE backoff(n) \in 0..LongestWait
  BY <1>1, <1>2, BackoffGrows, ClientAssumption
<1> QED BY <1>2, <1>3, ClientAssumption

LEMMA Product ==
  ASSUME NEW k \in Nat, NEW t \in Nat
  PROVE  k * t \in Nat /\ (k + 1) * t = k * t + t
PROOF
OBVIOUS

LEMMA ProductGrows ==
  ASSUME NEW j \in Nat, NEW k \in Nat, NEW t \in Nat, j <= k
  PROVE  j * t <= k * t
PROOF
OBVIOUS

\* Spent counts up, and does not go past MaxTime.
LEMMA SpentGrows ==
  ASSUME NEW n \in Nat, NEW w \in Nat
  PROVE  /\ Spent(n, w) \in Nat
         /\ Spent(n + 1, w) = Spent(n, w) + 2 * Timeout
         /\ Spent(n, w + 1) = Spent(n, w) + LongestWait
         /\ n <= MaxRetries + 1 /\ w <= MaxRetries => Spent(n, w) <= MaxTime
PROOF
<1> DEFINE t == 2 * Timeout
           l == LongestWait
<1>1. t \in Nat /\ l \in Nat
  BY ClientAssumption, LongestIsLongest
<1>2. MaxTime = (MaxRetries + 1) * t + MaxRetries * l
  <2>1. (MaxRetries + 1) * 2 * Timeout = (MaxRetries + 1) * (2 * Timeout)
    BY ClientAssumption
  <2> QED BY <2>1 DEF MaxTime
<1>3. \A a \in Nat, b \in Nat : Spent(a, b) = a * t + b * l
  BY DEF Spent
<1> HIDE DEF t, l
<1>4. /\ n * t \in Nat /\ (n + 1) * t = n * t + t
      /\ w * l \in Nat /\ (w + 1) * l = w * l + l
  BY <1>1, Product
<1>5. Spent(n, w) = n * t + w * l /\ Spent(n + 1, w) = (n + 1) * t + w * l
      /\ Spent(n, w + 1) = n * t + (w + 1) * l
  BY <1>3
<1>6. ASSUME n <= MaxRetries + 1, w <= MaxRetries PROVE Spent(n, w) <= MaxTime
  <2>1. n * t <= (MaxRetries + 1) * t /\ w * l <= MaxRetries * l
    BY <1>1, <1>6, ProductGrows, ClientAssumption
  <2>2. (MaxRetries + 1) * t \in Nat /\ MaxRetries * l \in Nat
    BY <1>1, Product, ClientAssumption
  <2> QED BY <1>2, <1>4, <1>5, <2>1, <2>2
<1>7. Spent(n + 1, w) = Spent(n, w) + t /\ Spent(n, w + 1) = Spent(n, w) + l
      /\ Spent(n, w) \in Nat
  BY <1>1, <1>4, <1>5
<1> QED BY <1>6, <1>7 DEF t, l

\* A request that comes back is within its time, and is not capped.
LEMMA RequestTime ==
  ASSUME RetryInv, TimeInv, NEW d, NEW parts \in 1..2, Takes(d, parts)
  PROVE  elapsed' \in Nat /\ elapsed' <= Spent(attempt + 1, attempt)
PROOF
<1>1. /\ elapsed \in Nat /\ elapsed <= Spent(attempt, attempt)
      /\ attempt \in Nat /\ attempt <= MaxRetries
  BY ClientAssumption DEF Takes, TimeInv, RetryInv
<1>2. d \in Nat /\ d <= 2 * Timeout
  <2>1. CASE parts = 1
    BY <2>1, ClientAssumption DEF Takes
  <2>2. CASE parts = 2
    BY <2>2, ClientAssumption DEF Takes
  <2> QED BY <2>1, <2>2
<1>3. /\ Spent(attempt, attempt) \in Nat
      /\ Spent(attempt + 1, attempt) = Spent(attempt, attempt) + 2 * Timeout
  BY <1>1, SpentGrows
<1>4. Spent(attempt + 1, attempt) \in Nat /\ Spent(attempt + 1, attempt) <= MaxTime
      /\ MaxTime \in Int
  <2>1. MaxTime = Spent(MaxRetries + 1, MaxRetries)
    BY ClientAssumption DEF MaxTime, Spent
  <2>2. MaxTime \in Nat
    BY <2>1, SpentGrows, ClientAssumption
  <2>3. attempt + 1 \in Nat /\ attempt + 1 <= MaxRetries + 1
    BY <1>1, ClientAssumption
  <2> QED BY <1>1, <2>2, <2>3, SpentGrows
<1>5. elapsed + d <= Spent(attempt + 1, attempt) /\ elapsed + d \in Nat
  BY <1>1, <1>2, <1>3, ClientAssumption
<1>6. ~(elapsed + d > MaxTime)
  BY <1>4, <1>5
<1>7. elapsed' = elapsed + d
  BY <1>6 DEF Takes, Capped
<1> QED BY <1>5, <1>7

LEMMA RetryTime ==
  ASSUME RetryInv, TimeInv, NEW delays, RetryOrFail(delays),
         delays \subseteq RetryAfters \cup {backoff(attempt + 1)},
         elapsed' \in Nat, elapsed' <= Spent(attempt + 1, attempt),
         last' \in {"transport", "transient"}
  PROVE  TimeInv'
PROOF
<1>1. attempt \in Nat /\ attempt <= MaxRetries
  BY ClientAssumption DEF RetryInv
<1>2. CASE MayRetry /\ \E delay \in delays : Retry(delay)
  <2>1. PICK delay \in delays : Retry(delay)
    BY <1>2
  <2>2. delay \in 0..LongestWait
    <3>1. attempt + 1 \in 0..MaxRetries
      BY <1>1, <1>2, ClientAssumption DEF MayRetry
    <3>2. delay \in RetryAfters \/ delay = backoff(attempt + 1)
      OBVIOUS
    <3> QED BY <3>1, <3>2, LongestIsLongest
  <2>3. attempt' = attempt + 1 /\ attempt' - 1 = attempt /\ attempt' > 0
    BY <1>1, <2>1 DEF Retry
  <2>4. elapsed' <= Spent(attempt', attempt' - 1)
    BY <2>3
  <2>5. /\ wait' = delay /\ phase' = "asleep" /\ outcome' = outcome
    BY <2>1 DEF Retry
  <2>6. LongestWait' = LongestWait
    BY DEF LongestWait, backoff, Doubled, Doublings
  <2>7. Spent(attempt, attempt - 1)' = Spent(attempt', attempt' - 1)
    BY DEF Spent, LongestWait, backoff, Doubled, Doublings
  <2> QED BY <2>2, <2>3, <2>4, <2>5, <2>6, <2>7 DEF TimeInv
<1>3. CASE ~MayRetry /\ Fail
  <2>1. /\ phase' = "returned" /\ outcome' = "upstream" /\ UNCHANGED <<attempt, wait>>
    BY <1>3 DEF Fail
  <2>2. LongestWait' = LongestWait /\ Spent(attempt + 1, attempt)' = Spent(attempt' + 1, attempt')
    BY DEF Spent, LongestWait, backoff, Doubled, Doublings
  <2> QED BY <2>1, <2>2 DEF TimeInv
<1> QED BY <1>2, <1>3 DEF RetryOrFail

LEMMA ReturnTime ==
  ASSUME TimeInv, phase' = "returned", UNCHANGED <<attempt, wait>>,
         elapsed' \in Nat, elapsed' <= Spent(attempt + 1, attempt),
         outcome' \in {"ok", "upstream"}, last' \in {"success", "malformed", "permanent"}
  PROVE  TimeInv'
PROOF
<1>1. LongestWait' = LongestWait /\ Spent(attempt + 1, attempt)' = Spent(attempt' + 1, attempt')
  BY DEF Spent, LongestWait, backoff, Doubled, Doublings
<1> QED BY <1>1 DEF TimeInv

LEMMA TimeStep ==
  ASSUME RetryInv, TimeInv, [ClientNext]_clientVars
  PROVE  TimeInv'
PROOF
<1>1. CASE Send \/ UNCHANGED clientVars
  <2>1. LongestWait' = LongestWait
        /\ Spent(attempt, attempt)' = Spent(attempt', attempt')
        /\ Spent(attempt, attempt - 1)' = Spent(attempt', attempt' - 1)
        /\ Spent(attempt + 1, attempt)' = Spent(attempt' + 1, attempt')
    BY DEF Spent, LongestWait, backoff, Doubled, Doublings
  <2> QED BY <1>1, <2>1 DEF Send, clientVars, TimeInv
<1>2. ASSUME NEW d, TransportFails(d) PROVE TimeInv'
  <2>1. elapsed' \in Nat /\ elapsed' <= Spent(attempt + 1, attempt)
    BY <1>2, RequestTime DEF TransportFails
  <2> QED BY <1>2, <2>1, RetryTime DEF TransportFails
<1>3. ASSUME NEW d, Transient(d) PROVE TimeInv'
  <2>1. elapsed' \in Nat /\ elapsed' <= Spent(attempt + 1, attempt)
    BY <1>3, RequestTime DEF Transient
  <2> QED BY <1>3, <2>1, RetryTime DEF Transient
<1>4. ASSUME NEW d, Succeeds(d) \/ Malformed(d) \/ Permanent(d) PROVE TimeInv'
  <2>1. elapsed' \in Nat /\ elapsed' <= Spent(attempt + 1, attempt)
    BY <1>4, RequestTime DEF Succeeds, Malformed, Permanent
  <2> QED BY <1>4, <2>1, ReturnTime DEF Succeeds, Malformed, Permanent, Fail
<1>5. CASE Wake
  <2>1. /\ attempt \in Nat /\ attempt - 1 \in Nat /\ attempt <= MaxRetries
        /\ elapsed \in Nat /\ elapsed <= Spent(attempt, attempt - 1)
        /\ wait \in Nat /\ wait <= LongestWait /\ (attempt - 1) + 1 = attempt
    BY <1>5, LongestIsLongest, ClientAssumption DEF Wake, TimeInv, RetryInv
  <2>2. /\ Spent(attempt, attempt - 1) \in Nat
        /\ Spent(attempt, attempt) = Spent(attempt, attempt - 1) + LongestWait
        /\ Spent(attempt, attempt) \in Nat
    <3>1. Spent(attempt, (attempt - 1) + 1) = Spent(attempt, attempt - 1) + LongestWait
      BY <2>1, SpentGrows
    <3>2. Spent(attempt, attempt - 1) \in Nat /\ Spent(attempt, attempt) \in Nat
      BY <2>1, SpentGrows
    <3> QED BY <2>1, <3>1, <3>2
  <2>3. Spent(attempt, attempt) <= MaxTime /\ MaxTime \in Int
    <3>1. MaxTime = Spent(MaxRetries + 1, MaxRetries)
      BY ClientAssumption DEF MaxTime, Spent
    <3>2. MaxTime \in Nat
      BY <3>1, SpentGrows, ClientAssumption
    <3>3. attempt <= MaxRetries + 1
      BY <2>1, ClientAssumption
    <3> QED BY <2>1, <3>2, <3>3, SpentGrows
  <2>4. elapsed + wait <= Spent(attempt, attempt) /\ elapsed + wait \in Nat
    BY <2>1, <2>2, LongestIsLongest
  <2>5. ~(elapsed + wait > MaxTime)
    BY <2>2, <2>3, <2>4
  <2>6. elapsed' = elapsed + wait
    BY <1>5, <2>5 DEF Wake, Capped
  <2>7. phase' = "ready" /\ UNCHANGED <<attempt, wait, outcome, last>>
    BY <1>5 DEF Wake
  <2>8. LongestWait' = LongestWait /\ Spent(attempt, attempt)' = Spent(attempt', attempt')
    BY DEF Spent, LongestWait, backoff, Doubled, Doublings
  <2> QED BY <2>4, <2>6, <2>7, <2>8 DEF TimeInv
<1> QED BY <1>1, <1>2, <1>3, <1>4, <1>5 DEF ClientNext

LEMMA TimeInvHolds == ClientSpec => []TimeInv
PROOF
<1>1. ASSUME ClientInit PROVE TimeInv
  <2>1. Spent(0, 0) \in Nat
    BY SpentGrows
  <2> QED BY <1>1, <2>1, LongestIsLongest DEF ClientInit, TimeInv
<1> QED BY <1>1, TimeStep, RetryInvHolds, PTL DEF ClientSpec

\* The client's state stays in its types.
THEOREM ClientTypeCorrect == ClientSpec => []ClientTypeOK
PROOF
<1>1. ASSUME RetryInv, TimeInv PROVE ClientTypeOK
  BY <1>1, LongestIsLongest DEF RetryInv, TimeInv, ClientTypeOK
<1> QED BY <1>1, RetryInvHolds, TimeInvHolds, PTL

(***************************************************************************)
(* A turn holds the run's thread no longer than MaxTime, for every timeout *)
(* and number of retries: as long as the API may name in its header.       *)
(***************************************************************************)
THEOREM CallTimeBoundedHolds == ClientSpec => []CallTimeBounded
PROOF
<1>1. ASSUME RetryInv, TimeInv PROVE elapsed <= MaxTime
  <2>1. attempt \in Nat /\ attempt + 1 \in Nat /\ attempt <= MaxRetries
        /\ attempt + 1 <= MaxRetries + 1 /\ attempt <= MaxRetries + 1
    BY <1>1, ClientAssumption DEF RetryInv
  <2>2. elapsed \in Nat /\ MaxTime \in Nat
    <3>1. MaxTime = Spent(MaxRetries + 1, MaxRetries)
      BY ClientAssumption DEF MaxTime, Spent
    <3>2. MaxTime \in Nat
      BY <3>1, SpentGrows, ClientAssumption
    <3> QED BY <1>1, <3>2 DEF TimeInv
  <2>3. CASE phase \in {"ready", "sent"}
    <3>1. Spent(attempt, attempt) \in Nat /\ Spent(attempt, attempt) <= MaxTime
      BY <2>1, SpentGrows
    <3> QED BY <1>1, <2>2, <2>3, <3>1 DEF TimeInv
  <2>4. CASE phase = "asleep"
    <3>1. attempt - 1 \in Nat /\ attempt - 1 <= MaxRetries
      BY <1>1, <2>1, <2>4, ClientAssumption DEF TimeInv
    <3>2. Spent(attempt, attempt - 1) \in Nat /\ Spent(attempt, attempt - 1) <= MaxTime
      BY <2>1, <3>1, SpentGrows
    <3> QED BY <1>1, <2>2, <2>4, <3>2 DEF TimeInv
  <2>5. CASE phase = "returned"
    <3>1. Spent(attempt + 1, attempt) \in Nat /\ Spent(attempt + 1, attempt) <= MaxTime
      BY <2>1, SpentGrows
    <3> QED BY <1>1, <2>2, <2>5, <3>1 DEF TimeInv
  <2> QED BY <1>1, <2>3, <2>4, <2>5 DEF RetryInv
<1>2. ASSUME RetryInv, TimeInv PROVE CallTimeBounded
  BY <1>1, <1>2 DEF CallTimeBounded
<1> QED BY <1>2, RetryInvHolds, TimeInvHolds, PTL

-----------------------------------------------------------------------------
(***************************************************************************)
(* HttpBody                                                                *)
(***************************************************************************)

(***************************************************************************)
(* The buffer never holds more than the server has sent, and the clock is  *)
(* ahead of the completed waits by the current one at most.                *)
(***************************************************************************)
FetchInv ==
  /\ HttpTypeOK
  /\ got <= body
  /\ pc = "send" => got = 0
  /\ pc # "done" => result.kind = "none"
  /\ pc = "end" => got = body \/ got = Cap \/ ~framed
  /\ fetchTime <= FetchTimeout * (got + (IF pc = "send" THEN 0 ELSE 1)) + waited
  /\ UnmarkedIsWhole

LEMMA FetchInit == HttpInit => FetchInv
BY HttpAssumption DEF HttpInit, FetchInv, HttpTypeOK, UnmarkedIsWhole, None

LEMMA FetchStep == FetchInv /\ [HttpNext]_httpVars => FetchInv'
<1> SUFFICES ASSUME FetchInv, [HttpNext]_httpVars PROVE FetchInv'
  OBVIOUS
<1> USE HttpAssumption
<1>0. body \in Nat /\ got \in Nat /\ waited \in Nat /\ fetchTime \in Nat
  BY DEF FetchInv, HttpTypeOK
<1> DEFINE Bound == fetchTime <= FetchTimeout * (got + (IF pc = "send" THEN 0 ELSE 1)) + waited
<1>a. Bound
  BY DEF FetchInv
<1>b. ASSUME UNCHANGED <<got, waited, fetchTime>>, pc' # "send" PROVE Bound'
  <2>1. /\ FetchTimeout * (got + 0) \in Nat /\ FetchTimeout * (got + 1) \in Nat
        /\ FetchTimeout * (got + 0) <= FetchTimeout * (got + 1)
    BY <1>0
  <2> QED  BY <1>0, <1>a, <1>b, <2>1
<1>1. ASSUME NEW kind \in {"ok", "redirect", "upstream"}, NEW cut \in BOOLEAN,
             Return(kind, cut), UNCHANGED <<body, framed, got, waited, fetchTime>>,
             kind = "ok" /\ ~cut /\ framed => got = body
      PROVE  FetchInv'
  <2>1. Bound'
    BY <1>b, <1>1 DEF Return
  <2> HIDE DEF Bound
  <2> QED  BY <1>1, <2>1 DEF Bound, Return, FetchInv, HttpTypeOK, UnmarkedIsWhole
<1>8. CASE Redirected \/ SendFails \/ TimesOut
  <2>1. CASE Redirected
    BY <1>1, <2>1 DEF Redirected
  <2>2. CASE SendFails \/ TimesOut
    BY <1>1, <2>2 DEF SendFails, TimesOut
  <2> QED  BY <1>8, <2>1, <2>2
<1>9. CASE Reply
  <2>1. got >= Cap <=> got = Cap
    BY <1>0 DEF FetchInv, HttpTypeOK
  <2>2. ~(got >= Cap) /\ framed => got = body
    BY <1>9, <2>1 DEF Reply, FetchInv
  <2>3. CASE got >= Cap
    <3>1. Return("ok", TRUE)
      BY <1>9, <2>3 DEF Reply, Return
    <3> QED  BY <1>1, <1>9, <3>1 DEF Reply
  <2>4. CASE ~(got >= Cap)
    <3>0. (got >= Cap) = FALSE
      BY <1>0, <2>4
    <3>1. Return("ok", FALSE)
      BY <1>9, <3>0 DEF Reply, Return
    <3> QED  BY <1>1, <1>9, <2>2, <2>4, <3>1 DEF Reply
  <2> QED  BY <2>3, <2>4
<1>2. CASE Headers
  <2>1. /\ FetchTimeout * (0 + 0) = 0 /\ FetchTimeout * (0 + 1) = FetchTimeout
    OBVIOUS
  <2>2. got = 0 /\ fetchTime <= FetchTimeout
    <3>1. got = 0 /\ pc = "send"
      BY <1>2 DEF Headers, FetchInv
    <3>2. fetchTime <= FetchTimeout * (0 + 0) + waited
      BY <1>a, <3>1
    <3> QED  BY <1>0, <2>1, <3>1, <3>2 DEF FetchInv, HttpTypeOK
  <2>3. Bound'
    BY <1>0, <1>2, <2>1, <2>2 DEF Headers
  <2> HIDE DEF Bound
  <2> QED  BY <1>2, <2>3 DEF Bound, Headers, FetchInv, HttpTypeOK, UnmarkedIsWhole
<1>3. ASSUME NEW n \in 1..Cap, Read(n) PROVE FetchInv'
  <2>1. fetchTime <= FetchTimeout * (got + 1) + FetchTimeout
    BY <1>0, <1>3 DEF Read, FetchInv, HttpTypeOK
  <2>2. FetchTimeout * (got + 1) + FetchTimeout <= FetchTimeout * ((got + n) + 1)
    <3>1. FetchTimeout * ((got + n) + 1) = FetchTimeout * (got + 1) + FetchTimeout * n
      BY <1>0, <1>3
    <3>2. FetchTimeout * n >= FetchTimeout
      BY <1>3
    <3>3. FetchTimeout * (got + 1) \in Nat /\ FetchTimeout * n \in Nat
      BY <1>0, <1>3
    <3> QED  BY <3>1, <3>2, <3>3
  <2>3. FetchTimeout * (got + 1) \in Nat /\ FetchTimeout * ((got + n) + 1) \in Nat
    BY <1>0, <1>3
  <2>4. fetchTime <= FetchTimeout * ((got + n) + 1) + 0
    BY <1>0, <2>1, <2>2, <2>3
  <2> QED  BY <1>0, <1>3, <2>4 DEF Read, FetchInv, HttpTypeOK, UnmarkedIsWhole
<1>4. CASE EndOfBody \/ LimitReached
  <2>1. Bound'
    BY <1>b, <1>4 DEF EndOfBody, LimitReached
  <2> HIDE DEF Bound
  <2> QED
    BY <1>4, <2>1 DEF Bound, EndOfBody, LimitReached, FetchInv, HttpTypeOK, UnmarkedIsWhole
<1>5. CASE BreaksOff /\ framed
  BY <1>1, <1>5 DEF BreaksOff
<1>10. CASE BreaksOff /\ ~framed
  <2>1. Bound'
    BY <1>b, <1>10 DEF BreaksOff
  <2> HIDE DEF Bound
  <2> QED  BY <1>10, <2>1 DEF Bound, BreaksOff, FetchInv, HttpTypeOK, UnmarkedIsWhole
<1>6. CASE Tick
  <2>1. FetchTimeout * (got + (IF pc = "send" THEN 0 ELSE 1)) \in Nat
    BY <1>0
  <2> QED  BY <1>0, <1>6, <2>1 DEF Tick, Waiting, fetch, FetchInv, HttpTypeOK, UnmarkedIsWhole
<1>7. CASE UNCHANGED httpVars
  BY <1>7 DEF httpVars, fetch, FetchInv, HttpTypeOK, UnmarkedIsWhole
<1> QED  BY <1>2, <1>3, <1>4, <1>5, <1>6, <1>7, <1>8, <1>9, <1>10 DEF HttpNext

LEMMA FetchAlways == HttpSpec => []FetchInv
BY FetchInit, FetchStep, PTL DEF HttpSpec

\* The buffer never outgrows tools.http.max_response_bytes (tools.rs:113-117).
THEOREM HttpTypeCorrect == HttpSpec => []HttpTypeOK
<1>1. FetchInv => HttpTypeOK
  BY DEF FetchInv
<1> QED  BY <1>1, FetchAlways, PTL

\* An unmarked reply is the whole body (tools.rs:113-131).
THEOREM UnmarkedIsWholeHolds == HttpSpec => []UnmarkedIsWhole
<1>1. FetchInv => UnmarkedIsWhole
  BY DEF FetchInv
<1> QED  BY <1>1, FetchAlways, PTL

\* A fetch holds a run up for a timeout for the head and for each byte at most.
THEOREM FetchTimeBoundedHolds == HttpSpec => []FetchTimeBounded
<1>1. FetchInv => FetchTimeBounded
  <2> SUFFICES ASSUME FetchInv PROVE FetchTimeBounded
    OBVIOUS
  <2> DEFINE reads == got + (IF pc = "send" THEN 0 ELSE 1)
  <2>1. /\ reads \in Nat /\ FetchTimeout \in Nat /\ fetchTime \in Nat
        /\ waited \in Nat /\ waited <= FetchTimeout /\ got \in Nat
    BY HttpAssumption DEF FetchInv, HttpTypeOK
  <2>2. fetchTime <= FetchTimeout * reads + waited
    BY DEF FetchInv
  <2>3. 1 + got + (IF pc = "send" THEN 0 ELSE 1) = reads + 1
    BY <2>1
  <2> HIDE DEF reads
  <2>4. FetchTimeout * (reads + 1) = FetchTimeout * reads + FetchTimeout /\ FetchTimeout * reads \in Nat
    BY <2>1
  <2>5. fetchTime <= FetchTimeout * (reads + 1)
    BY <2>1, <2>2, <2>4
  <2> QED  BY <2>3, <2>5 DEF FetchTimeBounded
<1> QED  BY <1>1, FetchAlways, PTL

(***************************************************************************)
(* Turn                                                                    *)
(***************************************************************************)

-----------------------------------------------------------------------------
\* A step of a turn is one of the model's call, or one of the fetch.
LEMMA StepOfTurn ==
  ASSUME [TurnNext]_turnVars
  PROVE  [ClientNext]_clientVars /\ [HttpNext]_httpVars
PROOF
BY DEF TurnNext, AskModel, Fetch, turnVars

(***************************************************************************)
(* What is proved of each of the two calls is proved of them in a turn,    *)
(* where the guest's one thread makes them one after the other.            *)
(***************************************************************************)
THEOREM TurnMakesItsCalls == TurnSpec => ClientSpec /\ HttpSpec
PROOF
<1>1. TurnInit => ClientInit /\ HttpInit
  BY DEF TurnInit
<1> QED BY <1>1, StepOfTurn, PTL DEF TurnSpec, ClientSpec, HttpSpec

(***************************************************************************)
(* How far the model's call has come: three stations for each attempt, of  *)
(* which the last is skipped on the way to the next one.                   *)
(***************************************************************************)
AskedSoFar ==
  3 * attempt + (CASE phase = "asleep" -> -1 [] phase = "ready" -> 0
                   [] phase = "sent" -> 1 [] OTHER -> 3)

\* The stations of a fetch that are behind it, the bytes that came among them.
Reached ==
  got + (CASE pc = "send" -> 0 [] pc = "read" -> 1 [] pc = "end" -> 2 [] OTHER -> 3)

\* How far a fetch has come: at each station it may wait for FetchTimeout ticks.
FetchedSoFar == (FetchTimeout + 1) * Reached + waited

(***************************************************************************)
(* Each step of a turn takes one of its calls further, and none takes one  *)
(* back: not a retry, nor a byte that has the timer start again.           *)
(***************************************************************************)
TurnGetsOn ==
  \/ AskedSoFar' > AskedSoFar /\ FetchedSoFar' = FetchedSoFar
  \/ AskedSoFar' = AskedSoFar /\ FetchedSoFar' > FetchedSoFar

\* And there is an end to how far they can come.
TurnHasEnd ==
  /\ AskedSoFar <= 3 * (MaxRetries + 1)
  /\ FetchedSoFar <= (FetchTimeout + 1) * (Cap + 4)

\* A station more outweighs all the ticks that may pass at one.
LEMMA StationOutweighs ==
  ASSUME NEW f \in Nat, NEW k \in Nat, NEW j \in Nat, k < j,
         NEW w \in 0..f, NEW v \in Nat
  PROVE  (f + 1) * k + w < (f + 1) * j + v
PROOF
<1>1. PICK d \in Nat : j = k + 1 + d
  <2>1. j - k - 1 \in Nat /\ j = k + 1 + (j - k - 1)
    OBVIOUS
  <2> QED BY <2>1
<1> DEFINE kk == (f + 1) * k
           dd == (f + 1) * d
<1>2. (f + 1) * j = kk + (f + 1) + dd
  BY <1>1
<1>3. kk \in Nat /\ dd \in Nat
  OBVIOUS
<1> HIDE DEF kk, dd
<1>4. kk + w < kk + (f + 1) + dd + v
  BY <1>3
<1> QED BY <1>2, <1>4 DEF kk

\* A step of the model's call takes it further.
LEMMA AskGetsOn ==
  ASSUME RetryInv, ClientNext
  PROVE  AskedSoFar' > AskedSoFar
PROOF
<1> USE ClientAssumption DEF RetryInv, AskedSoFar
<1>1. CASE Send
  BY <1>1 DEF Send
<1>2. ASSUME phase = "sent", NEW delays, RetryOrFail(delays)
      PROVE  AskedSoFar' > AskedSoFar
  BY <1>2 DEF RetryOrFail, Retry, Fail
<1>3. ASSUME NEW d \in 0..(2 * Timeout),
             TransportFails(d) \/ Succeeds(d) \/ Malformed(d) \/ Transient(d)
               \/ Permanent(d)
      PROVE  AskedSoFar' > AskedSoFar
  <2>1. phase = "sent"
    BY <1>3 DEF TransportFails, Succeeds, Malformed, Transient, Permanent, Takes
  <2>2. CASE TransportFails(d) \/ Transient(d)
    BY <1>2, <2>1, <2>2 DEF TransportFails, Transient
  <2>3. CASE Succeeds(d) \/ Malformed(d) \/ Permanent(d)
    BY <2>1, <2>3 DEF Succeeds, Malformed, Permanent, Fail
  <2> QED BY <1>3, <2>2, <2>3
<1>4. CASE Wake
  BY <1>4 DEF Wake
<1> QED BY <1>1, <1>3, <1>4 DEF ClientNext

\* A step of a fetch takes it further: to another station, or one tick on.
LEMMA FetchGetsOn ==
  ASSUME HttpTypeOK, HttpTypeOK', HttpNext
  PROVE  FetchedSoFar' > FetchedSoFar
PROOF
<1>1. /\ FetchTimeout \in Nat /\ Cap \in Nat /\ got \in Nat /\ got' \in Nat
      /\ waited \in 0..FetchTimeout /\ waited' \in Nat
  BY HttpAssumption DEF HttpTypeOK
<1>2. Reached \in Nat /\ Reached' \in Nat
  BY <1>1 DEF Reached
<1>3. CASE Reached' > Reached
  BY <1>1, <1>2, <1>3, StationOutweighs DEF FetchedSoFar
<1>4. CASE Tick
  <2>1. Reached' = Reached /\ waited' = waited + 1
    BY <1>4 DEF Tick, fetch, Reached
  <2> DEFINE r == (FetchTimeout + 1) * Reached
  <2>2. r \in Nat
    BY <1>1, <1>2
  <2>3. FetchedSoFar = r + waited /\ FetchedSoFar' = r + (waited + 1)
    BY <2>1 DEF FetchedSoFar
  <2> HIDE DEF r
  <2> QED BY <1>1, <2>2, <2>3
<1>5. CASE Redirected \/ Headers \/ SendFails \/ (\E n \in 1..Cap : Read(n))
  BY <1>1, <1>3, <1>5 DEF Redirected, Headers, SendFails, Read, Return, Reached
<1>6. CASE EndOfBody \/ LimitReached \/ BreaksOff \/ Reply
  BY <1>1, <1>3, <1>6 DEF EndOfBody, LimitReached, BreaksOff, Reply, Return, Reached
<1>7. CASE TimesOut
  BY <1>1, <1>3, <1>7 DEF TimesOut, Waiting, Return, Reached
<1> QED BY <1>4, <1>5, <1>6, <1>7 DEF HttpNext

(***************************************************************************)
(* Each step of a turn takes it nearer to its end.  With the fairness of   *)
(* TurnSpec that is why a blocked host call comes back: there is no way    *)
(* for API and server to have the retries (llm.rs:125-168) and the reads   *)
(* (tools.rs:113-131) go on for ever.                                      *)
(***************************************************************************)
THEOREM TurnEnds == TurnSpec => []TurnHasEnd /\ [][TurnGetsOn]_turnVars
PROOF
<1>1. TurnSpec => []RetryInv /\ []HttpTypeOK
  BY TurnMakesItsCalls, RetryInvHolds, HttpTypeCorrect, PTL
<1>2. RetryInv /\ HttpTypeOK => TurnHasEnd
  <2> SUFFICES ASSUME RetryInv, HttpTypeOK PROVE TurnHasEnd
    OBVIOUS
  <2>1. AskedSoFar <= 3 * (MaxRetries + 1)
    BY ClientAssumption DEF RetryInv, AskedSoFar
  <2>2. /\ Reached \in Nat /\ Reached < Cap + 4 /\ Cap + 4 \in Nat
        /\ FetchTimeout \in Nat /\ waited \in 0..FetchTimeout /\ 0 \in Nat
    BY HttpAssumption DEF HttpTypeOK, Reached
  <2>3. FetchedSoFar < (FetchTimeout + 1) * (Cap + 4) + 0
    BY <2>2, StationOutweighs DEF FetchedSoFar
  <2>4. FetchedSoFar \in Nat /\ (FetchTimeout + 1) * (Cap + 4) \in Nat
    BY <2>2 DEF FetchedSoFar
  <2> DEFINE m == FetchedSoFar
             n == (FetchTimeout + 1) * (Cap + 4)
  <2>5. m <= n
    <3>1. m \in Nat /\ n \in Nat /\ m < n + 0
      BY <2>3, <2>4
    <3> HIDE DEF m, n
    <3> QED BY <3>1
  <2> QED BY <2>1, <2>5 DEF TurnHasEnd
<1>3. RetryInv /\ HttpTypeOK /\ HttpTypeOK' /\ [TurnNext]_turnVars
        => [TurnGetsOn]_turnVars
  <2> SUFFICES ASSUME RetryInv, HttpTypeOK, HttpTypeOK', TurnNext
               PROVE  TurnGetsOn
    OBVIOUS
  <2>1. CASE AskModel
    <3>1. FetchedSoFar' = FetchedSoFar
      BY <2>1 DEF AskModel, httpVars, fetch, FetchedSoFar, Reached
    <3> QED BY <2>1, <3>1, AskGetsOn DEF AskModel, TurnGetsOn
  <2>2. CASE Fetch(HttpNext)
    <3>1. AskedSoFar' = AskedSoFar
      BY <2>2 DEF Fetch, clientVars, AskedSoFar
    <3> QED BY <2>2, <3>1, FetchGetsOn DEF Fetch, TurnGetsOn
  <2> QED BY <2>1, <2>2 DEF TurnNext
<1> QED BY <1>1, <1>2, <1>3, PTL DEF TurnSpec

=============================================================================
