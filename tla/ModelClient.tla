---------------------------- MODULE ModelClient ----------------------------
(***************************************************************************)
(* One model turn as the provider performs it: AnthropicProvider::complete *)
(* in crates/tds-host/src/llm.rs, a loop of requests, waits and retries.   *)
(* CapabilityHost sees it as one step from CompleteBegin to CompleteEnd.   *)
(*                                                                         *)
(* The request body and the headers are left out; the API may do anything. *)
(* Time is counted in units of 500 ms, the unit of backoff.                *)
(***************************************************************************)
EXTENDS Integers, Sequences

CONSTANTS
  MaxRetries,    \* llm.max_retries
  Timeout,       \* llm.request_timeout_ms, in units
  RetryAfters,   \* delays the retry-after header may name, in units
  LongestRetryAfter

ASSUME ClientAssumption ==
  /\ MaxRetries \in Nat
  /\ Timeout \in Nat
  /\ LongestRetryAfter \in Nat
  /\ RetryAfters \subseteq 0..LongestRetryAfter

VARIABLES
  phase,     \* "ready", "sent", "asleep" or "returned"
  attempt,   \* the loop's retry counter
  wait,      \* how long the thread sleeps before the next request
  outcome,   \* what complete returns: "none", "ok" or "upstream"
  elapsed,   \* history: time spent in the call, up to MaxTime + 1
  sent,      \* history: requests sent, up to MaxRetries + 2
  last       \* history: what became of the latest request

clientVars == <<phase, attempt, wait, outcome, elapsed, sent, last>>

\* llm.rs:177: 500 ms doubled once for each retry, five times at most.
Doubled == <<2, 4, 8, 16, 32>>
Doublings(n) == IF n < 5 THEN n ELSE 5
backoff(n) == IF n = 0 THEN 1 ELSE Doubled[Doublings(n)]

\* The longest the call may take: every request uses its timeout up, once for
\* the headers and once for the body, and every wait is the longest the header
\* or backoff asks for.
LongestWait == IF backoff(MaxRetries) > LongestRetryAfter
               THEN backoff(MaxRetries) ELSE LongestRetryAfter
MaxTime == (MaxRetries + 1) * 2 * Timeout + MaxRetries * LongestWait

\* Bound: the histories stop counting just past what the properties allow.
Capped(n, cap) == IF n > cap THEN cap + 1 ELSE n

ClientInit ==
  /\ phase = "ready"
  /\ attempt = 0 /\ wait = 0
  /\ outcome = "none"
  /\ elapsed = 0 /\ sent = 0
  /\ last = "none"

-----------------------------------------------------------------------------
Send ==
  /\ phase = "ready"
  /\ phase' = "sent"
  /\ sent' = Capped(sent + 1, MaxRetries + 1)
  /\ UNCHANGED <<attempt, wait, outcome, elapsed, last>>

\* reqwest's blocking client gives the headers up to the timeout, and the body,
\* once there is one to read, as long again.
Takes(d, parts) ==
  /\ phase = "sent"
  /\ d \in 0..(parts * Timeout)
  /\ elapsed' = Capped(elapsed + d, MaxTime)

Fail ==
  /\ phase' = "returned"
  /\ outcome' = "upstream"
  /\ UNCHANGED <<attempt, wait>>

Retry(delay) ==
  /\ attempt' = attempt + 1
  /\ wait' = delay
  /\ phase' = "asleep"
  /\ UNCHANGED outcome

\* Mutant: the test is off by one.
MayRetryOnceMore == attempt <= MaxRetries

\* Mutant: the last retry is given away.
MayRetryOneLess == attempt + 1 < MaxRetries

MayRetry == attempt < MaxRetries

RetryOrFail(delays) ==
  \/ MayRetry /\ \E delay \in delays : Retry(delay)
  \/ ~MayRetry /\ Fail

\* The connection fails or times out, before or after the API did its work.
TransportFails(d) ==
  /\ Takes(d, 1)
  /\ RetryOrFail({backoff(attempt + 1)})
  /\ last' = "transport"
  /\ UNCHANGED sent

Succeeds(d) ==
  /\ Takes(d, 2)
  /\ phase' = "returned"
  /\ outcome' = "ok"
  /\ last' = "success"
  /\ UNCHANGED <<attempt, wait, sent>>

\* A success whose body does not parse, or breaks off, is not tried again.
Malformed(d) ==
  /\ Takes(d, 2)
  /\ Fail
  /\ last' = "malformed"
  /\ UNCHANGED sent

\* 429 or 5xx.  A numeric retry-after header takes the place of backoff,
\* whatever it asks for.
Transient(d) ==
  /\ Takes(d, 2)
  /\ RetryOrFail(RetryAfters \cup {backoff(attempt + 1)})
  /\ last' = "transient"
  /\ UNCHANGED sent

\* Mutant: every status but success is tried again.
PermanentRetried(d) ==
  /\ Takes(d, 2)
  /\ RetryOrFail({backoff(attempt + 1)})
  /\ last' = "permanent"
  /\ UNCHANGED sent

\* Any other status.
Permanent(d) ==
  /\ Takes(d, 2)
  /\ Fail
  /\ last' = "permanent"
  /\ UNCHANGED sent

Wake ==
  /\ phase = "asleep"
  /\ phase' = "ready"
  /\ elapsed' = Capped(elapsed + wait, MaxTime)
  /\ UNCHANGED <<attempt, wait, outcome, sent, last>>

ClientNext ==
  \/ Send
  \/ \E d \in 0..(2 * Timeout) :
       TransportFails(d) \/ Succeeds(d) \/ Malformed(d) \/ Transient(d)
         \/ Permanent(d)
  \/ Wake

ClientSpec == ClientInit /\ [][ClientNext]_clientVars

-----------------------------------------------------------------------------
ClientTypeOK ==
  /\ phase \in {"ready", "sent", "asleep", "returned"}
  /\ attempt \in 0..MaxRetries
  /\ wait \in Nat /\ elapsed \in Nat /\ sent \in Nat
  /\ outcome \in {"none", "ok", "upstream"}
  /\ last \in {"none", "transport", "success", "malformed", "transient", "permanent"}

(***************************************************************************)
(* One model turn costs at most max_retries + 1 requests, whatever mixture *)
(* of failures the API answers with (llm.rs:125, 154).                     *)
(***************************************************************************)
AttemptsBounded == sent <= MaxRetries + 1

(***************************************************************************)
(* "4xx means the request itself is wrong and resending it unchanged will  *)
(* fail identically" (llm.rs:151-152): after a permanent refusal, or an    *)
(* answer, readable or not, nothing is sent again.                         *)
(***************************************************************************)
FinalIsFinal ==
  [][(last \in {"permanent", "malformed", "success"} => sent' = sent)]_clientVars

(***************************************************************************)
(* A turn fails on a transient error only when every retry the policy      *)
(* grants has been used, and it succeeds exactly when its last request     *)
(* did (llm.rs:125-133, 154-168).                                          *)
(***************************************************************************)
FailsOnlyInTheEnd ==
  phase = "returned" =>
    /\ (outcome = "ok") = (last = "success")
    /\ last \in {"transport", "transient"} => sent = MaxRetries + 1

(***************************************************************************)
(* The run's thread is held by one turn for no longer than the timeouts    *)
(* and waits add up to.  The API's retry-after is part of that bound and   *)
(* has none of its own.                                                    *)
(***************************************************************************)
CallTimeBounded == elapsed <= MaxTime

=============================================================================
