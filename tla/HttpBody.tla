------------------------------ MODULE HttpBody ------------------------------
(***************************************************************************)
(* One allowed http_get on the wire: ToolBox::http_get from the request to *)
(* the text for the model (crates/tds-host/src/tools.rs:93-132).  In       *)
(* CapabilityHost it is what happens between FetchBegin and FetchEnd.      *)
(*                                                                         *)
(* The server sends the head, then the body in pieces, late, short or not  *)
(* at all.  The blocking client gives each wait of its own, for the head   *)
(* and for every read, tools.http.timeout_ms; read_to_end asks again until *)
(* it gets no bytes, and Take asks no more once it has its limit.          *)
(***************************************************************************)
EXTENDS Integers

CONSTANTS
  Cap,           \* tools.http.max_response_bytes
  FetchTimeout,  \* tools.http.timeout_ms, in ticks of the clock
  BodyLens       \* bound: lengths of bodies that servers send

ASSUME HttpAssumption ==
  /\ Cap \in Nat /\ FetchTimeout \in Nat \ {0}
  /\ BodyLens \subseteq Nat

VARIABLES
  body,       \* bytes the server has for the body
  framed,     \* its end is marked, so that a body that breaks off is an error
  pc,         \* "send", "read", "end" (reading is over) or "done"
  got,        \* bytes in the buffer
  result,     \* kind of result, and the "truncated" mark
  waited,     \* ticks since the current wait began
  fetchTime   \* ticks since the request was sent

fetch == <<body, framed, pc, got, result>>
httpVars == <<fetch, waited, fetchTime>>

None == [kind |-> "none", truncated |-> FALSE]

HttpInit ==
  /\ body \in BodyLens /\ framed \in BOOLEAN
  /\ pc = "send" /\ got = 0 /\ result = None
  /\ waited = 0 /\ fetchTime = 0

Return(kind, truncated) ==
  /\ result' = [kind |-> kind, truncated |-> truncated]
  /\ pc' = "done"

Waiting == pc = "send" \/ (pc = "read" /\ got < Cap)

-----------------------------------------------------------------------------
Redirected ==
  /\ pc = "send"
  /\ Return("redirect", FALSE)
  /\ UNCHANGED <<body, framed, got, waited, fetchTime>>

Headers ==
  /\ pc = "send"
  /\ pc' = "read" /\ waited' = 0
  /\ UNCHANGED <<body, framed, got, result, fetchTime>>

Read(n) ==
  /\ pc = "read" /\ got + n <= Cap /\ got + n <= body
  /\ got' = got + n /\ waited' = 0
  /\ UNCHANGED <<body, framed, pc, result, fetchTime>>

\* The server tells that this was all.
EndOfBody ==
  /\ pc = "read" /\ got = body
  /\ pc' = "end"
  /\ UNCHANGED <<body, framed, got, result, waited, fetchTime>>

\* Take has its limit, and does not ask.
LimitReached ==
  /\ pc = "read" /\ got = Cap
  /\ pc' = "end"
  /\ UNCHANGED <<body, framed, got, result, waited, fetchTime>>

\* Mutant: what had come when the server broke off is good enough.
BreaksOffQuietly ==
  /\ pc = "read" /\ got < body /\ got < Cap
  /\ pc' = "end" /\ result' = result
  /\ UNCHANGED <<body, framed, got, waited, fetchTime>>

\* Mutant: the request is sent again.
BreaksOffRetries ==
  /\ pc = "read" /\ got < body /\ got < Cap
  /\ pc' = "send" /\ got' = 0 /\ waited' = 0
  /\ UNCHANGED <<body, framed, result, fetchTime>>

\* The connection breaks off: an error, unless it is how a body may end.
BreaksOff ==
  /\ pc = "read" /\ got < body /\ got < Cap
  /\ IF framed THEN Return("upstream", FALSE) ELSE pc' = "end" /\ result' = result
  /\ UNCHANGED <<body, framed, got, waited, fetchTime>>

\* No connection, or a server that speaks something else.
SendFails ==
  /\ pc = "send"
  /\ Return("upstream", FALSE)
  /\ UNCHANGED <<body, framed, got, waited, fetchTime>>

\* Mutant: a server that has begun to send is waited for.
TimesOutBeforeBody ==
  /\ pc = "send" /\ waited = FetchTimeout
  /\ Return("upstream", FALSE)
  /\ UNCHANGED <<body, framed, got, waited, fetchTime>>

TimesOut ==
  /\ Waiting /\ waited = FetchTimeout
  /\ Return("upstream", FALSE)
  /\ UNCHANGED <<body, framed, got, waited, fetchTime>>

Reply ==
  /\ pc = "end"
  /\ Return("ok", got >= Cap)
  /\ UNCHANGED <<body, framed, got, waited, fetchTime>>

\* Time passes only while the client waits, and no further than its timeout.
Tick ==
  /\ Waiting /\ waited < FetchTimeout
  /\ waited' = waited + 1 /\ fetchTime' = fetchTime + 1
  /\ UNCHANGED fetch

HttpNext ==
  \/ Redirected \/ Headers \/ SendFails
  \/ \E n \in 1..Cap : Read(n)
  \/ EndOfBody \/ LimitReached \/ BreaksOff \/ TimesOut \/ Reply
  \/ Tick

HttpSpec == HttpInit /\ [][HttpNext]_httpVars

-----------------------------------------------------------------------------
HttpTypeOK ==
  /\ body \in BodyLens /\ framed \in BOOLEAN
  /\ pc \in {"send", "read", "end", "done"}
  /\ got \in 0..Cap
  /\ result \in [kind : {"none", "ok", "redirect", "upstream"}, truncated : BOOLEAN]
  /\ waited \in 0..FetchTimeout /\ fetchTime \in Nat

(***************************************************************************)
(* A reply without the mark has the whole body in it: nothing was cut, and *)
(* a body that broke off is an error of kind upstream, short of the one    *)
(* case in which nobody can tell (tools.rs:113-131).                       *)
(***************************************************************************)
UnmarkedIsWhole ==
  result.kind = "ok" /\ ~result.truncated /\ framed => got = body

(***************************************************************************)
(* The guest is in the host all this time, out of reach of its deadline:   *)
(* a server that sends a byte whenever the client is about to give up can  *)
(* hold the run up for timeout_ms for the head and as much for each byte   *)
(* up to the limit, and no longer.                                         *)
(***************************************************************************)
FetchTimeBounded ==
  fetchTime <= FetchTimeout * (1 + got + (IF pc = "send" THEN 0 ELSE 1))

=============================================================================
