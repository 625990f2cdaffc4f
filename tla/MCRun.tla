------------------------------- MODULE MCRun -------------------------------
(* A small instance of CompleteRun: models with up to two tool uses, and the *)
(* mock with a task of a put, a tool that is not enabled, and the put again. *)
EXTENDS CompleteRun

CONSTANTS k1, v1, h1

MCHosts == {h1}
MCKeys == {k1}
MCValues == {v1}
MCByteLen == [v \in MCValues |-> 1]

Nothing == [key |-> Missing, value |-> Missing, url |-> Missing]
Put == [Nothing EXCEPT !.key = k1, !.value = v1]
Get == [Nothing EXCEPT !.key = k1]
Page == [Nothing EXCEPT !.url = [scheme |-> "https", host |-> h1]]
MCInputs == {Nothing, Put, Get, Page}

MCDirectives ==
  <<[name |-> "kv_put", in |-> Put], [name |-> "now", in |-> Nothing],
    [name |-> "kv_get", in |-> Get], [name |-> "kv_put", in |-> Put]>>

\* A put, a fetch, and a call the policy refuses.
PutUse == [id |-> 1, name |-> "kv_put", in |-> Put]
FetchUse == [id |-> 2, name |-> "http_get", in |-> Page]
DeniedUse == [id |-> 2, name |-> "now", in |-> Nothing]

Turn(stop_reason, uses) == [stop_reason |-> stop_reason, uses |-> uses, tokens |-> 1]

\* A refusal may carry tool uses, of which the agent makes none; an answer may
\* end because its tokens do.
MCAnswers ==
  {Turn("refusal", <<PutUse>>), Turn("end_turn", <<>>), Turn("max_tokens", <<>>),
   Turn("tool_use", <<FetchUse>>), Turn("tool_use", <<PutUse, DeniedUse>>)}
    \cup MockAnswers

=============================================================================
