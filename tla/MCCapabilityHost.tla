-------------------------- MODULE MCCapabilityHost --------------------------
(* A small instance of CapabilityHost with an unconstrained guest. *)
EXTENDS CapabilityHost

CONSTANTS k1, k2, k3, short, long, h1, h2, answer

MCHosts == {h1, h2}
MCAllowedHosts == {h1}
\* A key more than the scratchpad holds.
MCKeys == {k1, k2, k3}
MCValues == {short, long}
\* The limit is 1: a value at the limit and one just over it.
MCByteLen == [v \in MCValues |-> IF v = short THEN 1 ELSE 2]
MCAnswers == {answer}

KvInputs == [key : Keys \cup {Missing}, value : MCValues \cup {Missing},
             url : {Missing}]
UrlInputs == [key : {Missing}, value : {Missing}, url : Url \cup {Missing}]
MCInputs == KvInputs \cup UrlInputs

=============================================================================
