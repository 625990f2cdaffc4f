------------------------------ MODULE ToolBox ------------------------------
(***************************************************************************)
(* The tools a run may use: ToolBox in crates/tds-host/src/tools.rs.       *)
(*                                                                         *)
(* One box is built for each run (tools.rs:34-48); its only state is the   *)
(* scratchpad kv.  This module has no Spec of its own: CapabilityHost      *)
(* composes its operations into the host functions.                        *)
(*                                                                         *)
(* http_get is split where the thread blocks: HttpSend is everything up to *)
(* the moment the request leaves the process, HttpReply what follows it.   *)
(***************************************************************************)
EXTENDS Integers, FiniteSets

CONSTANTS
  Enabled,        \* policy.tools.enabled
  Hosts,          \* hosts a URL may name
  AllowedHosts,   \* those policy.tools.http.allows(host) accepts
  Keys, Values,   \* keys and values of the scratchpad
  ByteLen,        \* the byte length of each value
  MaxKeys,        \* policy.tools.kv.max_keys
  MaxValueBytes,  \* policy.tools.kv.max_value_bytes
  Missing,        \* no such argument, or nothing stored
  Text            \* a content whose wording no property reads

\* tools.rs:19.  Policy::validate admits no other name in tools.enabled.
KnownTools == {"now", "http_get", "kv_get", "kv_put"}

\* Names a request may carry: "other" is any the host does not implement.
ToolNames == KnownTools \cup {"other"}

ASSUME ToolBoxAssumption ==
  /\ Enabled \subseteq KnownTools
  /\ AllowedHosts \subseteq Hosts
  /\ ByteLen \in [Values -> Nat]
  /\ MaxKeys \in Nat
  /\ MaxValueBytes \in Nat
  /\ Missing \notin Keys \cup Values

VARIABLES
  kv,         \* the scratchpad; Missing where nothing is stored
  contacted   \* history: every host a request was sent to

toolVars == <<kv, contacted>>

(***************************************************************************)
(* Arguments and results.  The JSON arguments are the three fields the     *)
(* tools read, each Missing when absent or not a string; a url that does   *)
(* not parse is refused like an absent one (tools.rs:77-79).  An https URL *)
(* always has a host, so tools.rs:84-86 refuses nothing that gets there.   *)
(***************************************************************************)
Url == [scheme : {"https", "other"}, host : Hosts]

Input == [key : Keys \cup {Missing}, value : Values \cup {Missing},
          url : Url \cup {Missing}]

Contents == Values \cup Hosts \cup {Text}

ErrorKinds == {"denied", "not_found", "upstream", "invalid"}

Ok(body) == [kind |-> "ok", body |-> body]
Err(kind) == [kind |-> kind, body |-> Missing]

ToolResult == {Ok(c) : c \in Contents} \cup {Err(k) : k \in ErrorKinds}

\* The keys that hold a value.
Stored == {k \in Keys : kv[k] # Missing}

ToolBoxInit ==
  /\ kv = [k \in Keys |-> Missing]
  /\ contacted = {}

-----------------------------------------------------------------------------
(***************************************************************************)
(* ToolBox::invoke: the enabled check first, then the tool.  An enabled    *)
(* name is a known one, so the not_found arm (tools.rs:72) is never taken. *)
(***************************************************************************)
ToolDenied(name, res) ==
  /\ name \notin Enabled
  /\ res = Err("denied")
  /\ UNCHANGED toolVars

Now(name, res) ==
  /\ name = "now" /\ name \in Enabled
  /\ res = Ok(Text)
  /\ UNCHANGED toolVars

KvGet(name, in, res) ==
  /\ name = "kv_get" /\ name \in Enabled
  /\ \/ in.key = Missing /\ res = Err("invalid")
     \/ in.key \in Stored /\ res = Ok(kv[in.key])
     \/ in.key \in Keys \ Stored /\ res = Ok(Text)
  /\ UNCHANGED toolVars

\* Mutant: the key limit is off by one.
KvRefusesOneLate(in) ==
  \/ ByteLen[in.value] > MaxValueBytes
  \/ in.key \notin Stored /\ Cardinality(Stored) > MaxKeys

\* A value over the limit, and a new key beyond the limit, are refused.
KvRefuses(in) ==
  \/ ByteLen[in.value] > MaxValueBytes
  \/ in.key \notin Stored /\ Cardinality(Stored) >= MaxKeys

KvPut(name, in, res) ==
  /\ name = "kv_put" /\ name \in Enabled
  /\ \/ /\ in.key = Missing \/ in.value = Missing
        /\ res = Err("invalid")
        /\ UNCHANGED kv
     \/ /\ in.key # Missing /\ in.value # Missing
        /\ KvRefuses(in)
        /\ res = Err("denied")
        /\ UNCHANGED kv
     \/ /\ in.key # Missing /\ in.value # Missing
        /\ ~KvRefuses(in)
        /\ res = Ok(Text)
        /\ kv' = [kv EXCEPT ![in.key] = in.value]
  /\ UNCHANGED contacted

\* The url is missing or malformed, not https, or off the allowlist.
HttpRefused(name, in, res) ==
  /\ name = "http_get" /\ name \in Enabled
  /\ \/ in.url = Missing /\ res = Err("invalid")
     \/ /\ in.url # Missing
        /\ in.url.scheme # "https" \/ in.url.host \notin AllowedHosts
        /\ res = Err("denied")
  /\ UNCHANGED toolVars

HttpSend(name, in) ==
  /\ name = "http_get" /\ name \in Enabled
  /\ in.url # Missing
  /\ in.url.scheme = "https" /\ in.url.host \in AllowedHosts
  /\ contacted' = contacted \cup {in.url.host}
  /\ UNCHANGED kv

\* Mutant: a redirect is followed, unchecked.
HttpReplyFollows(res) ==
  \/ /\ res \in {Err("upstream"), Ok(Text)}
     /\ UNCHANGED toolVars
  \/ \E location \in Hosts :
        /\ res = Ok(Text)
        /\ contacted' = contacted \cup {location}
        /\ UNCHANGED kv

(***************************************************************************)
(* The send or the body read fails; a redirect is reported with its        *)
(* location, a host here, and not followed; a body is returned, whatever   *)
(* its status.                                                             *)
(***************************************************************************)
HttpReply(res) ==
  /\ \/ res = Err("upstream")
     \/ \E location \in Hosts : res = Ok(location)
     \/ res = Ok(Text)
  /\ UNCHANGED toolVars

\* The calls that are answered without leaving the process.
InvokeAtOnce(name, in, res) ==
  \/ ToolDenied(name, res)
  \/ Now(name, res)
  \/ KvGet(name, in, res)
  \/ KvPut(name, in, res)
  \/ HttpRefused(name, in, res)

-----------------------------------------------------------------------------
ToolBoxTypeOK ==
  /\ kv \in [Keys -> Values \cup {Missing}]
  /\ contacted \subseteq Hosts

(***************************************************************************)
(* The scratchpad never holds more keys than max_keys nor a value longer   *)
(* than max_value_bytes, whatever sequence of puts and overwrites led      *)
(* there (tools.rs:148-160).                                               *)
(***************************************************************************)
ScratchpadBounded ==
  /\ Cardinality(Stored) <= MaxKeys
  /\ \A k \in Stored : ByteLen[kv[k]] <= MaxValueBytes

(***************************************************************************)
(* What the tools have done to the world and to the scratchpad is within   *)
(* the policy: only allowed hosts were ever contacted, a redirect's target *)
(* included, and neither effect exists unless its tool is enabled          *)
(* (tools.rs:62, 81-97, 100).                                              *)
(***************************************************************************)
EffectsAuthorized ==
  /\ contacted \subseteq AllowedHosts
  /\ contacted # {} => "http_get" \in Enabled
  /\ Stored # {} => "kv_put" \in Enabled

=============================================================================
