------------------------------- MODULE MCParts -------------------------------
(***************************************************************************)
(* The parts of host and agent that share no state with the rest: what is  *)
(* read at startup, the host allowlist, the echo of content blocks, the    *)
(* guest's log, its memory, and truncate.  Each behaviour is one of one    *)
(* part, while the others stay at a state of their own.                    *)
(***************************************************************************)
EXTENDS Startup, Allowlist, EchoPath, GuestLog, GuestMemory, Truncate

Sound ==
  [limits |-> [fuel |-> 1, wall_clock_ms |-> 1, memory |-> 2, max_steps |-> 1],
   llm |-> [provider |-> "anthropic", max_tokens |-> 1, effort |-> "max",
            thinking |-> "adaptive"],
   tools |-> [enabled |-> <<"now", "kv_put">>]]

Variants(p) ==
  {p, [p EXCEPT !.limits.fuel = 0], [p EXCEPT !.limits.wall_clock_ms = 0],
   [p EXCEPT !.limits.max_steps = 0], [p EXCEPT !.limits.memory = 0],
   [p EXCEPT !.llm.provider = "mock"],
   [p EXCEPT !.llm.thinking = "disabled"], [p EXCEPT !.llm.effort = "high"],
   [p EXCEPT !.tools.enabled = <<"now", "shell">>]}

\* Policies that differ from a sound one in up to two respects.
MCPolicies == UNION {Variants(p) : p \in Variants(Sound)}

Shipped == [wasm |-> TRUE, imports |-> HostFunctions, exports |-> RequiredExports,
            fits |-> TRUE, version |-> ABI_VERSION, memory |-> 2]

\* The shipped module, and modules that differ from it in one respect.
MCModules ==
  {Shipped, [Shipped EXCEPT !.wasm = FALSE], [Shipped EXCEPT !.imports = {"call"}],
   [Shipped EXCEPT !.imports = {"call", "fd_write"}],
   [Shipped EXCEPT !.exports = {"memory", "tds_run"}],
   [Shipped EXCEPT !.fits = FALSE], [Shipped EXCEPT !.version = 2],
   [Shipped EXCEPT !.memory = 3]}

\* Every rule and every host of up to four characters.
MCChars == {"a", "A", "b", ".", "*", " "}
MCRules == BoundedSeq(MCChars \ {"b"}, 4)
MCHosts == BoundedSeq({"a", "b", "."}, 4)

\* One block of each kind that is treated differently.
Plain == [type |-> "text", fits |-> TRUE, body |-> "b", signature |-> "absent",
          extra |-> "none"]
MCBlocks ==
  {[Plain EXCEPT !.extra = "citations"],
   [Plain EXCEPT !.type = "thinking", !.signature = "sig"],
   [Plain EXCEPT !.type = "thinking", !.signature = "null"],
   [Plain EXCEPT !.type = "redacted_thinking"],
   [Plain EXCEPT !.type = "tool_use"],
   [Plain EXCEPT !.type = "tool_use", !.fits = FALSE, !.extra = "x"],
   [Plain EXCEPT !.type = "other", !.signature = "null", !.extra = "x"]}

\* Characters of one, two and four bytes and stray bytes, in short messages.
MCMessages == {m \in BoundedSeq({Invalid, 2, 4}, 3) : m # <<>>}

\* Texts of up to four characters of one to four bytes.
Width(widths) == FoldLeft(LAMBDA sum, w : sum + w, 0, widths)
AsText(widths) ==
  [len |-> Width(widths),
   boundaries |-> {Width(SubSeq(widths, 1, k)) : k \in 0..Len(widths)}]
MCTexts == {AsText(widths) : widths \in BoundedSeq(1..4, 4)}

-----------------------------------------------------------------------------
VARIABLE part   \* the part this behaviour is one of

partsVars ==
  <<part, startupVars, allowVars, echoVars, logVars, memoryVars, truncateVars>>

\* A part other than the one that moves is in this initial state.
StartupIdle ==
  /\ policyFile = "none" /\ policy = Default
  /\ agentFile = FALSE /\ agent = Shipped /\ credential = "unset"
  /\ at = [c \in Commands |-> "policy"]
AllowIdle == rules = <<>> /\ host = <<>> /\ answer = "none"
TruncateIdle == s = AsText(<<>>) /\ max = 0 /\ end = 0 /\ stage = "start"

PartsInit ==
  /\ part \in {"startup", "allow", "echo", "log", "memory", "truncate"}
  /\ IF part = "startup" THEN StartupInit ELSE StartupIdle
  /\ IF part = "allow" THEN AllowInit ELSE AllowIdle
  /\ IF part = "truncate" THEN TruncateInit ELSE TruncateIdle
  /\ MemoryInit /\ (part = "memory" \/ shipped)
  /\ EchoInit /\ LogInit

StartupMoves ==
  /\ part = "startup" /\ StartupNext
  /\ UNCHANGED <<part, allowVars, echoVars, logVars, memoryVars, truncateVars>>

AllowMoves ==
  /\ part = "allow" /\ AskAllowed
  /\ UNCHANGED <<part, startupVars, echoVars, logVars, memoryVars, truncateVars>>

EchoMoves ==
  /\ part = "echo" /\ EchoNext
  /\ UNCHANGED <<part, startupVars, allowVars, logVars, memoryVars, truncateVars>>

LogMoves ==
  /\ part = "log" /\ LogNext
  /\ UNCHANGED <<part, startupVars, allowVars, echoVars, memoryVars, truncateVars>>

MemoryMoves ==
  /\ part = "memory" /\ MemoryNext
  /\ UNCHANGED <<part, startupVars, allowVars, echoVars, logVars, truncateVars>>

TruncateMoves ==
  /\ part = "truncate" /\ TruncateNext
  /\ UNCHANGED <<part, startupVars, allowVars, echoVars, logVars, memoryVars>>

PartsNext ==
  StartupMoves \/ AllowMoves \/ EchoMoves \/ LogMoves \/ MemoryMoves \/ TruncateMoves

PartsSpec == PartsInit /\ [][PartsNext]_partsVars

=============================================================================
