------------------------------ MODULE Startup ------------------------------
(***************************************************************************)
(* From the command line to the first run: main in                         *)
(* crates/tds-host/src/main.rs, Policy::load and validate, llm::build,     *)
(* Runtime::new with its shape check, and the checks the first run of a    *)
(* module meets.                                                           *)
(*                                                                         *)
(* Several commands look at the same policy file, agent module and         *)
(* environment: the container runs `serve`, `check` beside it as its health *)
(* check, and `run` for a single task.  The files are read-only there, and *)
(* do not change here.                                                     *)
(***************************************************************************)
EXTENDS Naturals, Sequences, Functions

CONSTANTS
  Policies,   \* what a policy file may hold
  Modules     \* what the agent module may be

Commands == {"check_offline", "check", "run", "serve"}

\* An empty string stands for a key of blanks as well.
Credentials == {"unset", "empty", "set"}

ABI_VERSION == 1
HostFunctions == {"log", "call", "response_read"}
RequiredExports ==
  {"memory", "tds_abi_version", "tds_alloc", "tds_dealloc", "tds_run"}
KnownTools == {"now", "http_get", "kv_get", "kv_put"}
AboveHigh == {"xhigh", "max"}

(***************************************************************************)
(* memory is counted in MiB.  A module has imports of tds_host, or others; *)
(* `fits` says that what it imports and exports has the ABI's signatures,  *)
(* and is a memory or a function as it should be.                          *)
(***************************************************************************)
Limits == [fuel : Nat, wall_clock_ms : Nat, memory : Nat, max_steps : Nat]
LlmConfig == [provider : {"anthropic", "mock"}, max_tokens : Nat,
              effort : {"low", "medium", "high", "xhigh", "max"},
              thinking : {"adaptive", "disabled"}]
ToolsConfig == [enabled : Seq(STRING)]
Policy == [limits : Limits, llm : LlmConfig, tools : ToolsConfig]

Module == [wasm : BOOLEAN, imports : SUBSET STRING, exports : SUBSET STRING,
           fits : BOOLEAN, version : Nat, memory : Nat]

DefaultLimits ==
  [fuel |-> 1000000000, wall_clock_ms |-> 120000, memory |-> 64, max_steps |-> 8]
DefaultLlmConfig ==
  [provider |-> "anthropic", max_tokens |-> 8192, effort |-> "high",
   thinking |-> "adaptive"]
DefaultToolsConfig == [enabled |-> <<"now", "kv_get", "kv_put">>]
Default ==
  [limits |-> DefaultLimits, llm |-> DefaultLlmConfig, tools |-> DefaultToolsConfig]

ASSUME StartupAssumption == Policies \subseteq Policy /\ Modules \subseteq Module

VARIABLES
  policyFile,   \* "none", "broken" (unreadable, or not a policy), or "good"
  policy,       \* the policy in force if there is one
  agentFile,    \* the agent module can be read
  agent,        \* the module in it
  credential,   \* the variable llm.api_key_env
  at            \* how far each command has come

inputs == <<policyFile, policy, agentFile, agent, credential>>
startupVars == <<inputs, at>>

StartupInit ==
  /\ policyFile \in {"none", "broken", "good"}
  /\ policy \in IF policyFile = "good" THEN Policies ELSE {Default}
  /\ agentFile \in BOOLEAN
  /\ agent \in Modules
  /\ credential \in Credentials
  /\ at = [c \in Commands |-> "policy"]

\* Policy::validate.
Validate(p) ==
  /\ p.limits.fuel > 0 /\ p.limits.wall_clock_ms > 0 /\ p.limits.max_steps > 0
  /\ p.limits.memory >= 1
  /\ p.llm.thinking = "disabled" => p.llm.effort \notin AboveHigh
  /\ Range(p.tools.enabled) \subseteq KnownTools

\* No import but the host's functions, and no required export missing.
VerifyModuleShape(m) ==
  m.imports \subseteq HostFunctions /\ RequiredExports \subseteq m.exports

-----------------------------------------------------------------------------
Step(c, from, ok, to) ==
  /\ at[c] = from
  /\ at' = [at EXCEPT ![c] = IF ok THEN to ELSE "refused"]
  /\ UNCHANGED inputs

LoadPolicy(c) == Step(c, "policy", policyFile # "broken" /\ Validate(policy), "module")

\* check --offline goes straight on with a MockProvider (main.rs:97-103).
ReadModule(c) ==
  Step(c, "module", agentFile, IF c = "check_offline" THEN "runtime" ELSE "provider")

\* Mutant: a health check must not need a key.
BuildProviderUnlessCheck(c) ==
  Step(c, "provider",
       policy.llm.provider = "anthropic" /\ c # "check" => credential = "set", "runtime")

BuildProvider(c) ==
  Step(c, "provider", policy.llm.provider = "anthropic" => credential = "set", "runtime")

\* Runtime::new validates the policy again, compiles, and verifies the shape.
NewRuntime(c) ==
  Step(c, "runtime", Validate(policy) /\ agent.wasm /\ VerifyModuleShape(agent), "ready")

\* check has nothing more to do.
Accepted(c) ==
  /\ c \in {"check", "check_offline"}
  /\ Step(c, "ready", TRUE, "ok")

\* serve binds its address, which may be taken.
Bind(c) ==
  /\ c = "serve"
  /\ at[c] = "ready"
  /\ at' \in {[at EXCEPT ![c] = s] : s \in {"listening", "unbound"}}
  /\ UNCHANGED inputs

(***************************************************************************)
(* The first run, of `serve` when a request comes and of `run` at once:    *)
(* the store's limits and the linker's types apply when the module is      *)
(* instantiated, then the guest is asked for its ABI version.              *)
(***************************************************************************)
FirstRun(c) ==
  /\ at[c] = IF c = "run" THEN "ready" ELSE "listening"
  /\ at' = [at EXCEPT ![c] =
              IF agent.memory > policy.limits.memory THEN "too_big"
              ELSE IF agent.fits /\ agent.version = ABI_VERSION THEN "running"
              ELSE "misfit"]
  /\ UNCHANGED inputs

StartupNext ==
  \E c \in Commands :
    LoadPolicy(c) \/ ReadModule(c) \/ BuildProvider(c) \/ NewRuntime(c)
    \/ Accepted(c) \/ Bind(c) \/ FirstRun(c)

StartupSpec == StartupInit /\ [][StartupNext]_startupVars

-----------------------------------------------------------------------------
Refused(c) == at[c] = "refused"
Passed(c) == at[c] \notin {"policy", "module", "provider", "runtime", "refused"}

(***************************************************************************)
(* "an unhealthy container is one that could not serve a request anyway"   *)
(* (Dockerfile:57-58): check, serve and run accept the same policy, module *)
(* and credential, and check --offline differs from them in the            *)
(* credential alone (main.rs:73-81, 97-106).                               *)
(***************************************************************************)
CheckSpeaksForServe ==
  /\ \A c \in {"serve", "run"} :
       ~(Refused("check") /\ Passed(c)) /\ ~(Passed("check") /\ Refused(c))
  /\ ~(Refused("check_offline") /\ Passed("check"))
  /\ Passed("check_offline") /\ Refused("check") =>
       policy.llm.provider = "anthropic" /\ credential # "set"

(***************************************************************************)
(* What the other modules assume of a policy holds of every host that      *)
(* listens, and no guest code runs in a module that could reach anything   *)
(* but the three host functions, nor in a check (runtime.rs:206-209,       *)
(* README.md:222-224).                                                     *)
(***************************************************************************)
NothingUnvettedRuns ==
  \A c \in Commands :
    at[c] \in {"listening", "running", "misfit"} =>
      /\ c \in {"serve", "run"}
      /\ \A limit \in DOMAIN policy.limits : policy.limits[limit] >= 1
      /\ Range(policy.tools.enabled) \subseteq KnownTools
      /\ agent.imports \subseteq HostFunctions

\* All that startup promises of check, serve and run.
ChecksHold == CheckSpeaksForServe /\ NothingUnvettedRuns

=============================================================================
