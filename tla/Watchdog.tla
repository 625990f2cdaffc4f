------------------------------ MODULE Watchdog ------------------------------
(***************************************************************************)
(* The wall-clock budget (limits.wall_clock_ms): the epoch ticker thread   *)
(* of crates/tds-host/src/runtime.rs, the runs that share it, and the end  *)
(* of the Runtime they all hold.                                           *)
(*                                                                         *)
(* One Runtime serves many runs at once.  It has one engine, whose epoch   *)
(* one thread advances; each run gets a deadline on that shared epoch.     *)
(* Compiled guest code compares the two at function entries and loop heads *)
(* and traps.  Nothing compares them while a run is inside a host call.    *)
(*                                                                         *)
(* Time is counted in milliseconds scaled down: Tick stands for the 10 ms  *)
(* of EPOCH_TICK, and WallClock is in the same unit.                       *)
(***************************************************************************)
EXTENDS Integers

CONSTANTS
  Runs,        \* runs that may be started
  Tick,        \* EPOCH_TICK
  WallClock,   \* limits.wall_clock_ms
  Lag,         \* how late the ticker thread may wake from its sleep
  Horizon      \* bound: the time at which the model stops

ASSUME WatchdogAssumption ==
  /\ Tick \in Nat \ {0}
  /\ WallClock \in Nat \ {0}   \* Policy::validate, policy.rs:38
  /\ Lag \in Nat
  /\ Horizon \in Nat

VARIABLES
  now,         \* real time
  epoch,       \* the engine's epoch counter
  due,         \* when the ticker's current sleep is over
  ticker,      \* the ticker thread: "sleeping" or "gone"
  stop,        \* ticker_stop
  owner,       \* the server, or main, still holds the Runtime
  run,         \* each run: "idle", "queued", "guest", "host", "stopped",
               \* "done" or "dropped"
  deadline,    \* the epoch deadline of each run's store
  started,     \* history: when each run started
  before,      \* history: when the ticker had last woken as each run started
  stopped      \* history: when each interrupted run was interrupted

watchdogVars == <<now, epoch, due, ticker, stop, owner, run, deadline, started,
                  before, stopped>>

\* The budget in ticks (runtime.rs:153).
Ticks == IF WallClock \div Tick > 1 THEN WallClock \div Tick ELSE 1

Active(r) == run[r] \in {"guest", "host"}

\* A run that is queued or active has its own reference to the Runtime.
Holds(runs, r) == runs[r] \in {"queued", "guest", "host"}

WatchdogInit ==
  /\ now = 0 /\ epoch = 0
  /\ due = Tick
  /\ ticker = "sleeping" /\ stop = FALSE
  /\ owner = TRUE
  /\ run = [r \in Runs |-> "idle"]
  /\ deadline = [r \in Runs |-> 0]
  /\ started = [r \in Runs |-> 0] /\ before = [r \in Runs |-> 0]
  /\ stopped = [r \in Runs |-> 0]

-----------------------------------------------------------------------------
\* The handler passes the run on to a blocking thread, with a reference of its own.
Accept(r) ==
  /\ run[r] = "idle"
  /\ owner
  /\ run' = [run EXCEPT ![r] = "queued"]
  /\ UNCHANGED <<now, epoch, due, ticker, stop, owner, deadline, started,
                 before, stopped>>

\* Mutant: the deadline is set on the counter, not from where it stands.
StartAbsolute(r) ==
  /\ run[r] = "queued"
  /\ run' = [run EXCEPT ![r] = "guest"]
  /\ deadline' = [deadline EXCEPT ![r] = Ticks]
  /\ started' = [started EXCEPT ![r] = now]
  /\ before' = [before EXCEPT ![r] = due - Tick]
  /\ UNCHANGED <<now, epoch, due, ticker, stop, owner, stopped>>

\* Mutant: the budget is taken for a number of ticks as it is.
StartInMilliseconds(r) ==
  /\ run[r] = "queued"
  /\ run' = [run EXCEPT ![r] = "guest"]
  /\ deadline' = [deadline EXCEPT ![r] = epoch + WallClock]
  /\ started' = [started EXCEPT ![r] = now]
  /\ before' = [before EXCEPT ![r] = due - Tick]
  /\ UNCHANGED <<now, epoch, due, ticker, stop, owner, stopped>>

\* Runtime::run sets the deadline and enters the guest.
Start(r) ==
  /\ run[r] = "queued"
  /\ run' = [run EXCEPT ![r] = "guest"]
  /\ deadline' = [deadline EXCEPT ![r] = epoch + Ticks]
  /\ started' = [started EXCEPT ![r] = now]
  /\ before' = [before EXCEPT ![r] = due - Tick]
  /\ UNCHANGED <<now, epoch, due, ticker, stop, owner, stopped>>

\* The guest gets past an epoch check, and calls the host.
EnterHost(r) ==
  /\ run[r] = "guest"
  /\ epoch < deadline[r]
  /\ run' = [run EXCEPT ![r] = "host"]
  /\ UNCHANGED <<now, epoch, due, ticker, stop, owner, deadline, started,
                 before, stopped>>

\* The model or the web answers, whenever it does.
LeaveHost(r) ==
  /\ run[r] = "host"
  /\ run' = [run EXCEPT ![r] = "guest"]
  /\ UNCHANGED <<now, epoch, due, ticker, stop, owner, deadline, started,
                 before, stopped>>

\* Mutant: whoever lets go of the Runtime stops the ticker.
LetGoEagerly(holds, runs) == stop' = TRUE

\* Runtime::drop runs when the last holder lets go: the owner, or a run.
LetGo(holds, runs) ==
  stop' = \/ stop
          \/ ~holds /\ \A r \in Runs : ~Holds(runs, r)

\* tds_run has returned; the entry of tds_dealloc is an epoch check as well.
Finish(r) ==
  /\ run[r] = "guest"
  /\ epoch < deadline[r]
  /\ run' = [run EXCEPT ![r] = "done"]
  /\ LetGo(owner, run')
  /\ UNCHANGED <<now, epoch, due, ticker, owner, deadline, started,
                 before, stopped>>

\* The guest reaches an epoch check past its deadline: Trap::Interrupt.
Interrupt(r) ==
  /\ run[r] = "guest"
  /\ epoch >= deadline[r]
  /\ run' = [run EXCEPT ![r] = "stopped"]
  /\ stopped' = [stopped EXCEPT ![r] = now]
  /\ LetGo(owner, run')
  /\ UNCHANGED <<now, epoch, due, ticker, owner, deadline, started,
                 before>>

\* The server has shut down, or the command has run.
OwnerLetsGo ==
  /\ owner
  /\ owner' = FALSE
  /\ LetGo(FALSE, run)
  /\ UNCHANGED <<now, epoch, due, ticker, run, deadline, started,
                 before, stopped>>

\* The async runtime is shut down with the run still in its queue: it is never
\* started.
Drop(r) ==
  /\ run[r] = "queued"
  /\ ~owner
  /\ run' = [run EXCEPT ![r] = "dropped"]
  /\ LetGo(owner, run')
  /\ UNCHANGED <<now, epoch, due, ticker, owner, deadline, started,
                 before, stopped>>

\* The ticker wakes, advances the epoch, and looks at the flag (runtime.rs:93-96).
TickerWakes ==
  /\ ticker = "sleeping"
  /\ now >= due
  /\ epoch' = epoch + 1
  /\ ticker' = IF stop THEN "gone" ELSE "sleeping"
  /\ due' = now + Tick
  /\ UNCHANGED <<now, stop, owner, run, deadline, started,
                 before, stopped>>

(***************************************************************************)
(* Time passes, as long as the ticker is no later than Lag and no guest    *)
(* that is past its deadline is still computing: it meets an epoch check   *)
(* within the unit.                                                        *)
(***************************************************************************)
Pass ==
  /\ now < Horizon
  /\ ticker = "sleeping" => now < due + Lag
  /\ \A r \in Runs : run[r] = "guest" => epoch < deadline[r]
  /\ now' = now + 1
  /\ UNCHANGED <<epoch, due, ticker, stop, owner, run, deadline, started,
                 before, stopped>>

WatchdogNext ==
  \/ \E r \in Runs : Accept(r) \/ Start(r) \/ EnterHost(r) \/ LeaveHost(r)
                     \/ Finish(r) \/ Interrupt(r) \/ Drop(r)
  \/ OwnerLetsGo
  \/ TickerWakes
  \/ Pass

WatchdogSpec == WatchdogInit /\ [][WatchdogNext]_watchdogVars

-----------------------------------------------------------------------------
WatchdogTypeOK ==
  /\ now \in Nat /\ epoch \in 0..(now \div Tick) /\ due \in Nat
  /\ ticker \in {"sleeping", "gone"}
  /\ stop \in BOOLEAN /\ owner \in BOOLEAN
  /\ run \in [Runs -> {"idle", "queued", "guest", "host", "stopped", "done",
                     "dropped"}]
  /\ deadline \in [Runs -> Nat]
  /\ started \in [Runs -> Nat] /\ before \in [Runs -> Nat]
  /\ stopped \in [Runs -> Nat]

\* What a budget comes to in whole ticks: at least one.
Granted == IF WallClock < Tick THEN Tick ELSE WallClock - (WallClock % Tick)

(***************************************************************************)
(* "The wall-clock budget is expressed in these ticks, so it is the        *)
(* granularity of interruption" (runtime.rs:27-29, 153-154): an            *)
(* interrupted run has had all the whole ticks of its budget, the first    *)
(* counted from when the ticker last woke before the run started, however  *)
(* far the epoch had come by then and however many runs share it.  From    *)
(* its own start, which may be anywhere in that first tick, it misses at   *)
(* most that tick.                                                         *)
(***************************************************************************)
TicksGranted ==
  \A r \in Runs :
    run[r] = "stopped" =>
      /\ stopped[r] >= before[r] + Granted
      /\ stopped[r] >= started[r] + Granted - Tick

\* The longest the deadline of a run can take to come, with a late ticker.
Reach == Ticks * (Tick + Lag)

(***************************************************************************)
(* "This is what lets the host interrupt a guest that has stopped          *)
(* cooperating" (runtime.rs:83-85): a run that has had its budget is past  *)
(* its deadline, so the guest's next check stops it, also when other runs  *)
(* end, and when the server that started it is shutting down.              *)
(***************************************************************************)
DeadlineComes ==
  \A r \in Runs : Active(r) /\ now - started[r] > Reach => epoch >= deadline[r]

\* A run as its server knows it.
Phase(r) ==
  CASE Active(r) -> "active"
    [] run[r] \in {"stopped", "done"} -> "ended"
    [] OTHER -> run[r]

Life ==
  INSTANCE RunLife WITH
    phase <- [r \in Runs |-> Phase(r)],
    alive <- ~stop

\* The ticker is told to stop exactly when the last run and the owner have gone.
KeepsRunLife == Life!LifeSpec

(***************************************************************************)
(* "One deadline for the whole run.  A guest that loops forever, and a     *)
(* guest that waits forever on a slow model, are both stopped by it."      *)
(* (runtime.rs:151-152): no run lasts longer than its budget.              *)
(***************************************************************************)
BudgetBinds == \A r \in Runs : Active(r) => now - started[r] <= Reach

=============================================================================
