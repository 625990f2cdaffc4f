--------------------------- MODULE WatchdogProofs ---------------------------
(***************************************************************************)
(* The time budget, for any number of runs, any budget, tick and lag, and  *)
(* however long the host lives; and that the Watchdog implements RunLife.  *)
(*                                                                         *)
(* Everything is counted from the epoch in which a run started,            *)
(* deadline - Ticks: k ticks later the time is at least k times Tick after *)
(* the ticker last woke before the start, at least k - 1 times Tick after  *)
(* the start, and at most k + 1 times Tick + Lag after it.                 *)
(***************************************************************************)
EXTENDS Watchdog, TLAPS

\* Ticks that have come since r started.
Since(r) == epoch - (deadline[r] - Ticks)

\* The ticker wakes no sooner than it should, and no later than Lag allows.
TickerInv ==
  /\ due <= now + Tick
  /\ (epoch + 1) * Tick <= due
  /\ ticker = "sleeping" => now <= due + Lag

\* It is told to stop when the last holder has gone, and goes only then.
HeldInv ==
  /\ stop <=> ~owner /\ \A r \in Runs : ~Holds(run, r)
  /\ ticker = "gone" => stop

RunInv(r) ==
  /\ Since(r) \in Nat /\ deadline[r] >= Ticks
  /\ started[r] <= now
  /\ Since(r) > 0 => now >= before[r] + Since(r) * Tick
  /\ due >= before[r] + (Since(r) + 1) * Tick
  /\ Since(r) > 0 => now >= started[r] + (Since(r) - 1) * Tick
  /\ Since(r) > 0 => due >= started[r] + Since(r) * Tick
  /\ due <= started[r] + Tick + Since(r) * (Tick + Lag)

BudgetInv == \A r \in Runs : Active(r) => RunInv(r)

Inv ==
  /\ WatchdogTypeOK
  /\ TickerInv
  /\ HeldInv
  /\ BudgetInv
  /\ TicksGranted

-----------------------------------------------------------------------------
LEMMA TicksNat == Ticks \in Nat \ {0}
  BY WatchdogAssumption DEF Ticks

\* The ticks of a budget are what it comes to in whole ticks.
LEMMA TicksMakeGranted == Ticks * Tick = Granted
  <1> DEFINE q == WallClock \div Tick
  <1>1. q \in Nat /\ WallClock = q * Tick + (WallClock % Tick)
    BY WatchdogAssumption
  <1>2. q * Tick \in Int
    BY <1>1, WatchdogAssumption
  <1>3. CASE WallClock < Tick
    <2>1. q = 0
      BY <1>3, WatchdogAssumption
    <2>2. Ticks = 1
      BY <2>1 DEF Ticks
    <2> QED BY <1>3, <2>2, WatchdogAssumption DEF Granted
  <1>4. CASE WallClock >= Tick
    <2>1. q # 0
      BY <1>1, <1>4, WatchdogAssumption
    <2>2. Ticks = q
      BY <1>1, <2>1 DEF Ticks
    <2>3. Granted = WallClock - (WallClock % Tick)
      BY <1>4, WatchdogAssumption DEF Granted
    <2> HIDE DEF q
    <2> QED BY <1>1, <1>2, <2>2, <2>3, WatchdogAssumption
  <1> QED BY <1>3, <1>4, WatchdogAssumption

LEMMA OneMore ==
  ASSUME NEW k \in Int, NEW t \in Nat
  PROVE  k * t \in Int /\ (k + 1) * t = k * t + t /\ (k - 1) * t = k * t - t
  OBVIOUS

LEMMA Monotone ==
  ASSUME NEW j \in Int, NEW k \in Int, NEW t \in Nat, j <= k
  PROVE  j * t <= k * t
  OBVIOUS

LEMMA InitInv == WatchdogInit => Inv
  <1> SUFFICES ASSUME WatchdogInit PROVE Inv
    OBVIOUS
  <1>1. WatchdogTypeOK
    <2>1. 0 \in 0..(0 \div Tick)
      BY WatchdogAssumption
    <2> QED BY <2>1, WatchdogAssumption DEF WatchdogInit, WatchdogTypeOK
  <1>2. TickerInv
    BY WatchdogAssumption DEF WatchdogInit, TickerInv
  <1>3. HeldInv /\ BudgetInv /\ TicksGranted
    BY DEF WatchdogInit, HeldInv, Holds, BudgetInv, Active, TicksGranted
  <1> QED BY <1>1, <1>2, <1>3 DEF Inv

-----------------------------------------------------------------------------
(***************************************************************************)
(* Steps in which no time passes and the ticker does not move.             *)
(***************************************************************************)
Still == UNCHANGED <<now, epoch, due, ticker>>

LEMMA StillKeepsTicker == Inv /\ Still => TickerInv'
  BY DEF Inv, TickerInv, Still

LEMMA StillKeepsRun ==
  ASSUME Still, NEW r \in Runs, UNCHANGED <<deadline[r], started[r], before[r]>>,
         RunInv(r)
  PROVE  RunInv(r)'
  <1>1. UNCHANGED <<now, epoch, due, deadline[r], started[r], before[r]>>
    BY DEF Still
  <1> QED BY <1>1 DEF RunInv, Since, Ticks

LEMMA AcceptStep == ASSUME Inv, NEW r \in Runs, Accept(r) PROVE Inv'
  <1> USE DEF Inv, Accept
  <1>1. Still
    BY DEF Still
  <1>2. WatchdogTypeOK'
    BY DEF WatchdogTypeOK
  <1>3. HeldInv' /\ TicksGranted'
    BY DEF WatchdogTypeOK, HeldInv, Holds, TicksGranted
  <1>4. BudgetInv'
    BY <1>1, StillKeepsRun DEF WatchdogTypeOK, BudgetInv, Active
  <1> QED BY <1>1, <1>2, <1>3, <1>4, StillKeepsTicker

LEMMA StartStep == ASSUME Inv, NEW r \in Runs, Start(r) PROVE Inv'
  <1> USE DEF Inv, Start
  <1>1. Still
    BY DEF Still
  <1>2. WatchdogTypeOK'
    <2>1. epoch \in Nat /\ due \in Nat /\ Tick \in Nat
      BY WatchdogAssumption DEF WatchdogTypeOK
    <2>2. (epoch + 1) * Tick = epoch * Tick + Tick /\ epoch * Tick \in Nat
      BY <2>1, OneMore
    <2>3. due - Tick \in Nat
      BY <2>1, <2>2 DEF TickerInv
    <2> QED BY <2>1, <2>3, TicksNat DEF WatchdogTypeOK
  <1>3. HeldInv' /\ TicksGranted'
    BY DEF WatchdogTypeOK, HeldInv, Holds, TicksGranted
  <1>4. RunInv(r)'
    <2>1. deadline'[r] = epoch + Ticks /\ started'[r] = now /\ before'[r] = due - Tick
      BY DEF WatchdogTypeOK
    <2>2. epoch \in Nat /\ now \in Nat /\ due \in Nat
      BY WatchdogAssumption DEF WatchdogTypeOK
    <2>3. Since(r)' = 0 /\ Ticks' = Ticks
      BY <2>1, <2>2, TicksNat DEF Since, Ticks
    <2>4. 0 * (Tick + Lag) = 0 /\ (0 + 1) * Tick = Tick
      BY WatchdogAssumption
    <2> QED BY <2>1, <2>2, <2>3, <2>4, TicksNat, WatchdogAssumption DEF RunInv, TickerInv
  <1>5. BudgetInv'
    <2>1. ASSUME NEW q \in Runs, q # r, Active(q)' PROVE RunInv(q)'
      <3>1. Active(q) /\ UNCHANGED <<deadline[q], started[q], before[q]>>
        BY <2>1 DEF WatchdogTypeOK, Active
      <3> QED BY <1>1, <3>1, StillKeepsRun DEF BudgetInv
    <2> QED BY <1>4, <2>1 DEF BudgetInv
  <1> QED BY <1>1, <1>2, <1>3, <1>5, StillKeepsTicker

LEMMA HostStep ==
  ASSUME Inv, NEW r \in Runs, EnterHost(r) \/ LeaveHost(r) PROVE Inv'
  <1> USE DEF Inv, EnterHost, LeaveHost
  <1>1. Still
    BY DEF Still
  <1>2. WatchdogTypeOK'
    BY DEF WatchdogTypeOK
  <1>3. HeldInv' /\ TicksGranted'
    BY DEF WatchdogTypeOK, HeldInv, Holds, TicksGranted
  <1>4. BudgetInv'
    <2>1. ASSUME NEW q \in Runs, Active(q)' PROVE RunInv(q)'
      <3>1. Active(q) /\ UNCHANGED <<deadline[q], started[q], before[q]>>
        BY <2>1 DEF WatchdogTypeOK, Active
      <3> QED BY <1>1, <3>1, StillKeepsRun DEF BudgetInv
    <2> QED BY <2>1 DEF BudgetInv
  <1> QED BY <1>1, <1>2, <1>3, <1>4, StillKeepsTicker

\* A run that leaves, and takes the Runtime with it if it is the last.
LEMMA LeaveStep ==
  ASSUME Inv, Still, NEW r \in Runs, NEW to \in {"done", "stopped", "dropped"},
         run' = [run EXCEPT ![r] = to], UNCHANGED <<owner, deadline, started, before>>,
         LetGo(owner, run')
  PROVE  HeldInv' /\ BudgetInv' /\ TickerInv'
  <1> USE DEF Inv
  <1>1. HeldInv'
    BY DEF WatchdogTypeOK, HeldInv, Holds, LetGo, Still
  <1>2. BudgetInv'
    <2>1. ASSUME NEW q \in Runs, Active(q)' PROVE RunInv(q)'
      <3>1. Active(q) /\ UNCHANGED <<deadline[q], started[q], before[q]>>
        BY <2>1 DEF WatchdogTypeOK, Active
      <3> QED BY <3>1, StillKeepsRun DEF BudgetInv
    <2> QED BY <2>1 DEF BudgetInv
  <1> QED BY <1>1, <1>2, StillKeepsTicker

LEMMA FinishStep == ASSUME Inv, NEW r \in Runs, Finish(r) \/ Drop(r) PROVE Inv'
  <1> USE DEF Inv, Finish, Drop
  <1>1. Still
    BY DEF Still
  <1>2. WatchdogTypeOK'
    BY DEF WatchdogTypeOK, LetGo
  <1>3. HeldInv' /\ BudgetInv' /\ TickerInv'
    BY <1>1, LeaveStep
  <1>4. TicksGranted'
    BY DEF WatchdogTypeOK, TicksGranted
  <1> QED BY <1>2, <1>3, <1>4

LEMMA InterruptStep == ASSUME Inv, NEW r \in Runs, Interrupt(r) PROVE Inv'
  <1> USE DEF Inv, Interrupt
  <1>1. Still
    BY DEF Still
  <1>2. WatchdogTypeOK'
    BY DEF WatchdogTypeOK, LetGo
  <1>3. HeldInv' /\ BudgetInv' /\ TickerInv'
    BY <1>1, LeaveStep
  <1>4. now >= before[r] + Granted /\ now >= started[r] + Granted - Tick
    <2> DEFINE k == Since(r)
    <2>1. RunInv(r)
      BY DEF BudgetInv, Active
    <2>2. /\ epoch \in Nat /\ now \in Nat /\ deadline[r] \in Nat /\ started[r] \in Nat
          /\ before[r] \in Nat /\ Ticks \in Nat \ {0} /\ Tick \in Nat
      BY TicksNat, WatchdogAssumption DEF WatchdogTypeOK
    <2>3. k \in Int /\ k > 0 /\ Ticks <= k
      BY <2>2 DEF Since
    <2>4. Ticks * Tick <= k * Tick
      BY <2>2, <2>3, Monotone
    <2>5. Ticks * Tick \in Int /\ k * Tick \in Int /\ (k - 1) * Tick = k * Tick - Tick
      BY <2>2, <2>3, OneMore
    <2>6. now >= before[r] + k * Tick /\ now >= started[r] + (k - 1) * Tick
      BY <2>1, <2>3 DEF RunInv
    <2> HIDE DEF k
    <2> QED BY <2>2, <2>4, <2>5, <2>6, TicksMakeGranted
  <1>5. TicksGranted'
    <2>1. ASSUME NEW q \in Runs, run'[q] = "stopped"
          PROVE  /\ stopped'[q] >= before'[q] + Granted
                 /\ stopped'[q] >= started'[q] + Granted - Tick
      <3>1. CASE q = r
        BY <1>4, <3>1 DEF WatchdogTypeOK
      <3>2. CASE q # r
        BY <2>1, <3>2 DEF WatchdogTypeOK, TicksGranted
      <3> QED BY <3>1, <3>2
    <2> QED BY <2>1 DEF TicksGranted, Granted
  <1> QED BY <1>2, <1>3, <1>5

LEMMA OwnerStep == ASSUME Inv, OwnerLetsGo PROVE Inv'
  <1> USE DEF Inv, OwnerLetsGo
  <1>1. Still
    BY DEF Still
  <1>2. WatchdogTypeOK'
    BY DEF WatchdogTypeOK, LetGo
  <1>3. HeldInv'
    BY DEF WatchdogTypeOK, HeldInv, Holds, LetGo
  <1>4. BudgetInv'
    <2>1. ASSUME NEW q \in Runs, Active(q)' PROVE RunInv(q)'
      BY <1>1, <2>1, StillKeepsRun DEF BudgetInv, Active
    <2> QED BY <2>1 DEF BudgetInv
  <1>5. TicksGranted'
    BY DEF TicksGranted
  <1> QED BY <1>1, <1>2, <1>3, <1>4, <1>5, StillKeepsTicker

\* k ticks take at least k times Tick: the epoch is behind the time.
LEMMA EpochBehind ==
  ASSUME NEW k \in Nat, NEW t \in Nat, k * Tick <= t
  PROVE  k \in 0..(t \div Tick)
  <1> DEFINE q == t \div Tick
  <1>1. q \in Nat /\ t < (q + 1) * Tick
    BY WatchdogAssumption
  <1>2. ASSUME k > q PROVE FALSE
    <2>1. (q + 1) * Tick <= k * Tick
      BY <1>1, <1>2, Monotone, WatchdogAssumption
    <2>2. (q + 1) * Tick \in Int /\ k * Tick \in Int
      BY <1>1, WatchdogAssumption
    <2> HIDE DEF q
    <2> QED BY <1>1, <2>1, <2>2
  <1> HIDE DEF q
  <1>3. k \in 0..q
    BY <1>1, <1>2
  <1> QED BY <1>3 DEF q

LEMMA TickerStep == ASSUME Inv, TickerWakes PROVE Inv'
  <1> USE DEF Inv, TickerWakes
  <1>1. /\ epoch \in Nat /\ now \in Nat /\ due \in Nat /\ Tick \in Nat \ {0} /\ Lag \in Nat
        /\ epoch' = epoch + 1 /\ due' = now + Tick /\ now' = now /\ now >= due
        /\ now <= due + Lag
    BY WatchdogAssumption DEF WatchdogTypeOK, TickerInv
  <1>2. WatchdogTypeOK'
    <2>1. epoch' \in 0..(now' \div Tick)
      BY <1>1, EpochBehind DEF TickerInv
    <2> QED BY <1>1, <2>1 DEF WatchdogTypeOK
  <1>3. TickerInv'
    <2>1. (epoch + 1) * Tick \in Int /\ (epoch' + 1) * Tick = (epoch + 1) * Tick + Tick
      BY <1>1, OneMore
    <2> QED BY <1>1, <2>1 DEF TickerInv
  <1>4. HeldInv' /\ TicksGranted'
    BY DEF WatchdogTypeOK, HeldInv, Holds, TicksGranted
  <1>5. ASSUME NEW r \in Runs, Active(r)' PROVE RunInv(r)'
    <2> DEFINE k == Since(r)
               s == started[r]
    <2>1. RunInv(r) /\ UNCHANGED <<started, before, deadline>>
      BY <1>5 DEF BudgetInv, Active
    <2>2. k \in Nat /\ s \in Nat /\ deadline[r] \in Nat /\ Ticks \in Nat
      BY <2>1, TicksNat DEF WatchdogTypeOK, RunInv
    <2>3. Since(r)' = k + 1
      BY <1>1, <2>1, <2>2 DEF Since, Ticks
    <2>4. /\ k * Tick \in Int /\ (k + 1) * Tick = k * Tick + Tick
          /\ (k - 1) * Tick = k * Tick - Tick
      BY <1>1, <2>2, OneMore
    <2>5. k * (Tick + Lag) \in Int /\ (k + 1) * (Tick + Lag) = k * (Tick + Lag) + Tick + Lag
      <3>1. Tick + Lag \in Nat
        BY <1>1
      <3>2. (k + 1) * (Tick + Lag) = k * (Tick + Lag) + (Tick + Lag)
        BY <2>2, <3>1, OneMore
      <3>3. k * (Tick + Lag) \in Int
        BY <2>2, <3>1, OneMore
      <3> QED BY <1>1, <3>2, <3>3
    <2>6. now >= s + k * Tick
      <3>1. CASE k = 0
        BY <1>1, <2>1, <2>2, <3>1 DEF RunInv
      <3>2. CASE k > 0
        BY <1>1, <2>1, <2>2, <2>4, <3>2 DEF RunInv
      <3> QED BY <2>2, <3>1, <3>2
    <2>7. due <= s + Tick + k * (Tick + Lag) /\ s <= now /\ deadline[r] >= Ticks
      BY <2>1 DEF RunInv
    <2>8. (k + 1) - 1 = k
      BY <2>2
    <2>9. UNCHANGED Ticks /\ s' = s /\ deadline'[r] = deadline[r] /\ before'[r] = before[r]
      BY <2>1 DEF Ticks
    <2>12. before[r] \in Nat /\ due >= before[r] + (k + 1) * Tick
      BY <1>5, <2>1 DEF RunInv, WatchdogTypeOK
    <2>13. ((k + 1) + 1) * Tick = (k + 1) * Tick + Tick
      BY <1>1, <2>2, OneMore
    <2> HIDE DEF k, s
    <2>14. /\ now >= before[r] + (k + 1) * Tick
           /\ due' >= before[r] + ((k + 1) + 1) * Tick
      BY <1>1, <2>2, <2>4, <2>12, <2>13
    <2>10. /\ due' >= s + (k + 1) * Tick
           /\ due' <= s + Tick + (k + 1) * (Tick + Lag)
      BY <1>1, <2>2, <2>4, <2>5, <2>6, <2>7
    <2>11. k + 1 \in Nat
      BY <2>2
    <2> USE DEF s
    <2> QED BY <1>1, <2>3, <2>6, <2>7, <2>8, <2>9, <2>10, <2>11, <2>14 DEF RunInv
  <1> QED BY <1>2, <1>3, <1>4, <1>5 DEF BudgetInv

LEMMA PassStep == ASSUME Inv, Pass PROVE Inv'
  <1> USE DEF Inv, Pass
  <1>1. /\ epoch \in Nat /\ now \in Nat /\ due \in Nat /\ Tick \in Nat \ {0} /\ Lag \in Nat
        /\ now' = now + 1 /\ UNCHANGED <<epoch, due, ticker>>
    BY WatchdogAssumption DEF WatchdogTypeOK
  <1>2. WatchdogTypeOK'
    <2>1. epoch * Tick \in Int /\ (epoch + 1) * Tick = epoch * Tick + Tick
      BY <1>1, OneMore
    <2>2. epoch * Tick <= now'
      BY <1>1, <2>1 DEF TickerInv
    <2>3. epoch' \in 0..(now' \div Tick)
      BY <1>1, <2>2, EpochBehind
    <2> QED BY <1>1, <2>3 DEF WatchdogTypeOK
  <1>3. TickerInv'
    BY <1>1 DEF TickerInv
  <1>4. HeldInv' /\ TicksGranted'
    BY DEF WatchdogTypeOK, HeldInv, Holds, TicksGranted
  <1>5. ASSUME NEW r \in Runs, Active(r)' PROVE RunInv(r)'
    <2>1. RunInv(r) /\ UNCHANGED <<started, before, deadline>>
      BY <1>5 DEF BudgetInv, Active
    <2>2. Since(r)' = Since(r) /\ Ticks' = Ticks /\ Since(r) \in Nat
      BY <1>1, <2>1 DEF Since, Ticks, RunInv
    <2>3. /\ started[r] \in Nat /\ (Since(r) - 1) * Tick \in Int
          /\ before[r] \in Nat /\ Since(r) * Tick \in Int
      BY <1>1, <2>2 DEF WatchdogTypeOK
    <2> QED BY <1>1, <2>1, <2>2, <2>3 DEF RunInv
  <1> QED BY <1>2, <1>3, <1>4, <1>5 DEF BudgetInv

LEMMA StepInv == Inv /\ [WatchdogNext]_watchdogVars => Inv'
  <1> SUFFICES ASSUME Inv, [WatchdogNext]_watchdogVars PROVE Inv'
    OBVIOUS
  <1>1. CASE UNCHANGED watchdogVars
    <2>1. Still
      BY <1>1 DEF watchdogVars, Still
    <2>2. ASSUME NEW q \in Runs, Active(q)' PROVE RunInv(q)'
      BY <1>1, <2>1, <2>2, StillKeepsRun DEF watchdogVars, Inv, BudgetInv, Active
    <2>3. WatchdogTypeOK' /\ HeldInv' /\ TicksGranted'
      BY <1>1 DEF watchdogVars, Inv, WatchdogTypeOK, HeldInv, Holds, TicksGranted
    <2> QED BY <2>1, <2>2, <2>3, StillKeepsTicker DEF Inv, BudgetInv
  <1> QED
    BY <1>1, AcceptStep, StartStep, HostStep, FinishStep, InterruptStep, OwnerStep,
       TickerStep, PassStep DEF WatchdogNext

LEMMA InvHolds == WatchdogSpec => []Inv
  BY InitInv, StepInv, PTL DEF WatchdogSpec

-----------------------------------------------------------------------------
(***************************************************************************)
(* The state stays in its types, and the epoch never runs ahead of time.   *)
(***************************************************************************)
THEOREM WatchdogTypeCorrect == WatchdogSpec => []WatchdogTypeOK
  <1>1. Inv => WatchdogTypeOK
    BY DEF Inv
  <1> QED BY InvHolds, <1>1, PTL

(***************************************************************************)
(* For every budget, tick and lag, and any number of runs: an interrupted  *)
(* run has had all the whole ticks of its budget, and at least one, from   *)
(* when the ticker last woke before the run started; from its own start it *)
(* misses at most one of them (runtime.rs:27-29, 153-154).                 *)
(***************************************************************************)
THEOREM TicksGrantedHolds == WatchdogSpec => []TicksGranted
  <1>1. Inv => TicksGranted
    BY DEF Inv
  <1> QED BY InvHolds, <1>1, PTL

(***************************************************************************)
(* The deadline of every run comes, within Reach of its start: the ticker  *)
(* is there as long as anybody waits for it (runtime.rs:83-99, 197-204).   *)
(***************************************************************************)
THEOREM DeadlineComesHolds == WatchdogSpec => []DeadlineComes
  <1>1. ASSUME Inv, NEW r \in Runs, Active(r), epoch < deadline[r]
        PROVE  now - started[r] <= Reach
    <2> DEFINE k == Since(r)
               u == Tick + Lag
    <2> USE DEF Inv
    <2>1. RunInv(r) /\ now <= due + Lag
      BY <1>1 DEF BudgetInv, HeldInv, Holds, Active, TickerInv, WatchdogTypeOK
    <2>2. /\ epoch \in Nat /\ now \in Nat /\ due \in Nat /\ started[r] \in Nat
          /\ deadline[r] \in Nat /\ Ticks \in Nat \ {0}
          /\ Tick \in Nat /\ Lag \in Nat /\ u \in Nat
      <3>1. Tick \in Nat /\ Lag \in Nat
        BY WatchdogAssumption
      <3>2. epoch \in Nat /\ now \in Nat /\ due \in Nat
        BY <1>1, WatchdogAssumption DEF WatchdogTypeOK
      <3>3. started[r] \in Nat /\ deadline[r] \in Nat
        BY <1>1 DEF WatchdogTypeOK
      <3> QED BY <3>1, <3>2, <3>3, TicksNat
    <2>3. k \in Nat /\ k <= Ticks - 1 /\ due <= started[r] + Tick + k * u
      BY <1>1, <2>1, <2>2 DEF RunInv, Since
    <2>4. k * u <= (Ticks - 1) * u
      BY <2>2, <2>3, Monotone
    <2>5. k * u \in Int /\ Ticks * u \in Int /\ (Ticks - 1) * u = Ticks * u - u
      BY <2>2, <2>3, OneMore
    <2>6. u = Tick + Lag /\ Reach = Ticks * u
      BY DEF Reach
    <2> HIDE DEF k, u
    <2> QED BY <2>1, <2>2, <2>3, <2>4, <2>5, <2>6
  <1>2. Inv => DeadlineComes
    <2>1. ASSUME Inv, NEW r \in Runs, Active(r), now - started[r] > Reach
          PROVE  epoch >= deadline[r]
      <3>1. epoch \in Nat /\ deadline[r] \in Nat /\ now - started[r] \in Int
        BY <2>1, WatchdogAssumption DEF Inv, WatchdogTypeOK
      <3>2. Reach \in Int
        BY TicksNat, WatchdogAssumption DEF Reach
      <3> QED BY <1>1, <2>1, <3>1, <3>2
    <2> QED BY <2>1 DEF DeadlineComes
  <1> QED BY InvHolds, <1>2, PTL

-----------------------------------------------------------------------------
LEMMA LifeInitHolds == WatchdogInit => Life!LifeInit
  BY DEF WatchdogInit, Life!LifeInit, Phase, Active

LEMMA LifeStep == Inv /\ [WatchdogNext]_watchdogVars => [Life!LifeNext]_(Life!lifeVars)
  <1> SUFFICES ASSUME Inv, [WatchdogNext]_watchdogVars
               PROVE  [Life!LifeNext]_(Life!lifeVars)
    OBVIOUS
  <1> DEFINE phases == [r \in Runs |-> Phase(r)]
  <1>0. WatchdogTypeOK /\ HeldInv
    BY DEF Inv
  <1>1. \A r \in Runs : Phase(r) \in {"queued", "active"} <=> Holds(run, r)
    BY <1>0 DEF WatchdogTypeOK, Phase, Active, Holds
  <1>2. \A r \in Runs : (Phase(r) \in {"queued", "active"})' <=> Holds(run', r)
    BY StepInv DEF Inv, WatchdogTypeOK, Phase, Active, Holds
  <1>3. stop <=> ~(owner \/ Life!Held(phases))
    BY <1>0, <1>1 DEF HeldInv, Life!Held
  <1>4. stop' <=> ~(owner' \/ Life!Held(phases'))
    BY <1>2, StepInv DEF Inv, HeldInv, Life!Held
  <1>5. ASSUME UNCHANGED <<run, owner, stop>> PROVE UNCHANGED Life!lifeVars
    BY <1>5 DEF Life!lifeVars, Phase, Active
  <1>6. ASSUME NEW r \in Runs, NEW to, run' = [run EXCEPT ![r] = to], UNCHANGED owner,
               NEW phase, Phase(r)' = phase
        PROVE  Life!Move(r, Phase(r), phase)
    <2>1. phases' = [phases EXCEPT ![r] = phase]
      BY <1>0, <1>6 DEF WatchdogTypeOK, Phase, Active
    <2>2. (~stop)' = (owner \/ Life!Held(phases'))
      BY <1>0, <1>4, <1>6, StepInv DEF Inv, WatchdogTypeOK, Life!Held
    <2> QED BY <1>6, <2>1, <2>2 DEF Life!Move
  <1>7. ASSUME NEW r \in Runs, Accept(r) PROVE Life!Accept(r)
    <2>1. Phase(r) = "idle" /\ Phase(r)' = "queued"
      BY <1>0, <1>7 DEF Accept, Phase, Active, WatchdogTypeOK
    <2>2. Life!Move(r, "idle", "queued")
      BY <1>6, <1>7, <2>1 DEF Accept
    <2> QED BY <1>7, <2>2 DEF Accept, Life!Accept
  <1>8. ASSUME NEW r \in Runs, Start(r) PROVE Life!Start(r)
    <2>1. Phase(r) = "queued" /\ Phase(r)' = "active"
      BY <1>0, <1>8 DEF Start, Phase, Active, WatchdogTypeOK
    <2>2. Life!Move(r, "queued", "active")
      BY <1>6, <1>8, <2>1 DEF Start
    <2> QED BY <2>2 DEF Life!Start
  <1>9. ASSUME NEW r \in Runs, EnterHost(r) \/ LeaveHost(r) PROVE UNCHANGED Life!lifeVars
    <2>1. UNCHANGED <<owner, stop>> /\ phases' = phases
      BY <1>0, <1>9 DEF EnterHost, LeaveHost, Phase, Active, WatchdogTypeOK
    <2> QED BY <2>1 DEF Life!lifeVars
  <1>10. ASSUME NEW r \in Runs, Finish(r) PROVE Life!End(r)
    <2>1. Phase(r) = "active" /\ Phase(r)' = "ended"
      BY <1>0, <1>10 DEF Finish, Phase, Active, WatchdogTypeOK
    <2>2. Life!Move(r, "active", "ended")
      BY <1>6, <1>10, <2>1 DEF Finish
    <2> QED BY <2>2 DEF Life!End
  <1>11. ASSUME NEW r \in Runs, Interrupt(r) PROVE Life!End(r)
    <2>1. Phase(r) = "active" /\ Phase(r)' = "ended"
      BY <1>0, <1>11 DEF Interrupt, Phase, Active, WatchdogTypeOK
    <2>2. Life!Move(r, "active", "ended")
      BY <1>6, <1>11, <2>1 DEF Interrupt
    <2> QED BY <2>2 DEF Life!End
  <1>12. ASSUME NEW r \in Runs, Drop(r) PROVE Life!Drop(r)
    <2>1. Phase(r) = "queued" /\ Phase(r)' = "dropped"
      BY <1>0, <1>12 DEF Drop, Phase, Active, WatchdogTypeOK
    <2>2. Life!Move(r, "queued", "dropped")
      BY <1>6, <1>12, <2>1 DEF Drop
    <2> QED BY <1>12, <2>2 DEF Drop, Life!Drop
  <1>13. CASE OwnerLetsGo
    <2>1. phases' = phases /\ owner' = FALSE
      BY <1>13 DEF OwnerLetsGo, Phase, Active
    <2>2. (~stop)' = Life!Held(phases)
      BY <1>4, <2>1, StepInv DEF Inv, WatchdogTypeOK, Life!Held
    <2>3. Life!OwnerLetsGo
      BY <2>1, <2>2 DEF Life!OwnerLetsGo
    <2> QED BY <2>3 DEF Life!LifeNext
  <1>14. CASE TickerWakes
    BY <1>5, <1>14 DEF TickerWakes
  <1>15. CASE Pass
    BY <1>5, <1>15 DEF Pass
  <1>16. CASE UNCHANGED watchdogVars
    BY <1>5, <1>16 DEF watchdogVars
  <1> QED
    BY <1>7, <1>8, <1>9, <1>10, <1>11, <1>12, <1>13, <1>14, <1>15, <1>16
       DEF WatchdogNext, Life!LifeNext

(***************************************************************************)
(* The ticker is told to stop exactly when the last holder of the Runtime  *)
(* has gone, as RunLife says (runtime.rs:197-204).                         *)
(***************************************************************************)
THEOREM KeepsRunLifeHolds == WatchdogSpec => KeepsRunLife
  BY LifeInitHolds, LifeStep, InvHolds, PTL DEF WatchdogSpec, KeepsRunLife, Life!LifeSpec

=============================================================================
