------------------------------ MODULE RunLife ------------------------------
(***************************************************************************)
(* The life of the runs that share one Runtime, and of the Runtime itself: *)
(* what the server promises the watchdog, and the watchdog relies on.      *)
(*                                                                         *)
(* A run is accepted only by the owner of the Runtime, starts at most once *)
(* and ends at most once.  It may be dropped instead of started, but not   *)
(* as long as there is an owner.  The Runtime, with its ticker thread, is  *)
(* there as long as anyone holds it: the owner, or a run that may yet      *)
(* enter the guest.  A crash of the process ends everything at once.       *)
(*                                                                         *)
(* Server and Watchdog both implement this module.                         *)
(***************************************************************************)
CONSTANT Runs

VARIABLES
  owner,   \* somebody may still accept runs
  phase,   \* each run: "idle", "queued", "active", "ended", "dropped", "lost"
  alive    \* Runtime::drop has not run

lifeVars == <<owner, phase, alive>>

Held(runs) == \E r \in Runs : runs[r] \in {"queued", "active"}

LifeInit ==
  /\ owner = TRUE
  /\ phase = [r \in Runs |-> "idle"]
  /\ alive = TRUE

Move(r, from, to) ==
  /\ phase[r] = from
  /\ phase' = [phase EXCEPT ![r] = to]
  /\ UNCHANGED owner
  /\ alive' = (owner \/ Held(phase'))

Accept(r) == owner /\ Move(r, "idle", "queued")
Start(r) == Move(r, "queued", "active")
End(r) == Move(r, "active", "ended")
Drop(r) == ~owner /\ Move(r, "queued", "dropped")

OwnerLetsGo ==
  /\ owner' = FALSE
  /\ alive' = Held(phase)
  /\ UNCHANGED phase

Crash ==
  /\ owner' = FALSE
  /\ alive' = FALSE
  /\ phase' = [r \in Runs |->
                 IF phase[r] \in {"queued", "active"} THEN "lost" ELSE phase[r]]

LifeNext ==
  \/ \E r \in Runs : Accept(r) \/ Start(r) \/ End(r) \/ Drop(r)
  \/ OwnerLetsGo
  \/ Crash

LifeSpec == LifeInit /\ [][LifeNext]_lifeVars

=============================================================================
