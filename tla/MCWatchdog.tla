----------------------------- MODULE MCWatchdog -----------------------------
(* Two runs that share one ticker. *)
EXTENDS Watchdog, TLC

CONSTANTS r1, r2

MCRuns == {r1, r2}
Symmetry == Permutations(MCRuns)

=============================================================================
