------------------------------ MODULE MCServer ------------------------------
(* Three clients of a server whose pool has one thread. *)
EXTENDS Server

CONSTANTS c1, c2, c3

MCRequests == {c1, c2, c3}

=============================================================================
