---------------------------- MODULE MCStateLock -----------------------------
(* An instance of StateLock. *)
EXTENDS StateLock, TLC

CONSTANTS p1, p2, p3

AnyProc == Permutations(Procs)
=============================================================================
