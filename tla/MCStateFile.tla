---------------------------- MODULE MCStateFile -----------------------------
(* An instance of StateFile. *)
EXTENDS StateFile
=============================================================================
