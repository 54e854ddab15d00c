---------------------------- MODULE MCRoundRobin ----------------------------
(* An instance of RoundRobin for TLC, with the constants of MCProc. *)
EXTENDS RoundRobin, MCProc
=============================================================================
