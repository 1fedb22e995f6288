------------------------------ MODULE MCCommands ------------------------------
(* Commands for TLC. *)
EXTENDS Commands
=============================================================================
