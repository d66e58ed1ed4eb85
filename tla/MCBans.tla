-------------------------------- MODULE MCBans --------------------------------
(* Bans for TLC. *)
EXTENDS Bans
===============================================================================
