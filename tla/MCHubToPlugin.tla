---------------------------- MODULE MCHubToPlugin ----------------------------
(***************************************************************************)
(* HubToPlugin for TLC.  The polls in flight are interchangeable: no       *)
(* action orders them, so permuting Slots maps behaviours to behaviours.   *)
(***************************************************************************)
EXTENDS HubToPlugin, TLC

SlotSymmetry == Permutations(Slots)
===============================================================================
