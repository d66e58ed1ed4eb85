------------------------------- MODULE MCIntake -------------------------------
(* Intake for TLC: a batch of two events of different retention and batches  *)
(* of one, a faulty one among them.                                          *)
EXTENDS Intake, TLC

CONSTANTS b1, b2

MCLives == [b \in Batches |-> IF b = b1 THEN {1, 2} ELSE {1}]
MCSymmetry == Permutations(Polls) \cup Permutations(Snapshots)
===============================================================================
