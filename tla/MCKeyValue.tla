------------------------------ MODULE MCKeyValue ------------------------------
(* KeyValue for TLC: one change sets a flag, the other clears one. *)
EXTENDS KeyValue

CONSTANTS s1, c1, c2, god, freeze

MCHome == [c \in Changes |-> s1]
MCNamed == [c \in Changes |-> IF c = c1 THEN {god} ELSE {freeze}]
MCRequested == [c \in Changes |-> IF c = c1 THEN {god} ELSE {}]
===============================================================================
