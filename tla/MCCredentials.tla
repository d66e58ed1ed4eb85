----------------------------- MODULE MCCredentials -----------------------------
(* Credentials for TLC: two game servers configured for one record.  No       *)
(* symmetry: the run checks a liveness property.                              *)
EXTENDS Credentials
===============================================================================
