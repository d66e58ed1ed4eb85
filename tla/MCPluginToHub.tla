----------------------------- MODULE MCPluginToHub -----------------------------
(* PluginToHub for TLC.  No symmetry: the run checks a liveness property.     *)
EXTENDS PluginToHub
===============================================================================
