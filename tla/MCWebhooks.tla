------------------------------ MODULE MCWebhooks ------------------------------
(* Webhooks for TLC: one token that covers events only and one that covers   *)
(* the audit log too; a client may move a webhook to its own address, narrow *)
(* or widen its filter, pause and resume it.                                 *)
EXTENDS Webhooks

CONSTANTS narrow, wide

MCTypeOf == [n \in Notes |-> IF n = 1 THEN "event" ELSE "audit"]
MCCovers == [t \in Tokens |-> IF t = narrow THEN {"event"} ELSE Kinds]
Only(field, value) ==
  [[move |-> FALSE, filter |-> Nothing, pause |-> Nothing] EXCEPT ![field] = value]
MCFilters == {{"event"}, {"event", "audit"}}
MCEdits == [t \in Tokens |->
  IF t = narrow THEN {Only("move", TRUE)}
  ELSE {Only("filter", filter) : filter \in MCFilters} \cup {Only("pause", p) : p \in BOOLEAN}]
===============================================================================
