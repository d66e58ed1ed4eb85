--------------------------- MODULE MCActionLifecycle ---------------------------
(* ActionLifecycle with two requests that reuse one key for different codes,  *)
(* a token that may dispatch only one of them, and a manifest that drops a    *)
(* code and declares it again.                                                *)
EXTENDS ActionLifecycle

CONSTANTS narrow, wide

MCCode == [r \in Requests |-> IF r = narrow THEN "heal" ELSE "wipe"]
MCGrants == [r \in Requests |-> IF r = narrow THEN {"heal"} ELSE {"heal", "wipe"}]
\* For idempotent_retry: the second request repeats the first.
SameCode == [r \in Requests |-> "heal"]
SameGrants == [r \in Requests |-> {"heal"}]
MCDeclares == [rev \in Revisions |-> IF rev = 2 THEN {"wipe"} ELSE {"heal", "wipe"}]
================================================================================
