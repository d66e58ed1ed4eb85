------------------------------- MODULE KeyValue -------------------------------
(***************************************************************************)
(* One key of the hub's store (hub/kv.go, hub/store/kv.go) and the plugins *)
(* that keep a player's admin flags under it: the store client with its    *)
(* one request at a time, its retries and its deadlines (VyshkaStore.c),   *)
(* the change that reads, merges and writes back guarded by the revision   *)
(* it read, and the lookup the game follows (VyshkaFlags.c).               *)
(*                                                                         *)
(* A set is a transaction: it takes the key's lock and reads, then writes  *)
(* and commits.  A set whose client has timed out, given up or died may    *)
(* still be on its way, or inside the hub, and land at any later time or   *)
(* never.  Other clients (bots, operators) write and delete the key        *)
(* through the Admin API.  Time is the order of steps: a deadline passes   *)
(* when the client gives up, a TTL when the record lapses.                 *)
(***************************************************************************)
EXTENDS Integers, FiniteSets

CONSTANTS
  Servers,
  Changes,         \* dispatches of vyshka.flags
  Home,            \* the server each runs on
  Flags,
  Named,           \* the flags each dispatch names
  Requested,       \* and those among them it sets
  ChangeAttempts,  \* CHANGE_ATTEMPTS
  Other,           \* who writes what no change does, and asks for a lookup
  MaxWrites,       \* bound on the writes after which no other client writes
  MaxFaults        \* bound

\* The requests the hub may run: each server's transport has one, and every
\* fault may leave one behind.
Slots == Servers \cup 1..MaxFaults

ASSUME KeyValueAssumption ==
  /\ Home \in [Changes -> Servers] /\ Other \notin Servers \cup Changes
  /\ Servers \cap 1..MaxFaults = {}
  /\ Named \in [Changes -> SUBSET Flags] /\ Requested \in [Changes -> SUBSET Flags]
  /\ ChangeAttempts \in Nat \ {0} /\ MaxWrites \in Nat /\ MaxFaults \in Nat

VARIABLES
  row,      \* the key's row, NoRow when there is none
  picked,   \* the retention pass has found the row expired
  change,   \* VyshkaFlagsChange, by dispatch
  lookup,   \* the lookup of each server: "none", "queued", "sent" or "waiting"
  attempt,  \* the request each server's transport runs, and those left behind
  known,    \* VyshkaFlags.s_Known
  online,   \* servers the player is on
  writes,   \* history: how often the key was written, deleted or lapsed
  gone,     \* history: which of those last took the key away
  missed,   \* history: servers a write of their own has escaped, until they look again
  faults

hubVars == <<row, picked, writes, gone>>
clientVars == <<change, lookup, attempt>>
vars == <<hubVars, clientVars, known, online, missed, faults>>

NoRow == [flags |-> {}, rev |-> 0, ttl |-> FALSE, lapsed |-> FALSE, by |-> Other, ver |-> 0]
Ended == [stage |-> "ended", call |-> "none", tries |-> 0, flags |-> {}, rev |-> 0,
          seen |-> 0, gone |-> 0, wrote |-> FALSE]
NewChange == [Ended EXCEPT !.stage = "idle"]
NoAttempt == [stage |-> "none", for |-> Other, flags |-> {}, rev |-> 0, seen |-> 0, gone |-> 0,
              old |-> FALSE]
Unknown == {Other}                            \* no flags heard of yet

Init ==
  /\ row = NoRow /\ picked = FALSE
  /\ change = [c \in Changes |-> NewChange]
  /\ lookup = [s \in Servers |-> "none"] /\ attempt = [q \in Slots |-> NoAttempt]
  /\ known = [s \in Servers |-> Unknown] /\ online = {}
  /\ writes = 0 /\ gone = 0 /\ missed = {} /\ faults = 0

Fault == faults < MaxFaults /\ faults' = faults + 1

-------------------------------------------------------------------------------
(* The hub *)

\* kvLive and kvCurrentRevision.
Live == row # NoRow /\ ~row.lapsed
CurrentRevision == IF Live THEN row.rev ELSE 0
CurrentVersion == IF Live THEN row.ver ELSE 0

\* lockKey: the writers of one key follow each other.
AnyOrder == TRUE
KeyLock == \A q \in Slots : attempt[q].stage # "held"

Written(flags, rev, ttl, by) ==
  [flags |-> flags, rev |-> rev, ttl |-> ttl, lapsed |-> FALSE, by |-> by, ver |-> writes + 1]

\* What the hub answers, to a client that may have gone.  A request left behind
\* is old once its server has read or written the key again.
Answer(q, stage, flags, rev, seen) ==
  IF q \in Servers
  THEN [stage |-> stage, for |-> attempt[q].for, flags |-> flags, rev |-> rev, seen |-> seen,
        gone |-> gone, old |-> FALSE]
  ELSE NoAttempt
LeftBy(s) == {q \in Slots \ Servers : attempt[q].for \in Changes /\ Home[attempt[q].for] = s}
Answered(q, answer) ==
  attempt' = [p \in Slots |->
    IF p = q THEN answer ELSE [attempt[p] EXCEPT !.old = @ \/ p \in LeftBy(q)]]

\* kvGet.
KVGet(s) ==
  /\ attempt[s].stage = "get"
  /\ Answered(s, Answer(s, "found", IF Live THEN row.flags ELSE {}, CurrentRevision, CurrentVersion))
  /\ missed' = IF attempt[s].for = Other THEN missed \ {s} ELSE missed
  /\ UNCHANGED <<hubVars, change, lookup, known, online, faults>>

\* kvSet as far as the read under the lock: a revision other than the one the
\* client names is refused, in the same transaction.
BeginKVSet(q) ==
  /\ attempt[q].stage = "set" /\ KeyLock
  /\ attempt' = [attempt EXCEPT ![q] =
       IF @.rev # CurrentRevision THEN Answer(q, "mismatch", {}, CurrentRevision, 0)
                                  ELSE [@ EXCEPT !.stage = "held"]]
  /\ UNCHANGED <<hubVars, change, lookup, known, online, missed, faults>>

\* kvUpsert and the commit.
CommitKVSet(q) ==
  LET s == Home[attempt[q].for] IN
  /\ attempt[q].stage = "held"
  /\ row' = Written(attempt[q].flags, attempt[q].rev + 1, FALSE, s)
  /\ writes' = writes + 1
  /\ Answered(q, Answer(q, "written", attempt[q].flags, attempt[q].rev + 1, 0))
  /\ missed' = IF attempt[q].old THEN missed \cup {s} ELSE missed \ {q}
  /\ UNCHANGED <<picked, gone, change, lookup, known, online, faults>>

\* A set its client has left never reaches the hub, or is rolled back.
NeverLands(q) ==
  /\ q \notin Servers /\ attempt[q].stage \in {"set", "held"}
  /\ attempt' = [attempt EXCEPT ![q] = NoAttempt]
  /\ UNCHANGED <<hubVars, change, lookup, known, online, missed, faults>>

\* Another client's set, which defines the key entirely, and its delete.
BotSet(flags, ttl) ==
  /\ KeyLock /\ writes < MaxWrites
  /\ row' = Written(flags, CurrentRevision + 1, ttl, Other) /\ writes' = writes + 1
  /\ UNCHANGED <<picked, gone, clientVars, known, online, missed, faults>>
KVDelete ==
  /\ KeyLock /\ Live /\ writes < MaxWrites
  /\ row' = NoRow /\ writes' = writes + 1 /\ gone' = writes + 1
  /\ UNCHANGED <<picked, clientVars, known, online, missed, faults>>

\* A TTL passes: the key reads as absent from then on.
Lapse ==
  /\ Live /\ row.ttl /\ writes < MaxWrites
  /\ row' = [row EXCEPT !.lapsed = TRUE] /\ writes' = writes + 1 /\ gone' = writes + 1
  /\ UNCHANGED <<picked, clientVars, known, online, missed, faults>>

\* PruneKV: the row it picked may have been written again since, so the
\* expiry is tested on the row it deletes too.
PickExpired ==
  /\ ~picked /\ row.lapsed /\ picked' = TRUE
  /\ UNCHANGED <<row, writes, gone, clientVars, known, online, missed, faults>>
PruneKV ==
  /\ picked /\ picked' = FALSE
  /\ row' = IF row.lapsed THEN NoRow ELSE row
  /\ UNCHANGED <<writes, gone, clientVars, known, online, missed, faults>>

-------------------------------------------------------------------------------
(* The store client *)

\* Lookup: one at a time.
Asked(s) == IF lookup[s] = "none" THEN [lookup EXCEPT ![s] = "queued"] ELSE lookup

\* Tick sends a queued request when the transport is idle.  Only the watchdog
\* leaves the context alone for a while, an engine timeout or a new process
\* does not, and no wait outlasts what the hub may still run.
SendForChange(c) ==
  LET s == Home[c] IN
  /\ change[c].call = "queued" /\ attempt[s] = NoAttempt
  /\ attempt' = [attempt EXCEPT ![s] =
       [stage |-> IF change[c].stage = "reading" THEN "get" ELSE "set", for |-> c,
        flags |-> change[c].flags, rev |-> change[c].rev, seen |-> change[c].seen,
        gone |-> change[c].gone, old |-> FALSE]]
  /\ change' = [change EXCEPT ![c].call = "sent"]
  /\ UNCHANGED <<hubVars, lookup, known, online, missed, faults>>
SendLookup(s) ==
  /\ lookup[s] = "queued" /\ attempt[s] = NoAttempt
  /\ attempt' = [attempt EXCEPT ![s] = [NoAttempt EXCEPT !.stage = "get"]]
  /\ lookup' = [lookup EXCEPT ![s] = "sent"]
  /\ UNCHANGED <<hubVars, change, known, online, missed, faults>>

\* Fail: a write once sent may have landed, so the store is asked again.
Leaves(c) == lookup
AsksAgain(c) == IF change[c].wrote THEN Asked(Home[c]) ELSE lookup
Failed(c) ==
  /\ change' = [change EXCEPT ![c] = Ended]
  /\ lookup' = AsksAgain(c)
FailedLookup(s) ==
  lookup' = [lookup EXCEPT ![s] = IF s \in online THEN "waiting" ELSE "none"]

\* Retry: the request is queued again, or there is no time left for it.
Again(s) ==
  LET c == attempt[s].for IN
  IF c \in Changes
  THEN \/ change' = [change EXCEPT ![c].call = "queued"] /\ lookup' = lookup
       \/ Failed(c)
  ELSE change' = change /\ (FailedLookup(s) \/ lookup' = [lookup EXCEPT ![s] = "queued"])

\* The request or its answer is lost or timed out, the hub fails, or it refuses
\* the session.  A set it may still run stays behind.
LeftBehind(request) == IF request.stage \in {"set", "held"} THEN request ELSE NoAttempt
GiveUp(s) == attempt' = [attempt EXCEPT ![s] = NoAttempt, ![faults'] = LeftBehind(attempt[s])]
LoseAttempt(s) ==
  /\ Fault /\ attempt[s].stage # "none"
  /\ Again(s) /\ GiveUp(s)
  /\ UNCHANGED <<hubVars, known, online, missed>>

\* Sweep: a queued request has too little time left.
SweepChange(c) ==
  /\ change[c].call = "queued" /\ Failed(c)
  /\ UNCHANGED <<hubVars, attempt, known, online, missed, faults>>
SweepLookup(s) ==
  /\ Fault /\ lookup[s] = "queued" /\ FailedLookup(s)
  /\ UNCHANGED <<hubVars, change, attempt, known, online, missed>>

-------------------------------------------------------------------------------
(* The flags *)

Merged(flags, c) == (flags \ Named[c]) \cup Requested[c]

StartChange(c) ==
  /\ change[c].stage = "idle"
  /\ change' = [change EXCEPT ![c].stage = "reading", ![c].call = "queued"]
  /\ UNCHANGED <<hubVars, lookup, attempt, known, online, missed, faults>>

\* Finish: the game follows what the store holds.
Finish(c, flags) ==
  /\ change' = [change EXCEPT ![c] = Ended]
  /\ known' = [known EXCEPT ![Home[c]] = flags]

\* The read is answered: nothing to write, or a guarded write of the merged set.
TakeRead(c) ==
  LET s == Home[c]
      flags == Merged(attempt[s].flags, c)
  IN  /\ attempt[s].stage = "found" /\ attempt[s].for = c
      /\ IF flags = {} /\ attempt[s].rev = 0
         THEN Finish(c, {})
         ELSE /\ change' = [change EXCEPT ![c] =
                    [stage |-> "writing", call |-> "queued", tries |-> @.tries, flags |-> flags,
                     rev |-> attempt[s].rev, seen |-> attempt[s].seen, gone |-> attempt[s].gone,
                     wrote |-> TRUE]]
              /\ known' = known
      /\ attempt' = [attempt EXCEPT ![s] = NoAttempt]
      /\ UNCHANGED <<hubVars, lookup, online, missed, faults>>

\* The dispatch has failed for time while the read was out: nothing is written
\* for it, and an earlier write is not asked after.
DropRead(c) ==
  LET s == Home[c] IN
  /\ Fault /\ attempt[s].stage = "found" /\ attempt[s].for = c
  /\ Merged(attempt[s].flags, c) # {} \/ attempt[s].rev # 0
  /\ change' = [change EXCEPT ![c] = Ended]
  /\ missed' = IF change[c].wrote THEN missed \cup {s} ELSE missed
  /\ attempt' = [attempt EXCEPT ![s] = NoAttempt]
  /\ UNCHANGED <<hubVars, lookup, known, online>>

TakeWritten(c) ==
  LET s == Home[c] IN
  /\ attempt[s].stage = "written" /\ attempt[s].for = c
  /\ Finish(c, change[c].flags)
  /\ attempt' = [attempt EXCEPT ![s] = NoAttempt]
  /\ UNCHANGED <<hubVars, lookup, online, missed, faults>>

\* A write that lost its compare-and-swap starts over from a fresh read.
TakeMismatch(c) ==
  LET s == Home[c] IN
  /\ attempt[s].stage = "mismatch" /\ attempt[s].for = c
  /\ IF change[c].tries + 1 >= ChangeAttempts
     THEN Failed(c)
     ELSE /\ change' = [change EXCEPT ![c] =
               [NewChange EXCEPT !.stage = "reading", !.call = "queued",
                                 !.tries = change[c].tries + 1, !.wrote = TRUE]]
          /\ lookup' = lookup
  /\ attempt' = [attempt EXCEPT ![s] = NoAttempt]
  /\ UNCHANGED <<hubVars, known, online, missed, faults>>

\* OnLookup.
TakeLookup(s) ==
  /\ attempt[s].stage = "found" /\ attempt[s].for = Other
  /\ known' = [known EXCEPT ![s] = attempt[s].flags]
  /\ lookup' = [lookup EXCEPT ![s] = "none"]
  /\ attempt' = [attempt EXCEPT ![s] = NoAttempt]
  /\ UNCHANGED <<hubVars, change, online, missed, faults>>
LookUpAgain(s) ==
  /\ lookup[s] = "waiting"
  /\ lookup' = [lookup EXCEPT ![s] = "queued"]
  /\ UNCHANGED <<hubVars, change, attempt, known, online, missed, faults>>

\* The player is on one server at a time; leaving counts among the faults, for
\* it brings another lookup.
OnConnect(s) ==
  /\ online = {} /\ online' = {s} /\ lookup' = Asked(s)
  /\ UNCHANGED <<hubVars, change, attempt, known, missed, faults>>
Leave(s) ==
  /\ Fault /\ s \in online /\ online' = {}
  /\ UNCHANGED <<hubVars, clientVars, known, missed>>

\* The server dies with everything its plugin knew.
Crash(s) ==
  /\ Fault /\ GiveUp(s)
  /\ known' = [known EXCEPT ![s] = Unknown] /\ online' = online \ {s}
  /\ change' = [c \in Changes |-> IF Home[c] = s /\ change[c].stage # "idle" THEN Ended
                                  ELSE change[c]]
  /\ lookup' = [lookup EXCEPT ![s] = "none"]
  /\ UNCHANGED <<hubVars, missed>>

-------------------------------------------------------------------------------
(* The specification *)

HubStep(q) == KVGet(q) \/ BeginKVSet(q) \/ CommitKVSet(q) \/ NeverLands(q)
ChangeStep(c) == SendForChange(c) \/ TakeRead(c) \/ TakeWritten(c) \/ TakeMismatch(c)
LookupStep(s) == SendLookup(s) \/ TakeLookup(s) \/ LookUpAgain(s)

Next ==
  \/ \E q \in Slots : HubStep(q)
  \/ \E s \in Servers : \/ LookupStep(s) \/ LoseAttempt(s) \/ SweepLookup(s)
                         \/ OnConnect(s) \/ Leave(s) \/ Crash(s)
  \/ \E c \in Changes : StartChange(c) \/ ChangeStep(c) \/ SweepChange(c) \/ DropRead(c)
  \/ \E flags \in SUBSET Flags, ttl \in BOOLEAN : BotSet(flags, ttl)
  \/ KVDelete \/ Lapse \/ PickExpired \/ PruneKV

Spec == Init /\ [][Next]_vars

\* The hub answers, a plugin ticks.
FairSpec ==
  /\ Spec
  /\ \A q \in Slots : WF_vars(HubStep(q))
  /\ \A s \in Servers : WF_vars(LookupStep(s))
  /\ \A c \in Changes : WF_vars(ChangeStep(c))

-------------------------------------------------------------------------------
(* Properties *)

\* No update is lost: a set that commits writes over the very record its change
\* merged from, or over none as it found none, whoever wrote, retried, gave up
\* or pruned in between, unless the key was deleted or lapsed since the read.
NoUpdateLost ==
  [][\A q \in Slots : CommitKVSet(q) =>
       attempt[q].seen = CurrentVersion \/ attempt[q].gone # gone]_vars

\* The game follows the store: while the record is one this server wrote, what
\* the server applies to the player comes to be that record, also when the
\* write landed after the plugin had given it up, as long as it landed before
\* the plugin had heard of the key again, and no change was dropped unread.
GameFollowsStore ==
  \A s \in Servers :
    (s \in online /\ row.by = s /\ known[s] # row.flags)
      ~> (s \notin online \/ row.by # s \/ known[s] = row.flags \/ s \in missed)
===============================================================================
