-------------------------------- MODULE Intake --------------------------------
(***************************************************************************)
(* What the hub keeps of the telemetry a plugin sends: events              *)
(* (hub/events.go, hub/store/events.go) and the snapshots of one state     *)
(* type (hub/state.go, hub/store/state.go).                                *)
(*                                                                         *)
(* The plugin sends its envelopes in order, again until it knows them      *)
(* acked, and renumbers what is left in each new session, so an envelope   *)
(* arrives again under a fresh seq: here it is named after its position in *)
(* the plugin's outbox, and an ack is the last position applied.  What a   *)
(* poll carries below the ack is skipped, so where it starts is left out.  *)
(* It asks which batches are known, and applies them in a transaction that *)
(* holds the server's row.  The transaction stamps its rows before it      *)
(* commits, and may commit after their retention has passed; the retention *)
(* sweep takes no lock and is two statements with one clock reading.       *)
(***************************************************************************)
EXTENDS Integers, Sequences, FiniteSets

CONSTANTS
  Batches,       \* event.batch envelopes, by id
  Snapshots,     \* state.* envelopes of one type, by id
  Faulty,        \* the envelopes whose body the hub refuses
  Lives,         \* the retentions the events of each batch resolve to
  SnapshotLife,  \* retention of a snapshot
  HistoryDepth,
  EventBudget,   \* maxEventsPerPoll
  PruneBatch,
  Polls,         \* slots for polls in flight
  MaxClock,      \* bound on time
  MaxSessions,   \* bound on sessions
  MaxSent        \* bound on the envelopes sent

Envelopes == Batches \cup Snapshots

ASSUME EnvelopesAssumption ==
  /\ Batches \cap Snapshots = {} /\ Faulty \subseteq Envelopes
  /\ Lives \in [Batches -> SUBSET (Nat \ {0})]
  /\ \A b \in Batches :
       /\ IsFiniteSet(Lives[b])
       /\ Lives[b] # {} => \E h \in Lives[b] : \A l \in Lives[b] : l <= h

ASSUME LimitsAssumption ==
  /\ SnapshotLife \in Nat \ {0} /\ HistoryDepth \in Nat \ {0}
  /\ EventBudget \in Nat /\ PruneBatch \in Nat \ {0}
  /\ MaxClock \in Nat /\ MaxSessions \in Nat /\ MaxSent \in Nat

VARIABLES
  clock,
  outbox,    \* the plugin's envelopes, oldest first
  released,  \* how many of them the plugin knows acked
  session,   \* the session
  applied,   \* sessions.inbound_ack, as a position
  poll,      \* polls in flight
  feed,      \* events
  marked,    \* event_batches and state_snapshot_dedup
  until,     \* expires_at of the mark last set for an envelope
  history,   \* state_snapshots of the type
  sweep,     \* the running retention pass
  stored     \* history: how often each batch was stored

pluginVars == <<outbox, released>>
storeVars == <<feed, marked, until, history, stored>>
vars == <<clock, pluginVars, session, applied, poll, storeVars, sweep>>

NoPoll == [stage |-> "idle", sess |-> 0, upto |-> 0, known |-> {}, now |-> 0, ack |-> 0, told |-> {}]
NoSweep == [stage |-> "idle", now |-> 0, left |-> 0]

Init ==
  /\ clock = 0
  /\ outbox = <<>> /\ released = 0
  /\ session = 1 /\ applied = 0
  /\ poll = [p \in Polls |-> NoPoll]
  /\ feed = {} /\ marked = {} /\ until = [e \in Envelopes |-> 0]
  /\ history = {} /\ stored = [b \in Batches |-> 0]
  /\ sweep = NoSweep

Tick ==
  /\ clock < MaxClock /\ clock' = clock + 1
  /\ UNCHANGED <<pluginVars, session, applied, poll, storeVars, sweep>>

-------------------------------------------------------------------------------
(* The plugin and its link *)

Send(e) ==
  /\ Len(outbox) < MaxSent /\ \A i \in 1..Len(outbox) : outbox[i] # e
  /\ outbox' = Append(outbox, e)
  /\ UNCHANGED <<clock, released, session, applied, poll, storeVars, sweep>>

\* The transaction that applies a poll holds the server's row.
Locked == \E p \in Polls : poll[p].stage = "stamped"

\* StartSession: what is not known acked is numbered anew.
StartSession ==
  /\ session < MaxSessions /\ ~Locked
  /\ session' = session + 1 /\ applied' = released
  /\ UNCHANGED <<clock, pluginVars, poll, storeVars, sweep>>

\* The plugin takes the ack of the session it is in.
TakeAnswer(p) ==
  /\ poll[p].stage = "answered" /\ poll[p].sess = session
  /\ released' = IF poll[p].ack > released THEN poll[p].ack ELSE released
  /\ poll' = [poll EXCEPT ![p] = NoPoll]
  /\ UNCHANGED <<clock, outbox, session, applied, storeVars, sweep>>

\* The answer is lost, or the session of the poll is over.
Vanish(p) ==
  /\ poll[p].stage = "answered" \/ (poll[p].stage = "read" /\ poll[p].sess # session)
  /\ poll' = [poll EXCEPT ![p] = NoPoll]
  /\ UNCHANGED <<clock, pluginVars, session, applied, storeVars, sweep>>

-------------------------------------------------------------------------------
(* Ingest *)

\* A poll of the live session is authenticated; ingestedEventBatches, outside
\* the transaction, asks which of its valid batches are marked already.
Known(upto) == ({outbox[i] : i \in 1..upto} \cap Batches \cap marked) \ Faulty
handlePoll(p) ==
  /\ poll[p].stage = "idle"
  /\ \E upto \in released..Len(outbox) :
       poll' = [poll EXCEPT ![p] = [NoPoll EXCEPT !.stage = "read", !.sess = session,
                                                  !.upto = upto, !.known = Known(upto)]]
  /\ UNCHANGED <<clock, pluginVars, session, applied, storeVars, sweep>>

\* applyInbound locks the server, finds the session still live and reads the
\* clock.
Stamp(p) ==
  /\ poll[p].stage = "read" /\ poll[p].sess = session /\ ~Locked
  /\ poll' = [poll EXCEPT ![p] = [@ EXCEPT !.stage = "stamped", !.now = clock]]
  /\ UNCHANGED <<clock, pluginVars, session, applied, storeVars, sweep>>

\* classifyInbound: what follows the ack without a gap.
Positions(p) == (applied + 1) .. (IF poll[p].upto > applied THEN poll[p].upto ELSE applied)
Accepted(p) == {outbox[i] : i \in Positions(p)}

\* A batch known to be stored spends none of the poll's event budget; one
\* that fits neither is refused.
AnyBatch(p, e) == e \in Batches \ Faulty
Charged(p, e) == e \in Batches \ (Faulty \cup poll[p].known)
BudgetLeft(p) ==
  LET left[i \in applied .. Len(outbox)] ==
        IF i = applied THEN EventBudget
        ELSE IF Charged(p, outbox[i]) /\ Cardinality(Lives[outbox[i]]) <= left[i - 1]
             THEN left[i - 1] - Cardinality(Lives[outbox[i]])
             ELSE left[i - 1]
  IN  left
OverBudget(p) ==
  {outbox[i] : i \in {j \in Positions(p) : /\ Charged(p, outbox[j])
                                           /\ Cardinality(Lives[outbox[j]]) > BudgetLeft(p)[j - 1]}}

\* insertEventBatches: a mark claims the batch, and expires with its longest
\* lived event; an empty batch claims nothing.
Horizon(b) == CHOOSE h \in Lives[b] : \A l \in Lives[b] : l <= h
NewBatches(p) ==
  {b \in (Accepted(p) \cap Batches) \ (Faulty \cup OverBudget(p)) : Lives[b] # {} /\ b \notin marked}
NewRows(p) ==
  UNION {{[of |-> b, life |-> l, at |-> poll[p].now, copy |-> stored[b] + 1] : l \in Lives[b]} :
           b \in NewBatches(p)}

\* insertSnapshots: the mark first, then the row unless it still stands, then
\* the depth bound.  A row's seq only orders it: the newest row is never
\* deleted, so AUTOINCREMENT numbers above it.
HistoryOnly(p) == (Accepted(p) \cap Snapshots) \ Faulty
NewSnapshots(p) == ((Accepted(p) \cap Snapshots) \ Faulty) \ marked
Standing == {r.of : r \in history}
Newest(rows) == CHOOSE r \in rows : \A q \in rows : q.seq <= r.seq
LastSeq == IF history = {} THEN 0 ELSE Newest(history).seq
FreshPositions(p) == {i \in Positions(p) : outbox[i] \in NewSnapshots(p) \ Standing}
Recorded(p) ==
  history \cup {[of |-> outbox[i], seq |-> LastSeq + (i - applied),
                expires |-> poll[p].now + SnapshotLife] : i \in FreshPositions(p)}
Trimmed(rows) == {r \in rows : Cardinality({q \in rows : q.seq > r.seq}) < HistoryDepth}

MarkUntil(p, e) == poll[p].now + (IF e \in Batches THEN Horizon(e) ELSE SnapshotLife)

\* The ack and everything it covers commit together.
ApplyInbound(p) ==
  LET news == NewBatches(p) \cup NewSnapshots(p)
  IN  /\ poll[p].stage = "stamped"
      /\ applied' = IF poll[p].upto > applied THEN poll[p].upto ELSE applied
      /\ feed' = feed \cup NewRows(p)
      /\ marked' = marked \cup news
      /\ until' = [e \in Envelopes |-> IF e \in news THEN MarkUntil(p, e) ELSE until[e]]
      /\ history' = IF NewSnapshots(p) = {} THEN history ELSE Trimmed(Recorded(p))
      /\ stored' = [b \in Batches |-> IF b \in NewBatches(p) THEN stored[b] + 1 ELSE stored[b]]
      /\ poll' = [poll EXCEPT ![p] = [NoPoll EXCEPT !.stage = "answered", !.sess = poll[p].sess,
                                                 !.ack = applied', !.told = OverBudget(p)]]
      /\ UNCHANGED <<clock, pluginVars, session, sweep>>

\* The transaction fails, or the hub stops: nothing of it happened.
Rollback(p) ==
  /\ poll[p].stage = "stamped"
  /\ poll' = [poll EXCEPT ![p] = NoPoll]
  /\ UNCHANGED <<clock, pluginVars, session, applied, storeVars, sweep>>

-------------------------------------------------------------------------------
(* Retention *)

Bounded(S, limit) ==
  {V \in SUBSET S : Cardinality(V) = IF Cardinality(S) < limit THEN Cardinality(S) ELSE limit}

Expired(now) == {r \in feed : r.at + r.life <= now}

PruneEvents ==
  /\ sweep.stage = "idle"
  /\ \E gone \in Bounded(Expired(clock), PruneBatch) : feed' = feed \ gone
  /\ sweep' = [stage |-> "batches", now |-> clock, left |-> PruneBatch]
  /\ UNCHANGED <<clock, pluginVars, session, applied, poll, marked, until, history, stored>>

\* The second statement, by the clock of the first: a mark goes only when no
\* expired event stands.
ByItsOwnClock(now) == {b \in Batches \cap marked : until[b] <= now}
Sweepable(now) == {b \in Batches \cap marked : until[b] <= now /\ Expired(now) = {}}
PruneMarks ==
  /\ sweep.stage = "batches"
  /\ \E gone \in Bounded(Sweepable(sweep.now), sweep.left) : marked' = marked \ gone
  /\ sweep' = NoSweep
  /\ UNCHANGED <<clock, pluginVars, session, applied, poll, feed, until, history, stored>>

\* PruneSnapshots: the newest row stands whatever its age; the marks go
\* within what is left of the batch.
Stale == {r \in history : r.seq < LastSeq /\ r.expires <= clock}
PruneSnapshots ==
  /\ sweep.stage = "idle"
  /\ \E gone \in Bounded(Stale, PruneBatch) :
       /\ history' = history \ gone
       /\ sweep' = IF Cardinality(gone) < PruneBatch
                   THEN [stage |-> "snapshots", now |-> clock, left |-> PruneBatch - Cardinality(gone)]
                   ELSE NoSweep
  /\ UNCHANGED <<clock, pluginVars, session, applied, poll, feed, marked, until, stored>>

PruneSnapshotMarks ==
  /\ sweep.stage = "snapshots"
  /\ \E gone \in Bounded({s \in Snapshots \cap marked : until[s] <= sweep.now}, sweep.left) :
       marked' = marked \ gone
  /\ sweep' = NoSweep
  /\ UNCHANGED <<clock, pluginVars, session, applied, poll, feed, until, history, stored>>

\* The second statement fails, or the hub stops before it.
SweepFails ==
  /\ sweep.stage # "idle" /\ sweep' = NoSweep
  /\ UNCHANGED <<clock, pluginVars, session, applied, poll, storeVars>>

-------------------------------------------------------------------------------
(* The specification *)

PluginStep == \/ \E e \in Envelopes : Send(e)
              \/ StartSession
              \/ \E p \in Polls : TakeAnswer(p) \/ Vanish(p)
IngestStep(p) == handlePoll(p) \/ Stamp(p) \/ ApplyInbound(p) \/ Rollback(p)
SweepStep == \/ PruneEvents \/ PruneMarks
             \/ PruneSnapshots \/ PruneSnapshotMarks \/ SweepFails

Next == Tick \/ PluginStep \/ (\E p \in Polls : IngestStep(p)) \/ SweepStep

Spec == Init /\ [][Next]_vars

-------------------------------------------------------------------------------
(* Properties *)

PollType == [stage : {"idle", "read", "stamped", "answered"}, sess : Nat, upto : Nat,
             known : SUBSET Batches, now : Nat, ack : Nat, told : SUBSET Batches]
FeedType == [of : Batches, life : Nat, at : Nat, copy : Nat]
RowType == [of : Snapshots, seq : Nat, expires : Nat]

TypeOK ==
  /\ clock \in Nat
  /\ outbox \in Seq(Envelopes) /\ released \in Nat /\ session \in Nat /\ applied \in Nat
  /\ poll \in [Polls -> PollType]
  /\ feed \subseteq FeedType
  /\ history \subseteq RowType /\ IsFiniteSet(history)
  /\ marked \subseteq Envelopes /\ until \in [Envelopes -> Nat]
  /\ sweep.stage \in {"idle", "batches", "snapshots"} /\ sweep.now \in Nat
  /\ stored \in [Batches -> Nat]

\* An event stands in the feed once, however its batch was retransmitted
\* across sessions, however late its transaction committed and whatever part
\* of its batch the sweep has taken.
OneCopy ==
  \A r, q \in feed : r.of = q.of /\ r.life = q.life => r = q

\* A poll that refuses a batch for the event budget says its events are gone:
\* none of them stands in the feed.
RefusalIsHonest ==
  [][\A p \in Polls : poll[p].stage = "stamped" /\ poll'[p].stage = "answered"
       => \A b \in poll'[p].told, r \in feed' : r.of # b]_vars

PlaceOf(e) == CHOOSE i \in 1..Len(outbox) : outbox[i] = e
Latest == Newest(history).of

\* The latest snapshot is replaced by a later one only, and never lost: an
\* earlier one comes back only when it was stored before and its mark's time
\* has passed.
LatestIsNews ==
  [][history # {} =>
       /\ history' # {}
       /\ \/ Latest' = Latest
          \/ PlaceOf(Latest') > PlaceOf(Latest)
          \/ until[Latest'] \in 1..clock]_vars
===============================================================================
