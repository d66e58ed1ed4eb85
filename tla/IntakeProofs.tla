------------------------------ MODULE IntakeProofs ------------------------------
(***************************************************************************)
(* Proofs about Intake, for any batches, snapshots, polls, retentions,     *)
(* sessions and bounds.                                                    *)
(***************************************************************************)
EXTENDS Intake, FiniteSetTheorems, WellFoundedInduction, TLAPS

-------------------------------------------------------------------------------
(* Operators *)

\* The horizon of a batch that has events is the longest of their lives.
LEMMA HorizonBounds ==
  ASSUME NEW b \in Batches, Lives[b] # {}
  PROVE  /\ Horizon(b) \in Lives[b] /\ Horizon(b) \in Nat
         /\ \A l \in Lives[b] : l \in Nat /\ l <= Horizon(b)
<1>1. \E h \in Lives[b] : \A l \in Lives[b] : l <= h
  BY EnvelopesAssumption
<1>2. Lives[b] \subseteq Nat
  BY EnvelopesAssumption
<1>3. Horizon(b) \in Lives[b] /\ \A l \in Lives[b] : l <= Horizon(b)
  BY <1>1 DEF Horizon
<1>4. QED
  BY <1>2, <1>3

\* Rows are cut from batches that no mark held, at the time the transaction
\* was stamped.
LEMMA NewRowsFit ==
  ASSUME TypeOK, NEW p \in Polls
  PROVE  \A r \in NewRows(p) :
           /\ r \in FeedType
           /\ r.of \in NewBatches(p) /\ r.life \in Lives[r.of]
           /\ r.at = poll[p].now /\ r.copy = stored[r.of] + 1
<1> SUFFICES ASSUME NEW r \in NewRows(p)
             PROVE  /\ r \in FeedType
                    /\ r.of \in NewBatches(p) /\ r.life \in Lives[r.of]
                    /\ r.at = poll[p].now /\ r.copy = stored[r.of] + 1
  OBVIOUS
<1>1. PICK b \in NewBatches(p) :
        \E l \in Lives[b] : r = [of |-> b, life |-> l, at |-> poll[p].now, copy |-> stored[b] + 1]
  BY DEF NewRows
<1>2. b \in Batches /\ Lives[b] # {} /\ stored[b] \in Nat /\ poll[p].now \in Nat
  BY <1>1 DEF NewBatches, TypeOK, PollType
<1>3. \A l \in Lives[b] : l \in Nat
  BY <1>2, HorizonBounds
<1>4. QED
  BY <1>1, <1>2, <1>3 DEF FeedType

\* What a mark is set to is a time.
LEMMA MarkUntilFits ==
  ASSUME TypeOK, NEW p \in Polls, NEW e \in NewBatches(p) \cup NewSnapshots(p)
  PROVE  MarkUntil(p, e) \in Nat
<1>1. poll[p].now \in Nat
  BY DEF TypeOK, PollType
<1>2. CASE e \in Batches
  <2>1. Lives[e] # {}
    BY <1>2, EnvelopesAssumption DEF NewBatches, NewSnapshots
  <2>2. QED
    BY <1>1, <1>2, <2>1, HorizonBounds DEF MarkUntil
<1>3. CASE e \notin Batches
  BY <1>1, <1>3, LimitsAssumption DEF MarkUntil
<1>4. QED
  BY <1>2, <1>3

\* What a poll may apply follows the ack; what it refuses was charged.
LEMMA RefusedWasCharged ==
  ASSUME NEW p \in Polls, NEW e \in OverBudget(p)
  PROVE  /\ e \in Batches \ (Faulty \cup poll[p].known)
         /\ \E i \in Positions(p) : outbox[i] = e
  BY DEF OverBudget, Charged

-------------------------------------------------------------------------------
(* Rows of the snapshot history *)

\* A finite set of rows has a newest one.
LEMMA NewestStands ==
  ASSUME NEW rows, rows \subseteq RowType, IsFiniteSet(rows), rows # {}
  PROVE  Newest(rows) \in rows /\ \A q \in rows : q.seq <= Newest(rows).seq
<1> DEFINE Above(r) == {q \in rows : q.seq > r.seq}
           T == {Above(r) : r \in rows}
           R == StrictSubsetOrdering(rows)
<1>1. \A r \in rows : r.seq \in Nat
  BY DEF RowType
<1>2. IsWellFoundedOn(R, FiniteSubsetsOf(rows))
  BY FS_StrictSubsetOrderingWellFounded
<1>3. T \subseteq FiniteSubsetsOf(rows) /\ T # {}
  <2>1. \A r \in rows : Above(r) \in SUBSET rows
    OBVIOUS
  <2> HIDE DEF Above
  <2>2. \A r \in rows : IsFiniteSet(Above(r))
    BY <2>1, FS_Subset
  <2>3. QED
    BY <2>1, <2>2 DEF FiniteSubsetsOf
<1> HIDE DEF R, T
<1>4. PICK t \in T : \A u \in T : ~ (<<u, t>> \in R)
  BY <1>2, <1>3, WFMin
<1>5. PICK r \in rows : t = Above(r)
  BY DEF T
<1>6. ASSUME NEW q \in rows, q.seq > r.seq PROVE FALSE
  <2>1. Above(q) \in SUBSET rows /\ Above(r) \in SUBSET rows
    OBVIOUS
  <2>2. Above(q) \subseteq Above(r) /\ q \in Above(r) /\ q \notin Above(q)
    <3>1. \A z \in rows : z.seq > q.seq => z.seq > r.seq
      BY <1>1, <1>6
    <3>2. ~(q.seq > q.seq)
      BY <1>1
    <3>3. QED
      BY <1>6, <3>1, <3>2
  <2>3. Above(q) \in T
    BY DEF T
  <2> HIDE DEF Above
  <2>4. Above(q) # Above(r)
    BY <2>2
  <2>5. <<Above(q), Above(r)>> \in R
    BY <2>1, <2>2, <2>4 DEF R, StrictSubsetOrdering
  <2>6. QED
    BY <1>4, <1>5, <2>3, <2>5
<1>7. \E x \in rows : \A q \in rows : q.seq <= x.seq
  BY <1>1, <1>6
<1>8. QED
  BY <1>7 DEF Newest

\* Rows that share no seq have one newest row.
LEMMA NewestIs ==
  ASSUME NEW rows, rows \subseteq RowType, \A x, y \in rows : x.seq = y.seq => x = y,
         NEW r \in rows, \A q \in rows : q.seq <= r.seq
  PROVE  Newest(rows) = r
<1> DEFINE n == Newest(rows)
<1>1. n \in rows /\ \A q \in rows : q.seq <= n.seq
  BY DEF Newest
<1> HIDE DEF n
<1>2. n.seq = r.seq
  BY <1>1 DEF RowType
<1>3. QED
  BY <1>1, <1>2 DEF n

\* No row has a seq above the last one.
LEMMA LastSeqBounds ==
  ASSUME TypeOK
  PROVE  /\ LastSeq \in Nat /\ \A r \in history : r.seq <= LastSeq
         /\ history # {} => Newest(history) \in history /\ LastSeq = Newest(history).seq
<1>1. history \subseteq RowType /\ IsFiniteSet(history)
  BY DEF TypeOK
<1>2. CASE history = {}
  BY <1>2 DEF LastSeq
<1>3. CASE history # {}
  <2>1. Newest(history) \in history /\ \A q \in history : q.seq <= Newest(history).seq
    BY <1>1, <1>3, NewestStands
  <2>2. LastSeq = Newest(history).seq
    BY <1>3 DEF LastSeq
  <2>3. QED
    BY <1>1, <2>1, <2>2 DEF RowType
<1>4. QED
  BY <1>2, <1>3

\* The row of the i-th envelope, and the rows a transaction adds.
NewRow(p, i) == [of |-> outbox[i], seq |-> LastSeq + (i - applied),
                 expires |-> poll[p].now + SnapshotLife]
AddedRows(p) == {NewRow(p, i) : i \in FreshPositions(p)}

\* The rows added are of snapshots neither marked nor standing, and newer than
\* every row that stands, the later envelope's the newer.
LEMMA AddedRowsFit ==
  ASSUME TypeOK, NEW p \in Polls
  PROVE  /\ AddedRows(p) \subseteq RowType /\ IsFiniteSet(AddedRows(p))
         /\ \A i \in FreshPositions(p) :
              /\ i \in Nat /\ i > applied /\ i <= poll[p].upto
              /\ outbox[i] \in Snapshots \ (Faulty \cup marked \cup Standing)
         /\ \A i \in FreshPositions(p) :
              /\ NewRow(p, i).of = outbox[i] /\ NewRow(p, i).seq > LastSeq
              /\ \A j \in FreshPositions(p) : NewRow(p, i).seq = NewRow(p, j).seq => i = j
<1>1. /\ applied \in Nat /\ poll[p].upto \in Nat /\ poll[p].now \in Nat /\ SnapshotLife \in Nat
      /\ LastSeq \in Nat
  BY LastSeqBounds, LimitsAssumption DEF TypeOK, PollType
<1>2. \A i \in FreshPositions(p) :
        /\ i \in Nat /\ i > applied /\ i <= poll[p].upto /\ i - applied \in Nat
        /\ outbox[i] \in Snapshots \ (Faulty \cup marked \cup Standing)
  BY <1>1 DEF FreshPositions, Positions, NewSnapshots
<1>3. \A i \in FreshPositions(p) : NewRow(p, i) \in RowType
  BY <1>1, <1>2 DEF NewRow, RowType
<1>4. \A i \in FreshPositions(p) :
        /\ NewRow(p, i).of = outbox[i] /\ NewRow(p, i).seq > LastSeq
        /\ \A j \in FreshPositions(p) : NewRow(p, i).seq = NewRow(p, j).seq => i = j
  BY <1>1, <1>2 DEF NewRow
<1>5. IsFiniteSet(AddedRows(p))
  <2>1. IsFiniteSet((applied + 1) .. poll[p].upto)
    <3>1. applied + 1 \in Int /\ poll[p].upto \in Int
      BY <1>1
    <3>2. QED
      BY <3>1, FS_Interval, Zenon
  <2>2. \A i \in FreshPositions(p) : i \in (applied + 1) .. poll[p].upto
    BY <1>1, <1>2
  <2>3. IsFiniteSet(FreshPositions(p))
    BY <2>1, <2>2, FS_Subset, Zenon
  <2>4. [i \in FreshPositions(p) |-> NewRow(p, i)] \in Surjection(FreshPositions(p), AddedRows(p))
    BY DEF Surjection, AddedRows
  <2>5. QED
    BY <2>3, <2>4, FS_Surjection
<1>6. QED
  BY <1>2, <1>3, <1>4, <1>5 DEF AddedRows

\* The history with the rows a transaction adds.
LEMMA RecordedIs ==
  ASSUME NEW p \in Polls
  PROVE  Recorded(p) = history \cup AddedRows(p)
  BY DEF Recorded, AddedRows, NewRow

\* The depth bound spares the newest row.
LEMMA TrimmedKeeps ==
  ASSUME NEW rows, rows \subseteq RowType, NEW r \in rows, \A q \in rows : q.seq <= r.seq
  PROVE  Trimmed(rows) \subseteq rows /\ r \in Trimmed(rows)
<1>1. {q \in rows : q.seq > r.seq} = {}
  BY DEF RowType
<1>2. Cardinality({}) < HistoryDepth
  BY FS_EmptySet, LimitsAssumption
<1>3. QED
  BY <1>1, <1>2 DEF Trimmed

-------------------------------------------------------------------------------
(* Type correctness *)

LEMMA TypeInit == Init => TypeOK
<1> SUFFICES ASSUME Init PROVE TypeOK
  OBVIOUS
<1>1. NoPoll \in PollType
  BY DEF NoPoll, PollType
<1>2. IsFiniteSet({})
  BY FS_EmptySet
<1>3. QED
  BY <1>1, <1>2 DEF Init, TypeOK, NoSweep

\* The history stays a finite set of rows.
LEMMA TypeHistory ==
  ASSUME TypeOK, [Next]_vars
  PROVE  history' \subseteq RowType /\ IsFiniteSet(history')
<1>1. history \subseteq RowType /\ IsFiniteSet(history)
  BY DEF TypeOK
<1>2. ASSUME history' \in SUBSET history PROVE history' \subseteq RowType /\ IsFiniteSet(history')
  BY <1>1, <1>2, FS_Subset
<1>3. ASSUME NEW p \in Polls, ApplyInbound(p)
      PROVE  history' \subseteq RowType /\ IsFiniteSet(history')
  <2>1. CASE NewSnapshots(p) = {}
    BY <1>2, <1>3, <2>1 DEF ApplyInbound
  <2>2. CASE NewSnapshots(p) # {}
    <3>1. IsFiniteSet(Recorded(p)) /\ Recorded(p) \subseteq RowType
      <4>1. AddedRows(p) \subseteq RowType /\ IsFiniteSet(AddedRows(p))
        BY AddedRowsFit
      <4>2. IsFiniteSet(history \cup AddedRows(p))
        BY <1>1, <4>1, FS_Union
      <4>3. Recorded(p) = history \cup AddedRows(p)
        BY RecordedIs
      <4>4. QED
        BY <1>1, <4>1, <4>2, <4>3
    <3>2. history' \in SUBSET Recorded(p)
      BY <1>3, <2>2 DEF ApplyInbound, Trimmed
    <3>3. QED
      BY <3>1, <3>2, FS_Subset
  <2>3. QED
    BY <2>1, <2>2
<1>4. CASE PruneSnapshots
  <2>1. history' \in SUBSET history
    BY <1>4 DEF PruneSnapshots
  <2>2. QED
    BY <1>2, <2>1
<1>5. ASSUME NEW p \in Polls, handlePoll(p) \/ Stamp(p) \/ Rollback(p)
      PROVE  history' = history
  BY <1>5 DEF handlePoll, Stamp, Rollback, storeVars
<1>6. ASSUME Tick \/ PluginStep \/ UNCHANGED vars PROVE history' = history
  BY <1>6 DEF Tick, PluginStep, Send, StartSession, TakeAnswer, Vanish, vars, storeVars
<1>7. ASSUME PruneEvents \/ PruneMarks \/ PruneSnapshotMarks \/ SweepFails PROVE history' = history
  BY <1>7 DEF PruneEvents, PruneMarks, PruneSnapshotMarks, SweepFails, storeVars
<1>8. QED
  BY <1>2, <1>3, <1>4, <1>5, <1>6, <1>7 DEF Next, IngestStep, SweepStep

\* The plugin's steps and the clock keep the types.
LEMMA TypePlugin ==
  ASSUME TypeOK, Tick \/ PluginStep, history' \subseteq RowType, IsFiniteSet(history')
  PROVE  TypeOK'
<1> USE DEF TypeOK, pluginVars, storeVars
<1>1. CASE Tick
  BY <1>1 DEF Tick
<1>2. ASSUME NEW e \in Envelopes, Send(e) PROVE TypeOK'
  BY <1>2 DEF Send
<1>3. CASE StartSession
  BY <1>3 DEF StartSession
<1>4. NoPoll \in PollType
  BY DEF NoPoll, PollType
<1>5. ASSUME NEW p \in Polls, TakeAnswer(p) PROVE TypeOK'
  <2>1. poll[p].ack \in Nat
    BY DEF PollType
  <2>2. QED
    BY <1>4, <1>5, <2>1 DEF TakeAnswer
<1>6. ASSUME NEW p \in Polls, Vanish(p) PROVE TypeOK'
  BY <1>4, <1>6 DEF Vanish
<1>7. QED
  BY <1>1, <1>2, <1>3, <1>5, <1>6 DEF PluginStep

\* Ingest keeps the types.
LEMMA TypeIngest ==
  ASSUME TypeOK, NEW p \in Polls, IngestStep(p), history' \subseteq RowType, IsFiniteSet(history')
  PROVE  TypeOK'
<1> USE DEF TypeOK, pluginVars, storeVars
<1>1. poll[p] \in PollType
  OBVIOUS
<1>2. NoPoll \in PollType
  BY DEF NoPoll, PollType
<1>3. CASE handlePoll(p)
  <2>1. PICK upto \in released..Len(outbox) :
          poll' = [poll EXCEPT ![p] = [NoPoll EXCEPT !.stage = "read", !.sess = session,
                                                     !.upto = upto, !.known = Known(upto)]]
    BY <1>3 DEF handlePoll
  <2>2. upto \in Nat /\ Known(upto) \subseteq Batches
    BY DEF Known
  <2>3. [NoPoll EXCEPT !.stage = "read", !.sess = session, !.upto = upto, !.known = Known(upto)]
          \in PollType
    BY <2>2 DEF NoPoll, PollType
  <2>4. QED
    BY <1>3, <2>1, <2>3 DEF handlePoll
<1>4. CASE Stamp(p)
  <2>1. [poll[p] EXCEPT !.stage = "stamped", !.now = clock] \in PollType
    BY <1>1 DEF PollType
  <2>2. QED
    BY <1>4, <2>1 DEF Stamp
<1>5. CASE ApplyInbound(p)
  <2>1. applied' \in Nat
    BY <1>1, <1>5 DEF ApplyInbound, PollType
  <2>2. OverBudget(p) \subseteq Batches
    BY RefusedWasCharged
  <2>3. [NoPoll EXCEPT !.stage = "answered", !.sess = poll[p].sess,
                       !.ack = applied', !.told = OverBudget(p)] \in PollType
    BY <1>1, <2>1, <2>2 DEF PollType, NoPoll
  <2>4. poll' \in [Polls -> PollType]
    BY <1>5, <2>3 DEF ApplyInbound
  <2>5. feed' \subseteq FeedType
    BY <1>5, NewRowsFit DEF ApplyInbound
  <2>6. NewBatches(p) \subseteq Envelopes /\ NewSnapshots(p) \subseteq Envelopes
    BY DEF NewBatches, NewSnapshots, Envelopes
  <2>7. until' \in [Envelopes -> Nat]
    BY <1>5, MarkUntilFits DEF ApplyInbound
  <2>8. stored' \in [Batches -> Nat]
    BY <1>5 DEF ApplyInbound
  <2>9. QED
    BY <1>5, <2>1, <2>4, <2>5, <2>6, <2>7, <2>8 DEF ApplyInbound
<1>6. CASE Rollback(p)
  BY <1>2, <1>6 DEF Rollback
<1>7. QED
  BY <1>3, <1>4, <1>5, <1>6 DEF IngestStep

\* Retention keeps the types.
LEMMA TypeSweep ==
  ASSUME TypeOK, SweepStep, history' \subseteq RowType, IsFiniteSet(history')
  PROVE  TypeOK'
<1> USE DEF TypeOK, pluginVars, storeVars
<1>1. CASE PruneEvents
  BY <1>1, LimitsAssumption DEF PruneEvents
<1>2. CASE PruneMarks
  BY <1>2 DEF PruneMarks, NoSweep
<1>3. CASE PruneSnapshots
  <2>1. sweep'.stage \in {"idle", "batches", "snapshots"} /\ sweep'.now \in Nat
    BY <1>3 DEF PruneSnapshots, NoSweep
  <2>2. QED
    BY <1>3, <2>1 DEF PruneSnapshots
<1>4. CASE PruneSnapshotMarks
  BY <1>4 DEF PruneSnapshotMarks, NoSweep
<1>5. CASE SweepFails
  BY <1>5 DEF SweepFails, NoSweep
<1>6. QED
  BY <1>1, <1>2, <1>3, <1>4, <1>5 DEF SweepStep

\* Every step keeps the types.
LEMMA TypeNext == TypeOK /\ [Next]_vars => TypeOK'
<1> SUFFICES ASSUME TypeOK, [Next]_vars PROVE TypeOK'
  OBVIOUS
<1>1. CASE UNCHANGED vars
  BY <1>1 DEF vars, pluginVars, storeVars, TypeOK
<1>2. history' \subseteq RowType /\ IsFiniteSet(history')
  BY TypeHistory
<1>3. QED
  BY <1>1, <1>2, TypePlugin, TypeIngest, TypeSweep DEF Next

\* The plugin's outbox, the polls and the store keep their types in every
\* reachable state (hub/events.go, hub/store/events.go, hub/store/state.go).
THEOREM TypeCorrect == Spec => []TypeOK
<1>1. QED
  BY TypeInit, TypeNext, PTL DEF Spec

-------------------------------------------------------------------------------
(* One copy *)

\* A row that stands was cut, with all its batch, when the mark of the batch
\* was last set, and expires no later than the mark does.
RowFits(r) ==
  /\ r.of \in marked \ Faulty /\ r.life \in Lives[r.of]
  /\ until[r.of] = r.at + Horizon(r.of)
  /\ r.copy = stored[r.of]

FeedFits == TypeOK /\ \A r \in feed : RowFits(r)

\* A row outlives its mark by no instant.
LEMMA MarkOutlives ==
  ASSUME FeedFits, NEW r \in feed
  PROVE  /\ r.of \in Batches /\ r.at \in Nat /\ r.life \in Nat
         /\ r.at + r.life <= until[r.of] /\ until[r.of] \in Nat
<1>1. r.of \in Batches /\ r.at \in Nat /\ r.life \in Nat /\ RowFits(r)
  BY DEF FeedFits, TypeOK, FeedType
<1>2. until[r.of] \in Nat
  BY <1>1 DEF FeedFits, TypeOK, Envelopes
<1>3. QED
  BY <1>1, <1>2, HorizonBounds DEF RowFits

LEMMA FeedFitsNext == FeedFits /\ [Next]_vars => FeedFits'
<1> SUFFICES ASSUME FeedFits, [Next]_vars PROVE FeedFits'
  OBVIOUS
<1>1. TypeOK'
  BY TypeNext DEF FeedFits
<1>2. ASSUME marked' = marked, until' = until, stored' = stored, feed' \subseteq feed
      PROVE  \A r \in feed' : RowFits(r)'
  BY <1>2 DEF FeedFits, RowFits
<1>3. ASSUME UNCHANGED storeVars PROVE \A r \in feed' : RowFits(r)'
  BY <1>2, <1>3 DEF storeVars
<1>4. CASE Tick \/ PluginStep \/ UNCHANGED vars
  BY <1>1, <1>3, <1>4 DEF FeedFits, Tick, PluginStep, Send, StartSession, TakeAnswer, Vanish, vars
<1>5. ASSUME NEW p \in Polls, handlePoll(p) \/ Stamp(p) \/ Rollback(p) PROVE FeedFits'
  BY <1>1, <1>3, <1>5 DEF FeedFits, handlePoll, Stamp, Rollback
<1>6. ASSUME NEW p \in Polls, ApplyInbound(p) PROVE FeedFits'
  <2>1. \A b \in NewBatches(p) : b \in Batches /\ b \notin marked /\ b \notin Faulty /\ Lives[b] # {}
    BY DEF NewBatches
  <2>2. /\ marked' = marked \cup NewBatches(p) \cup NewSnapshots(p)
        /\ feed' = feed \cup NewRows(p)
    BY <1>6 DEF ApplyInbound
  <2>3. \A b \in Batches : b \notin NewSnapshots(p)
    BY EnvelopesAssumption DEF NewSnapshots
  <2>4. \A b \in Batches :
          /\ until'[b] = IF b \in NewBatches(p) THEN poll[p].now + Horizon(b) ELSE until[b]
          /\ stored'[b] = IF b \in NewBatches(p) THEN stored[b] + 1 ELSE stored[b]
    BY <1>6, <2>3 DEF ApplyInbound, MarkUntil, Envelopes
  <2>5. ASSUME NEW r \in feed PROVE RowFits(r)'
    <3>1. r.of \in Batches /\ RowFits(r)
      BY DEF FeedFits, TypeOK, FeedType
    <3>2. r.of \notin NewBatches(p)
      BY <2>1, <3>1 DEF RowFits
    <3>3. QED
      BY <2>2, <2>4, <3>1, <3>2 DEF RowFits
  <2>6. ASSUME NEW r \in NewRows(p) PROVE RowFits(r)'
    <3>1. /\ r.of \in NewBatches(p) /\ r.life \in Lives[r.of]
          /\ r.at = poll[p].now /\ r.copy = stored[r.of] + 1
      BY NewRowsFit DEF FeedFits
    <3>2. QED
      BY <2>1, <2>2, <2>4, <3>1 DEF RowFits
  <2>7. QED
    BY <1>1, <2>2, <2>5, <2>6 DEF FeedFits
<1>7. CASE PruneEvents
  <2>1. feed' \subseteq feed
    BY <1>7 DEF PruneEvents
  <2>2. QED
    BY <1>1, <1>2, <1>7, <2>1 DEF FeedFits, PruneEvents
<1>8. CASE PruneMarks
  <2>1. PICK gone \in Bounded(Sweepable(sweep.now), sweep.left) : marked' = marked \ gone
    BY <1>8 DEF PruneMarks
  <2>2. ASSUME NEW r \in feed PROVE r.of \notin gone
    <3>1. SUFFICES ASSUME r.of \in Sweepable(sweep.now) PROVE FALSE
      BY DEF Bounded
    <3>2. until[r.of] <= sweep.now /\ r \notin Expired(sweep.now)
      BY <3>1 DEF Sweepable
    <3>3. sweep.now \in Nat
      BY DEF FeedFits, TypeOK
    <3>4. r.at + r.life <= sweep.now
      BY <3>2, <3>3, MarkOutlives
    <3>5. QED
      BY <3>2, <3>4 DEF Expired
  <2>3. feed' = feed /\ until' = until /\ stored' = stored
    BY <1>8 DEF PruneMarks
  <2>4. QED
    BY <1>1, <2>1, <2>2, <2>3 DEF FeedFits, RowFits
<1>9. CASE PruneSnapshots \/ SweepFails
  BY <1>1, <1>2, <1>9 DEF FeedFits, PruneSnapshots, SweepFails, storeVars
<1>10. CASE PruneSnapshotMarks
  <2>1. PICK gone \in SUBSET Snapshots : marked' = marked \ gone
    BY <1>10 DEF PruneSnapshotMarks, Bounded
  <2>2. \A r \in feed : r.of \notin gone
    BY EnvelopesAssumption DEF FeedFits, TypeOK, FeedType
  <2>3. feed' = feed /\ until' = until /\ stored' = stored
    BY <1>10 DEF PruneSnapshotMarks
  <2>4. QED
    BY <1>1, <2>1, <2>2, <2>3 DEF FeedFits, RowFits
<1>11. QED
  BY <1>4, <1>5, <1>6, <1>7, <1>8, <1>9, <1>10 DEF Next, IngestStep, SweepStep

LEMMA FeedFitsInit == Init => FeedFits
  BY TypeInit DEF Init, FeedFits

\* No event stands in the feed twice, for any retentions, retransmissions and
\* sweeps (insertEventBatches, insertEvents, PruneEvents).
THEOREM EventsStandOnce == Spec => []OneCopy
<1>1. ASSUME FeedFits, NEW r \in feed, NEW q \in feed, r.of = q.of, r.life = q.life
      PROVE  r = q
  <2>1. r \in FeedType /\ q \in FeedType /\ RowFits(r) /\ RowFits(q)
    BY <1>1 DEF FeedFits, TypeOK
  <2>2. Horizon(r.of) \in Nat
    BY <2>1, HorizonBounds DEF RowFits, FeedType
  <2>3. r.at = q.at /\ r.copy = q.copy
    BY <1>1, <2>1, <2>2 DEF RowFits, FeedType
  <2>4. QED
    BY <1>1, <2>1, <2>3 DEF FeedType
<1>2. FeedFits => OneCopy
  BY <1>1 DEF OneCopy
<1>3. QED
  BY FeedFitsInit, FeedFitsNext, <1>2, PTL DEF Spec

-------------------------------------------------------------------------------
(* The event budget *)

\* No envelope is sent twice.
SentOnce == \A i, j \in 1..Len(outbox) : outbox[i] = outbox[j] => i = j

\* What a poll that is not yet answered may apply, and stands in the feed, it
\* knows.
KnowsFeed(p) ==
  \A r \in feed : \A i \in (applied + 1) .. poll[p].upto :
    outbox[i] = r.of => r.of \in poll[p].known

\* A poll is of the session or an earlier one, and carries what was sent.
PollFits(p) ==
  /\ poll[p].sess <= session /\ poll[p].upto <= Len(outbox)
  /\ poll[p].stage = "stamped" => poll[p].sess = session
  /\ poll[p].stage \in {"read", "stamped"} /\ poll[p].sess = session => KnowsFeed(p)

IngestFits == FeedFits /\ SentOnce /\ \A p \in Polls : PollFits(p)

LEMMA IngestFitsInit == Init => IngestFits
<1> SUFFICES ASSUME Init PROVE IngestFits
  OBVIOUS
<1>1. FeedFits
  BY FeedFitsInit
<1>2. SentOnce
  BY DEF Init, SentOnce
<1>3. \A p \in Polls : PollFits(p)
  BY DEF Init, NoPoll, PollFits
<1>4. QED
  BY <1>1, <1>2, <1>3 DEF IngestFits

\* A poll that is idle fits.
LEMMA IdleFits ==
  ASSUME TypeOK, NEW p \in Polls, poll[p] = NoPoll
  PROVE  PollFits(p)
<1>1. session \in Nat /\ Len(outbox) \in Nat
  BY DEF TypeOK
<1>2. QED
  BY <1>1 DEF PollFits, NoPoll

\* The plugin's steps: a new envelope follows what any poll carries, and a
\* new session leaves the polls of the old behind.
LEMMA IngestFitsPlugin ==
  ASSUME IngestFits, TypeOK', Tick \/ PluginStep
  PROVE  SentOnce' /\ \A p \in Polls : PollFits(p)'
<1>0. TypeOK /\ SentOnce /\ \A p \in Polls : PollFits(p)
  BY DEF IngestFits, FeedFits
<1>1. CASE Tick
  BY <1>0, <1>1 DEF Tick, SentOnce, PollFits, KnowsFeed, pluginVars, storeVars
<1>2. ASSUME NEW e \in Envelopes, Send(e) PROVE SentOnce' /\ \A p \in Polls : PollFits(p)'
  <2>1. /\ outbox \in Seq(Envelopes) /\ outbox' = Append(outbox, e)
        /\ \A i \in 1..Len(outbox) : outbox[i] # e
    BY <1>0, <1>2 DEF Send, TypeOK
  <2>2. /\ Len(outbox') = Len(outbox) + 1 /\ outbox'[Len(outbox) + 1] = e
        /\ \A i \in 1..Len(outbox) : outbox'[i] = outbox[i]
    BY <2>1
  <2>3. SentOnce'
    BY <1>0, <2>1, <2>2 DEF SentOnce
  <2>4. ASSUME NEW p \in Polls PROVE PollFits(p)'
    <3>1. poll[p].upto \in Nat /\ applied \in Nat /\ PollFits(p)
      BY <1>0 DEF TypeOK, PollType
    <3>2. poll' = poll /\ feed' = feed /\ applied' = applied /\ session' = session
      BY <1>2 DEF Send, storeVars
    <3>3. KnowsFeed(p) => KnowsFeed(p)'
      BY <2>1, <2>2, <3>1, <3>2 DEF KnowsFeed, PollFits
    <3>4. QED
      BY <2>1, <2>2, <3>1, <3>2, <3>3 DEF PollFits
  <2>5. QED
    BY <2>3, <2>4
<1>3. CASE StartSession
  <2>1. SentOnce'
    BY <1>0, <1>3 DEF StartSession, SentOnce, pluginVars
  <2>2. ASSUME NEW p \in Polls PROVE PollFits(p)'
    <3>1. poll[p].sess \in Nat /\ session \in Nat /\ PollFits(p)
      BY <1>0 DEF TypeOK, PollType
    <3>2. /\ session' = session + 1 /\ poll' = poll /\ outbox' = outbox
          /\ poll[p].stage # "stamped"
      BY <1>3 DEF StartSession, Locked, pluginVars
    <3>3. QED
      BY <3>1, <3>2 DEF PollFits
  <2>3. QED
    BY <2>1, <2>2
<1>4. ASSUME NEW q \in Polls, TakeAnswer(q) \/ Vanish(q)
      PROVE  SentOnce' /\ \A p \in Polls : PollFits(p)'
  <2>1. /\ poll' = [poll EXCEPT ![q] = NoPoll] /\ feed' = feed /\ outbox' = outbox
        /\ applied' = applied /\ session' = session
    BY <1>4 DEF TakeAnswer, Vanish, pluginVars, storeVars
  <2>2. poll \in [Polls -> PollType]
    BY <1>0 DEF TypeOK
  <2>3. ASSUME NEW p \in Polls, p # q PROVE PollFits(p)'
    BY <1>0, <2>1, <2>2, <2>3 DEF PollFits, KnowsFeed
  <2>4. PollFits(q)'
    <3>1. session' \in Nat /\ Len(outbox)' \in Nat
      BY DEF TypeOK
    <3>2. poll'[q] = NoPoll
      BY <2>1, <2>2
    <3>3. QED
      BY <3>1, <3>2 DEF PollFits, NoPoll
  <2>5. QED
    BY <1>0, <2>1, <2>3, <2>4 DEF SentOnce
<1>5. QED
  BY <1>1, <1>2, <1>3, <1>4 DEF PluginStep

\* A poll asks which of its batches are marked, and every row that stands is
\* of a marked batch.
LEMMA PollKnowsFeed ==
  ASSUME FeedFits, NEW upto \in Nat, NEW r \in feed, NEW i \in 1..upto, outbox[i] = r.of
  PROVE  r.of \in Known(upto)
<1>1. r.of \in Batches /\ r.of \in marked \ Faulty
  BY DEF FeedFits, TypeOK, FeedType, RowFits
<1>2. QED
  BY <1>1 DEF Known

\* What a transaction cuts is at or before the new ack, so no poll that waits
\* for the lock may apply it again.
LEMMA IngestFitsNext == IngestFits /\ [Next]_vars => IngestFits'
<1> SUFFICES ASSUME IngestFits, [Next]_vars PROVE IngestFits'
  OBVIOUS
<1>0. FeedFits /\ TypeOK /\ SentOnce /\ \A p \in Polls : PollFits(p)
  BY DEF IngestFits, FeedFits
<1>1. FeedFits' /\ TypeOK'
  BY <1>0, FeedFitsNext DEF FeedFits
<1>2. CASE Tick \/ PluginStep
  BY <1>1, <1>2, IngestFitsPlugin DEF IngestFits
<1>3. ASSUME UNCHANGED <<outbox, poll, session, applied>>, feed' \subseteq feed PROVE IngestFits'
  BY <1>0, <1>1, <1>3 DEF IngestFits, SentOnce, PollFits, KnowsFeed
<1>4. CASE UNCHANGED vars
  BY <1>3, <1>4 DEF vars, pluginVars, storeVars
<1>5. CASE SweepStep
  <2>1. UNCHANGED <<outbox, poll, session, applied>>
    BY <1>5 DEF SweepStep, PruneEvents, PruneMarks, PruneSnapshots, PruneSnapshotMarks, SweepFails,
                pluginVars
  <2>2. feed' \subseteq feed
    BY <1>5 DEF SweepStep, PruneEvents, PruneMarks, PruneSnapshots, PruneSnapshotMarks, SweepFails,
                storeVars
  <2>3. QED
    BY <1>3, <2>1, <2>2
<1>6. ASSUME NEW q \in Polls, IngestStep(q) PROVE IngestFits'
  <2>1. outbox' = outbox /\ session' = session /\ SentOnce'
    BY <1>0, <1>6 DEF IngestStep, handlePoll, Stamp, ApplyInbound, Rollback, pluginVars, SentOnce
  <2>2. /\ poll \in [Polls -> PollType] /\ session \in Nat /\ applied \in Nat
        /\ outbox \in Seq(Envelopes) /\ released \in Nat /\ Len(outbox) \in Nat
    BY <1>0 DEF TypeOK
  <2>3. poll[q].upto \in Nat /\ poll[q].sess \in Nat /\ PollFits(q)
    BY <1>0, <2>2 DEF PollType
  <2>4. ASSUME NEW p \in Polls, p # q PROVE PollFits(p)'
    <3>1. poll'[p] = poll[p]
      BY <1>6, <2>2, <2>4 DEF IngestStep, handlePoll, Stamp, ApplyInbound, Rollback
    <3>2. CASE handlePoll(q) \/ Stamp(q) \/ Rollback(q)
      BY <1>0, <2>1, <3>1, <3>2
         DEF handlePoll, Stamp, Rollback, storeVars, PollFits, KnowsFeed
    <3>3. CASE ApplyInbound(q)
      <4>1. poll[p].upto \in Nat /\ poll[p].upto <= Len(outbox) /\ PollFits(p)
        BY <1>0, <2>2 DEF PollType, PollFits
      <4>2. /\ applied' = IF poll[q].upto > applied THEN poll[q].upto ELSE applied
            /\ feed' = feed \cup NewRows(q)
        BY <3>3 DEF ApplyInbound
      <4>3. ASSUME KnowsFeed(p), NEW r \in feed', NEW i \in (applied' + 1) .. poll[p].upto,
                   outbox[i] = r.of
            PROVE  r.of \in poll[p].known
        <5>1. i \in (applied + 1) .. poll[p].upto /\ i \in 1..Len(outbox)
          BY <2>2, <2>3, <4>1, <4>2, <4>3
        <5>2. CASE r \in feed
          BY <4>3, <5>1, <5>2 DEF KnowsFeed
        <5>3. CASE r \in NewRows(q)
          <6>1. r.of \in NewBatches(q)
            BY <1>0, <5>3, NewRowsFit
          <6>2. PICK j \in Positions(q) : outbox[j] = r.of
            BY <6>1 DEF NewBatches, Accepted
          <6>3. j \in 1..Len(outbox) /\ j <= applied'
            BY <2>2, <2>3, <4>2, <6>2 DEF Positions, PollFits
          <6>4. i # j
            BY <2>2, <2>3, <4>2, <4>1, <6>3
          <6>5. QED
            BY <1>0, <4>3, <5>1, <6>2, <6>3, <6>4 DEF SentOnce
        <5>4. QED
          BY <4>2, <5>2, <5>3
      <4>4. KnowsFeed(p) => KnowsFeed(p)'
        BY <2>1, <3>1, <4>3 DEF KnowsFeed
      <4>5. QED
        BY <2>1, <3>1, <4>1, <4>4 DEF PollFits
    <3>4. QED
      BY <1>6, <3>2, <3>3 DEF IngestStep
  <2>5. PollFits(q)'
    <3>1. CASE handlePoll(q)
      <4>1. PICK upto \in released..Len(outbox) :
              poll' = [poll EXCEPT ![q] = [NoPoll EXCEPT !.stage = "read", !.sess = session,
                                                         !.upto = upto, !.known = Known(upto)]]
        BY <3>1 DEF handlePoll
      <4>2. /\ poll'[q].stage = "read" /\ poll'[q].sess = session
            /\ poll'[q].upto = upto /\ poll'[q].known = Known(upto)
        BY <2>2, <4>1 DEF NoPoll
      <4>3. feed' = feed /\ applied' = applied /\ upto \in Nat /\ upto <= Len(outbox)
        BY <2>2, <3>1 DEF handlePoll, storeVars
      <4>4. KnowsFeed(q)'
        BY <1>0, <2>1, <2>2, <4>2, <4>3, PollKnowsFeed DEF KnowsFeed
      <4>5. QED
        BY <2>1, <2>2, <4>2, <4>3, <4>4 DEF PollFits
    <3>2. CASE Stamp(q)
      <4>1. /\ poll'[q] = [poll[q] EXCEPT !.stage = "stamped", !.now = clock]
            /\ poll[q].stage = "read" /\ poll[q].sess = session
            /\ feed' = feed /\ applied' = applied
        BY <2>2, <3>2 DEF Stamp, storeVars
      <4>2. poll[q] \in PollType
        BY <2>2
      <4>3. /\ poll'[q].stage = "stamped" /\ poll'[q].sess = poll[q].sess
            /\ poll'[q].upto = poll[q].upto /\ poll'[q].known = poll[q].known
        BY <4>1, <4>2 DEF PollType
      <4>4. QED
        BY <2>1, <2>3, <4>1, <4>3 DEF PollFits, KnowsFeed
    <3>3. CASE ApplyInbound(q)
      <4>1. poll'[q] = [NoPoll EXCEPT !.stage = "answered", !.sess = poll[q].sess,
                                      !.ack = applied', !.told = OverBudget(q)]
        BY <2>2, <3>3 DEF ApplyInbound
      <4>2. poll'[q].stage = "answered" /\ poll'[q].sess = poll[q].sess /\ poll'[q].upto = 0
        BY <4>1 DEF NoPoll
      <4>3. Len(outbox) >= 0
        BY <2>2
      <4>4. QED
        BY <2>1, <2>3, <4>2, <4>3 DEF PollFits
    <3>4. CASE Rollback(q)
      <4>1. poll'[q] = NoPoll
        BY <2>2, <3>4 DEF Rollback
      <4>2. QED
        BY <2>1, <2>2, <4>1 DEF PollFits, NoPoll
    <3>5. QED
      BY <1>6, <3>1, <3>2, <3>3, <3>4 DEF IngestStep
  <2>6. QED
    BY <1>1, <2>1, <2>4, <2>5 DEF IngestFits
<1>7. QED
  BY <1>2, <1>4, <1>5, <1>6 DEF Next

\* The answer that refuses a batch for the event budget is true of the feed:
\* the batch was not stored before, in this session or an earlier one
\* (ingestedEventBatches, classifyInbound, insertEventBatches).
THEOREM RefusalsAreHonest == Spec => RefusalIsHonest
<1>1. ASSUME IngestFits, [Next]_vars, NEW p \in Polls,
             poll[p].stage = "stamped", poll'[p].stage = "answered",
             NEW b \in poll'[p].told, NEW r \in feed', r.of = b
      PROVE  FALSE
  <2>0. TypeOK /\ PollFits(p) /\ poll \in [Polls -> PollType]
    BY <1>1 DEF IngestFits, FeedFits, TypeOK
  <2>1. ApplyInbound(p)
    <3>1. ASSUME UNCHANGED poll PROVE FALSE
      BY <1>1, <3>1
    <3>2. ASSUME NEW q \in Polls, poll' = [poll EXCEPT ![q] = NoPoll] PROVE FALSE
      BY <1>1, <2>0, <3>2 DEF NoPoll
    <3>3. ASSUME Tick \/ SweepStep \/ UNCHANGED vars PROVE FALSE
      BY <3>1, <3>3 DEF Tick, SweepStep, PruneEvents, PruneMarks, PruneSnapshots, PruneSnapshotMarks,
                        SweepFails, vars
    <3>4. ASSUME PluginStep PROVE FALSE
      BY <3>1, <3>2, <3>4 DEF PluginStep, Send, StartSession, TakeAnswer, Vanish
    <3>5. ASSUME NEW q \in Polls, handlePoll(q) \/ Rollback(q) PROVE FALSE
      <4>1. CASE Rollback(q)
        BY <3>2, <4>1 DEF Rollback
      <4>2. CASE handlePoll(q)
        <5>1. PICK upto \in released..Len(outbox) :
                poll' = [poll EXCEPT ![q] = [NoPoll EXCEPT !.stage = "read", !.sess = session,
                                                           !.upto = upto, !.known = Known(upto)]]
          BY <4>2 DEF handlePoll
        <5>2. QED
          BY <1>1, <2>0, <5>1 DEF NoPoll
      <4>3. QED
        BY <3>5, <4>1, <4>2
    <3>6. ASSUME NEW q \in Polls, Stamp(q) PROVE FALSE
      <4>1. poll[q] \in PollType
        BY <2>0
      <4>2. [poll[q] EXCEPT !.stage = "stamped", !.now = clock].stage = "stamped"
        BY <4>1 DEF PollType
      <4>3. QED
        BY <1>1, <2>0, <3>6, <4>2 DEF Stamp
    <3>7. ASSUME NEW q \in Polls, q # p, ApplyInbound(q) PROVE FALSE
      BY <1>1, <2>0, <3>7 DEF ApplyInbound
    <3>8. QED
      BY <1>1, <3>3, <3>4, <3>5, <3>6, <3>7 DEF Next, IngestStep
  <2>2. poll'[p].told = OverBudget(p) /\ feed' = feed \cup NewRows(p)
    <3>1. poll'[p] = [NoPoll EXCEPT !.stage = "answered", !.sess = poll[p].sess,
                                    !.ack = applied', !.told = OverBudget(p)]
      BY <2>0, <2>1 DEF ApplyInbound
    <3>2. QED
      BY <2>1, <3>1 DEF ApplyInbound, NoPoll
  <2>3. b \notin poll[p].known /\ \E i \in Positions(p) : outbox[i] = b
    BY <1>1, <2>2, RefusedWasCharged
  <2>4. PICK i \in Positions(p) : outbox[i] = b
    BY <2>3
  <2>5. i \in (applied + 1) .. poll[p].upto
    <3>1. poll[p].upto \in Nat /\ applied \in Nat
      BY <2>0 DEF TypeOK, PollType
    <3>2. QED
      BY <3>1, <2>4 DEF Positions
  <2>6. CASE r \in feed
    BY <1>1, <2>0, <2>3, <2>4, <2>5, <2>6 DEF PollFits, KnowsFeed
  <2>7. CASE r \in NewRows(p)
    <3>1. r.of \in NewBatches(p)
      BY <2>0, <2>7, NewRowsFit
    <3>2. QED
      BY <1>1, <2>2, <3>1 DEF NewBatches
  <2>8. QED
    BY <2>2, <2>6, <2>7
<1>2. IngestFits /\ [Next]_vars =>
        (\A p \in Polls : poll[p].stage = "stamped" /\ poll'[p].stage = "answered"
           => \A b \in poll'[p].told, r \in feed' : r.of # b)
  BY <1>1
<1>3. QED
  BY IngestFitsInit, IngestFitsNext, <1>2, PTL DEF Spec, RefusalIsHonest

-------------------------------------------------------------------------------
(* The latest snapshot *)

\* A snapshot whose mark stands, or whose mark's time has passed.
Kept(e) == e \in marked \/ until[e] \in 1..clock

\* Every good snapshot among the first n envelopes was stored.
Covered(n) == \A i \in 1..n : outbox[i] \in Snapshots \ Faulty => Kept(outbox[i])

\* A row stands for an envelope before which every snapshot was stored.
RowCovered(r) == \E i \in 1..Len(outbox) : outbox[i] = r.of /\ Covered(i)

\* So does whatever the hub acks and the plugin knows of it.
AckCovered(n) == n \in 0..Len(outbox) /\ Covered(n)

SeqsDiffer(rows) == \A r, q \in rows : r.seq = q.seq => r = q

NewsFit ==
  /\ IngestFits
  /\ SeqsDiffer(history) /\ \A r \in history : RowCovered(r)
  /\ AckCovered(applied) /\ AckCovered(released)
  /\ \A p \in Polls : AckCovered(poll[p].ack)
  /\ sweep.now <= clock /\ \A s \in marked \cap Snapshots : until[s] >= 1

LEMMA NewsFitInit == Init => NewsFit
<1> SUFFICES ASSUME Init PROVE NewsFit
  OBVIOUS
<1>1. IngestFits
  BY IngestFitsInit
<1>2. AckCovered(0)
  BY DEF Init, AckCovered, Covered
<1>3. QED
  BY <1>1, <1>2 DEF Init, NewsFit, SeqsDiffer, NoPoll, NoSweep

\* What was stored stays so when marks and clock only grow.
LEMMA CoverStays ==
  ASSUME TypeOK, outbox \in Seq(Envelopes), Len(outbox') \in Nat, Len(outbox) <= Len(outbox'),
         \A i \in 1..Len(outbox) : outbox'[i] = outbox[i],
         \A e \in Snapshots \ Faulty : Kept(e) => Kept(e)'
  PROVE  /\ \A n \in 0..Len(outbox) : Covered(n) => Covered(n)'
         /\ \A n : AckCovered(n) => AckCovered(n)'
         /\ \A r : RowCovered(r) => RowCovered(r)'
<1>1. Len(outbox) \in Nat
  OBVIOUS
<1>2. ASSUME NEW n \in 0..Len(outbox), Covered(n) PROVE Covered(n)'
  <2>1. ASSUME NEW i \in 1..n, outbox'[i] \in Snapshots \ Faulty PROVE Kept(outbox[i])'
    <3>1. i \in 1..Len(outbox) /\ outbox'[i] = outbox[i]
      BY <1>1
    <3>2. Kept(outbox[i])
      BY <1>2, <2>1, <3>1 DEF Covered
    <3>3. QED
      BY <2>1, <3>1, <3>2
  <2>2. \A i \in 1..n : outbox'[i] = outbox[i]
    BY <1>1
  <2>3. QED
    BY <2>1, <2>2 DEF Covered, Kept
<1>3. \A n : AckCovered(n) => AckCovered(n)'
  BY <1>1, <1>2 DEF AckCovered
<1>4. ASSUME NEW r, RowCovered(r) PROVE RowCovered(r)'
  <2>1. PICK i \in 1..Len(outbox) : outbox[i] = r.of /\ Covered(i)
    BY <1>4 DEF RowCovered
  <2>2. i \in 1..Len(outbox') /\ i \in 0..Len(outbox) /\ outbox'[i] = r.of
    BY <1>1, <2>1
  <2>3. Covered(i)'
    BY <1>2, <2>1, <2>2
  <2>4. QED
    BY <2>2, <2>3 DEF RowCovered
<1>5. QED
  BY <1>2, <1>3, <1>4

\* No step takes the mark of a snapshot before its time.
LEMMA KeptStays ==
  ASSUME NewsFit, [Next]_vars, NEW e \in Snapshots \ Faulty, Kept(e)
  PROVE  Kept(e)'
<1>1. TypeOK /\ clock \in Nat /\ until[e] \in Nat /\ sweep.now \in Nat /\ e \in Snapshots /\ e \notin Batches
  BY EnvelopesAssumption DEF NewsFit, IngestFits, FeedFits, TypeOK, Envelopes
<1>2. CASE Tick
  BY <1>1, <1>2 DEF Tick, Kept, storeVars
<1>3. ASSUME UNCHANGED <<clock, marked, until>> PROVE Kept(e)'
  BY <1>3 DEF Kept
<1>4. CASE PluginStep \/ UNCHANGED vars
  BY <1>3, <1>4 DEF PluginStep, Send, StartSession, TakeAnswer, Vanish, vars, storeVars
<1>5. ASSUME NEW p \in Polls, IngestStep(p) PROVE Kept(e)'
  <2>1. CASE handlePoll(p) \/ Stamp(p) \/ Rollback(p)
    BY <1>3, <2>1 DEF handlePoll, Stamp, Rollback, storeVars
  <2>2. CASE ApplyInbound(p)
    <3>1. CASE e \in NewSnapshots(p)
      BY <2>2, <3>1 DEF ApplyInbound, Kept
    <3>2. CASE e \notin NewSnapshots(p)
      <4>1. e \notin NewBatches(p) \cup NewSnapshots(p) /\ e \in Envelopes
        BY <1>1, <3>2 DEF NewBatches, Envelopes
      <4>2. until'[e] = until[e] /\ marked \subseteq marked' /\ clock' = clock
        BY <2>2, <4>1 DEF ApplyInbound
      <4>3. QED
        BY <4>2 DEF Kept
    <3>3. QED
      BY <3>1, <3>2
  <2>3. QED
    BY <1>5, <2>1, <2>2 DEF IngestStep
<1>6. CASE PruneEvents \/ PruneSnapshots \/ SweepFails
  BY <1>3, <1>6 DEF PruneEvents, PruneSnapshots, SweepFails, storeVars
<1>7. CASE PruneMarks
  <2>1. PICK gone \in Bounded(Sweepable(sweep.now), sweep.left) : marked' = marked \ gone
    BY <1>7 DEF PruneMarks
  <2>2. e \notin gone
    BY <1>1 DEF Bounded, Sweepable
  <2>3. QED
    BY <1>7, <2>1, <2>2 DEF PruneMarks, Kept
<1>8. CASE PruneSnapshotMarks
  <2>1. PICK gone \in Bounded({s \in Snapshots \cap marked : until[s] <= sweep.now}, sweep.left) :
          marked' = marked \ gone
    BY <1>8 DEF PruneSnapshotMarks
  <2>2. clock' = clock /\ until' = until
    BY <1>8 DEF PruneSnapshotMarks
  <2>3. CASE e \in gone
    <3>1. e \in Snapshots \cap marked /\ until[e] <= sweep.now
      BY <2>3 DEF Bounded
    <3>2. sweep.now <= clock /\ until[e] >= 1
      BY <3>1 DEF NewsFit
    <3>3. QED
      BY <1>1, <2>2, <3>1, <3>2 DEF Kept
  <2>4. CASE e \notin gone
    BY <2>1, <2>2, <2>4 DEF Kept
  <2>5. QED
    BY <2>3, <2>4
<1>9. QED
  BY <1>2, <1>4, <1>5, <1>6, <1>7, <1>8 DEF Next, SweepStep

\* The outbox only grows.
LEMMA OutboxGrows ==
  ASSUME TypeOK, [Next]_vars
  PROVE  /\ outbox \in Seq(Envelopes) /\ Len(outbox') \in Nat /\ Len(outbox) <= Len(outbox')
         /\ \A i \in 1..Len(outbox) : outbox'[i] = outbox[i]
<1>1. outbox \in Seq(Envelopes) /\ Len(outbox) \in Nat
  BY DEF TypeOK
<1>2. ASSUME NEW e \in Envelopes, Send(e)
      PROVE  /\ Len(outbox') = Len(outbox) + 1
             /\ \A i \in 1..Len(outbox) : outbox'[i] = outbox[i]
  BY <1>1, <1>2 DEF Send
<1>3. ASSUME NEW p \in Polls, IngestStep(p) \/ TakeAnswer(p) \/ Vanish(p) PROVE outbox' = outbox
  BY <1>3 DEF IngestStep, handlePoll, Stamp, ApplyInbound, Rollback, TakeAnswer, Vanish, pluginVars
<1>4. ASSUME Tick \/ StartSession \/ SweepStep \/ UNCHANGED vars PROVE outbox' = outbox
  BY <1>4 DEF Tick, StartSession, SweepStep, PruneEvents, PruneMarks, PruneSnapshots,
              PruneSnapshotMarks, SweepFails, vars, pluginVars
<1>5. QED
  BY <1>1, <1>2, <1>3, <1>4 DEF Next, PluginStep

\* A transaction that carries the ack on stores every good snapshot on the way.
LEMMA ApplyCovers ==
  ASSUME NewsFit, NEW p \in Polls, ApplyInbound(p),
         \A e \in Snapshots \ Faulty : Kept(e) => Kept(e)'
  PROVE  /\ applied' \in 0..Len(outbox) /\ outbox' = outbox
         /\ \A i \in FreshPositions(p) : i \in 1..applied'
         /\ \A i \in 1..applied' : outbox[i] \in Snapshots \ Faulty => Kept(outbox[i])'
<1>1. /\ TypeOK /\ applied \in Nat /\ poll[p].upto \in Nat /\ Len(outbox) \in Nat
      /\ poll[p].upto <= Len(outbox) /\ applied <= Len(outbox) /\ Covered(applied)
  BY DEF NewsFit, IngestFits, FeedFits, TypeOK, PollType, PollFits, AckCovered
<1>2. /\ applied' = IF poll[p].upto > applied THEN poll[p].upto ELSE applied
      /\ outbox' = outbox /\ NewSnapshots(p) \subseteq marked' /\ marked \subseteq marked'
  BY DEF ApplyInbound, pluginVars
<1>3. applied' \in 0..Len(outbox)
  BY <1>1, <1>2
<1>4. \A i \in FreshPositions(p) : i \in 1..applied'
  <2>1. \A i \in FreshPositions(p) : i \in Nat /\ i > applied /\ i <= poll[p].upto
    BY <1>1, AddedRowsFit
  <2>2. QED
    BY <1>1, <1>2, <2>1
<1>5. ASSUME NEW i \in 1..applied', outbox[i] \in Snapshots \ Faulty PROVE Kept(outbox[i])'
  <2>1. CASE i \in 1..applied
    <3>1. Kept(outbox[i])
      BY <1>1, <1>5, <2>1 DEF Covered
    <3>2. QED
      BY <1>2, <1>5, <3>1 DEF Kept
  <2>2. CASE i \notin 1..applied
    <3>1. i \in Positions(p)
      BY <1>1, <1>2, <2>2 DEF Positions
    <3>2. outbox[i] \in marked'
      BY <1>2, <1>5, <3>1 DEF NewSnapshots, Accepted
    <3>3. QED
      BY <1>2, <3>2 DEF Kept
  <2>3. QED
    BY <2>1, <2>2
<1>6. QED
  BY <1>2, <1>3, <1>4, <1>5

\* What a transaction records keeps the seqs apart, and its depth bound.
LEMMA ApplyRecords ==
  ASSUME NewsFit, NEW p \in Polls, ApplyInbound(p)
  PROVE  /\ history' \subseteq history \cup AddedRows(p)
         /\ SeqsDiffer(history \cup AddedRows(p)) /\ SeqsDiffer(history')
<1>1. TypeOK /\ SeqsDiffer(history)
  BY DEF NewsFit, IngestFits, FeedFits
<1>2. LastSeq \in Nat /\ \A r \in history : r.seq <= LastSeq /\ r.seq \in Nat
  BY <1>1, LastSeqBounds DEF TypeOK, RowType
<1>3. \A r \in AddedRows(p) : r.seq \in Nat /\ r.seq > LastSeq
  BY <1>1, AddedRowsFit DEF AddedRows, RowType
<1>4. \A r, q \in AddedRows(p) : r.seq = q.seq => r = q
  BY <1>1, AddedRowsFit DEF AddedRows
<1>5. SeqsDiffer(history \cup AddedRows(p))
  <2>1. \A r \in history, q \in AddedRows(p) : r.seq # q.seq
    BY <1>2, <1>3
  <2>2. QED
    BY <1>1, <1>4, <2>1 DEF SeqsDiffer
<1>6. history' \subseteq history \cup AddedRows(p)
  BY RecordedIs DEF ApplyInbound, Trimmed
<1>7. QED
  BY <1>5, <1>6 DEF SeqsDiffer

\* Every step keeps what was stored, acked and recorded in step.
LEMMA NewsFitNext == NewsFit /\ [Next]_vars => NewsFit'
<1> SUFFICES ASSUME NewsFit, [Next]_vars PROVE NewsFit'
  OBVIOUS
<1>0. /\ TypeOK /\ IngestFits /\ SeqsDiffer(history) /\ poll \in [Polls -> PollType]
      /\ Len(outbox) \in Nat /\ clock \in Nat /\ sweep.now \in Nat
  BY DEF NewsFit, IngestFits, FeedFits, TypeOK
<1>1. IngestFits' /\ TypeOK'
  BY <1>0, IngestFitsNext DEF IngestFits, FeedFits
<1>2. \A e \in Snapshots \ Faulty : Kept(e) => Kept(e)'
  BY KeptStays
<1>3. /\ outbox \in Seq(Envelopes) /\ Len(outbox') \in Nat /\ Len(outbox) <= Len(outbox')
      /\ \A i \in 1..Len(outbox) : outbox'[i] = outbox[i]
  BY <1>0, OutboxGrows
<1>4. /\ \A n : AckCovered(n) => AckCovered(n)'
      /\ \A r : RowCovered(r) => RowCovered(r)'
  BY <1>0, <1>2, <1>3, CoverStays
<1>5. AckCovered(0)'
  BY <1>3 DEF AckCovered, Covered
<1>6. sweep'.now <= clock' /\ \A s \in marked' \cap Snapshots : until'[s] >= 1
  <2>1. sweep.now <= clock /\ \A s \in marked \cap Snapshots : until[s] >= 1
    BY DEF NewsFit
  <2>2. sweep'.now <= clock'
    <3>1. CASE SweepStep
      BY <1>0, <2>1, <3>1 DEF SweepStep, PruneEvents, PruneMarks, PruneSnapshots,
                              PruneSnapshotMarks, SweepFails, NoSweep
    <3>2. CASE Tick
      BY <1>0, <2>1, <3>2 DEF Tick
    <3>3. CASE PluginStep \/ UNCHANGED vars
      BY <2>1, <3>3 DEF PluginStep, Send, StartSession, TakeAnswer, Vanish, vars
    <3>4. ASSUME NEW p \in Polls, IngestStep(p) PROVE sweep'.now <= clock'
      BY <2>1, <3>4 DEF IngestStep, handlePoll, Stamp, ApplyInbound, Rollback
    <3>5. QED
      BY <3>1, <3>2, <3>3, <3>4 DEF Next
  <2>3. ASSUME marked' \subseteq marked, until' = until
        PROVE  \A s \in marked' \cap Snapshots : until'[s] >= 1
    BY <2>1, <2>3
  <2>4. ASSUME NEW p \in Polls, ApplyInbound(p)
        PROVE  \A s \in marked' \cap Snapshots : until'[s] >= 1
    <3>1. ASSUME NEW s \in marked' \cap Snapshots PROVE until'[s] >= 1
      <4>1. s \in Envelopes /\ s \notin Batches /\ s \notin NewBatches(p)
        BY EnvelopesAssumption DEF Envelopes, NewBatches
      <4>2. CASE s \in NewSnapshots(p)
        <5>1. until'[s] = poll[p].now + SnapshotLife
          BY <2>4, <4>1, <4>2 DEF ApplyInbound, MarkUntil
        <5>2. poll[p].now \in Nat /\ SnapshotLife \in Nat \ {0}
          BY <1>0, LimitsAssumption DEF PollType
        <5>3. QED
          BY <5>1, <5>2
      <4>3. CASE s \notin NewSnapshots(p)
        <5>1. until'[s] = until[s] /\ s \in marked
          BY <2>4, <3>1, <4>1, <4>3 DEF ApplyInbound
        <5>2. QED
          BY <2>1, <3>1, <5>1
      <4>4. QED
        BY <4>2, <4>3
    <3>2. QED
      BY <3>1
  <2>5. ASSUME Tick \/ PluginStep \/ UNCHANGED vars PROVE marked' \subseteq marked /\ until' = until
    BY <2>5 DEF Tick, PluginStep, Send, StartSession, TakeAnswer, Vanish, vars, storeVars
  <2>6. ASSUME NEW p \in Polls, handlePoll(p) \/ Stamp(p) \/ Rollback(p)
        PROVE  marked' \subseteq marked /\ until' = until
    BY <2>6 DEF handlePoll, Stamp, Rollback, storeVars
  <2>7. ASSUME SweepStep PROVE marked' \subseteq marked /\ until' = until
    BY <2>7 DEF SweepStep, PruneEvents, PruneMarks, PruneSnapshots, PruneSnapshotMarks, SweepFails,
                storeVars
  <2>8. QED
    BY <2>2, <2>3, <2>4, <2>5, <2>6, <2>7 DEF Next, IngestStep
<1>7. ASSUME history' \subseteq history
      PROVE  SeqsDiffer(history)' /\ \A r \in history' : RowCovered(r)'
  <2>1. \A r \in history : RowCovered(r)
    BY DEF NewsFit
  <2>2. QED
    BY <1>0, <1>4, <1>7, <2>1 DEF SeqsDiffer
<1>8. /\ AckCovered(applied) /\ AckCovered(released) /\ \A p \in Polls : AckCovered(poll[p].ack)
  BY DEF NewsFit
<1>9. ASSUME NEW q \in Polls, ApplyInbound(q)
      PROVE  NewsFit'
  <2>1. /\ applied' \in 0..Len(outbox) /\ outbox' = outbox
        /\ \A i \in FreshPositions(q) : i \in 1..applied'
        /\ \A i \in 1..applied' : outbox[i] \in Snapshots \ Faulty => Kept(outbox[i])'
    BY <1>2, <1>9, ApplyCovers
  <2>2. AckCovered(applied)'
    BY <2>1 DEF AckCovered, Covered, Kept
  <2>3. AckCovered(released)'
    <3>1. released' = released
      BY <1>9 DEF ApplyInbound, pluginVars
    <3>2. QED
      BY <1>4, <1>8, <3>1
  <2>4. ASSUME NEW p \in Polls PROVE AckCovered(poll[p].ack)'
    <3>1. poll'[p].ack = IF p = q THEN applied' ELSE poll[p].ack
      BY <1>0, <1>9 DEF ApplyInbound, NoPoll
    <3>2. QED
      BY <1>4, <1>8, <2>2, <3>1
  <2>5. ASSUME NEW r \in history' PROVE RowCovered(r)'
    <3>1. CASE r \in history
      BY <1>4, <3>1 DEF NewsFit
    <3>2. CASE r \in AddedRows(q)
      <4>1. PICK i \in FreshPositions(q) : r = NewRow(q, i)
        BY <3>2 DEF AddedRows
      <4>2. r.of = outbox[i]
        BY <4>1 DEF NewRow
      <4>3. i \in 1..Len(outbox) /\ \A j \in 1..i : j \in 1..applied'
        BY <1>0, <2>1
      <4>4. \A j \in 1..i : outbox[j] \in Snapshots \ Faulty => Kept(outbox[j])'
        BY <2>1, <4>3
      <4>5. QED
        BY <2>1, <4>2, <4>3, <4>4 DEF RowCovered, Covered, Kept
    <3>3. QED
      BY <1>9, <2>5, <3>1, <3>2, ApplyRecords
  <2>6. SeqsDiffer(history)'
    BY <1>9, ApplyRecords DEF SeqsDiffer
  <2>7. QED
    BY <1>1, <1>6, <2>2, <2>3, <2>4, <2>5, <2>6 DEF NewsFit
<1>10. ASSUME history' \subseteq history,
              applied' \in {applied, released},
              released' = released \/ \E q \in Polls : released' = poll[q].ack,
              \A p \in Polls : poll'[p].ack \in {poll[p].ack, 0}
       PROVE  NewsFit'
  <2>1. AckCovered(applied)' /\ AckCovered(released)'
    BY <1>4, <1>8, <1>10
  <2>2. \A p \in Polls : AckCovered(poll[p].ack)'
    BY <1>4, <1>5, <1>8, <1>10
  <2>3. QED
    BY <1>1, <1>6, <1>7, <1>10, <2>1, <2>2 DEF NewsFit
<1>11. ASSUME NEW q \in Polls, handlePoll(q) \/ Stamp(q) \/ Rollback(q) PROVE NewsFit'
  <2>1. history' = history /\ applied' = applied /\ released' = released
    BY <1>11 DEF handlePoll, Stamp, Rollback, storeVars, pluginVars
  <2>2. \A p \in Polls : poll'[p].ack \in {poll[p].ack, 0}
    <3>1. CASE Rollback(q)
      BY <1>0, <3>1 DEF Rollback, NoPoll
    <3>2. CASE handlePoll(q)
      BY <1>0, <3>2 DEF handlePoll, NoPoll
    <3>3. CASE Stamp(q)
      BY <1>0, <3>3 DEF Stamp, PollType
    <3>4. QED
      BY <1>11, <3>1, <3>2, <3>3
  <2>3. QED
    BY <1>10, <2>1, <2>2
<1>12. ASSUME NEW q \in Polls, TakeAnswer(q) \/ Vanish(q) PROVE NewsFit'
  <2>1. \A p \in Polls : poll'[p].ack \in {poll[p].ack, 0}
    BY <1>0, <1>12 DEF TakeAnswer, Vanish, NoPoll
  <2>2. /\ history' = history /\ applied' = applied
        /\ released' = released \/ released' = poll[q].ack
    BY <1>12 DEF TakeAnswer, Vanish, storeVars, pluginVars
  <2>3. QED
    BY <1>10, <2>1, <2>2
<1>13. ASSUME Tick \/ SweepStep \/ UNCHANGED vars PROVE NewsFit'
  <2>1. /\ applied' = applied /\ released' = released /\ poll' = poll /\ history' \subseteq history
    BY <1>13 DEF Tick, SweepStep, PruneEvents, PruneMarks, PruneSnapshots, PruneSnapshotMarks,
                 SweepFails, vars, pluginVars, storeVars
  <2>2. QED
    BY <1>10, <2>1
<1>14. ASSUME NEW e \in Envelopes, Send(e) PROVE NewsFit'
  BY <1>10, <1>14 DEF Send, storeVars
<1>15. CASE StartSession
  BY <1>10, <1>15 DEF StartSession, storeVars, pluginVars
<1>16. QED
  BY <1>9, <1>11, <1>12, <1>13, <1>14, <1>15 DEF Next, PluginStep, IngestStep

\* The place of an envelope in the outbox.
LEMMA PlaceIs ==
  ASSUME SentOnce, NEW i \in 1..Len(outbox)
  PROVE  PlaceOf(outbox[i]) = i
  BY DEF SentOnce, PlaceOf

\* A transaction puts a later snapshot on top, or one whose mark has expired.
LEMMA ApplyIsNews ==
  ASSUME NewsFit, NEW p \in Polls, ApplyInbound(p), history # {}, FreshPositions(p) # {},
         TypeOK'
  PROVE  /\ history' # {}
         /\ PlaceOf(Latest') > PlaceOf(Latest) \/ until[Latest'] \in 1..clock
<1> DEFINE rows == history \cup AddedRows(p)
           top == Newest(rows)
<1>1. TypeOK /\ SentOnce /\ history \subseteq RowType /\ IsFiniteSet(history) /\ Len(outbox) \in Nat
  BY DEF NewsFit, IngestFits, FeedFits, TypeOK
<1>2. AddedRows(p) \subseteq RowType /\ IsFiniteSet(AddedRows(p)) /\ AddedRows(p) # {}
  BY <1>1, AddedRowsFit DEF AddedRows
<1>3. rows \subseteq RowType /\ IsFiniteSet(rows) /\ rows # {} /\ SeqsDiffer(rows)
  BY <1>1, <1>2, FS_Union, ApplyRecords
<1> HIDE DEF rows
<1>4. top \in rows /\ \A q \in rows : q.seq <= top.seq
  BY <1>3, NewestStands
<1> HIDE DEF top
<1>5. top \in AddedRows(p)
  <2>1. LastSeq \in Nat /\ \A r \in history : r.seq <= LastSeq /\ r.seq \in Nat
    BY <1>1, LastSeqBounds DEF RowType
  <2>2. \A r \in AddedRows(p) : r.seq \in Nat /\ r.seq > LastSeq /\ r.seq <= top.seq
    BY <1>1, <1>2, <1>4, AddedRowsFit DEF AddedRows, RowType, rows
  <2>3. QED
    BY <1>2, <1>4, <2>1, <2>2 DEF rows
<1>6. history' = Trimmed(rows)
  <2>1. NewSnapshots(p) # {}
    BY DEF FreshPositions
  <2>2. QED
    BY <2>1, RecordedIs DEF ApplyInbound, rows
<1>7. history' \subseteq rows /\ top \in history'
  BY <1>3, <1>4, <1>6, TrimmedKeeps
<1>8. Newest(history') = top
  <2>1. history' \subseteq RowType /\ \A x, y \in history' : x.seq = y.seq => x = y
    BY <1>3, <1>7 DEF SeqsDiffer
  <2>2. \A q \in history' : q.seq <= top.seq
    BY <1>4, <1>7
  <2>3. QED
    BY <1>7, <2>1, <2>2, NewestIs
<1>9. PICK i \in FreshPositions(p) : top = NewRow(p, i)
  BY <1>5 DEF AddedRows
<1>10. /\ top.of = outbox[i] /\ i \in Nat /\ i >= 1 /\ i <= poll[p].upto
       /\ outbox[i] \in Snapshots \ (Faulty \cup marked \cup Standing)
  <2>1. top.of = outbox[i]
    BY <1>9 DEF NewRow
  <2>2. /\ i \in Nat /\ i > applied /\ i <= poll[p].upto
        /\ outbox[i] \in Snapshots \ (Faulty \cup marked \cup Standing)
    BY <1>1, AddedRowsFit
  <2>3. applied \in Nat
    BY <1>1 DEF TypeOK
  <2>4. QED
    BY <2>1, <2>2, <2>3
<1>11. i \in 1..Len(outbox)
  <2>1. poll[p].upto \in Nat /\ poll[p].upto <= Len(outbox)
    BY <1>1 DEF NewsFit, IngestFits, PollFits, TypeOK, PollType
  <2>2. QED
    BY <1>1, <1>10, <2>1
<1>12. Newest(history) \in history
  BY <1>1, LastSeqBounds
<1>13. PICK j \in 1..Len(outbox) : outbox[j] = Newest(history).of /\ Covered(j)
  BY <1>12 DEF NewsFit, RowCovered
<1>14. Latest = outbox[j] /\ Latest' = outbox[i]
  BY <1>8, <1>10, <1>13 DEF Latest
<1>15. PlaceOf(Latest) = j /\ PlaceOf(Latest') = i
  BY <1>1, <1>11, <1>13, <1>14, PlaceIs
<1>16. CASE i <= j
  <2>1. Kept(outbox[i])
    BY <1>10, <1>11, <1>13, <1>16 DEF Covered
  <2>2. QED
    BY <1>7, <1>10, <1>14, <2>1 DEF Kept
<1>17. CASE ~ (i <= j)
  BY <1>7, <1>11, <1>13, <1>15, <1>17
<1>18. QED
  BY <1>16, <1>17

\* The newest row outlives the retention sweep, and the depth bound when a
\* transaction adds none.
LEMMA LatestStands ==
  ASSUME NewsFit, history # {}, NEW rows \in SUBSET history, Newest(history) \in rows
  PROVE  rows # {} /\ Newest(rows) = Newest(history)
<1>1. history \subseteq RowType /\ IsFiniteSet(history) /\ SeqsDiffer(history)
  BY DEF NewsFit, IngestFits, FeedFits, TypeOK
<1>2. \A q \in history : q.seq <= Newest(history).seq
  BY <1>1, NewestStands
<1>3. QED
  BY <1>1, <1>2, NewestIs DEF SeqsDiffer

\* The latest snapshot of a type never regresses and is never lost: a renumbered
\* replay of an earlier one is told by its mark for as long as the mark's
\* retention lasts (insertSnapshots, PruneSnapshots).
THEOREM LatestStaysNews == Spec => LatestIsNews
<1> DEFINE News == history # {} =>
                     /\ history' # {}
                     /\ \/ Latest' = Latest
                        \/ PlaceOf(Latest') > PlaceOf(Latest)
                        \/ until[Latest'] \in 1..clock
<1>1. ASSUME NewsFit, NewsFit', [Next]_vars, history # {} PROVE News
  <2>0. TypeOK /\ TypeOK' /\ history \subseteq RowType
    BY <1>1 DEF NewsFit, IngestFits, FeedFits, TypeOK
  <2>1. ASSUME history' \in SUBSET history, Newest(history) \in history' PROVE News
    BY <1>1, <2>1, LatestStands DEF Latest
  <2>2. Newest(history) \in history /\ LastSeq = Newest(history).seq /\ LastSeq \in Nat
    BY <1>1, <2>0, LastSeqBounds
  <2>3. ASSUME NEW p \in Polls, ApplyInbound(p) PROVE News
    <3>1. CASE FreshPositions(p) # {}
      BY <1>1, <2>0, <2>3, <3>1, ApplyIsNews
    <3>2. CASE FreshPositions(p) = {}
      <4>1. Recorded(p) = history
        BY <3>2, RecordedIs DEF AddedRows
      <4>2. \A q \in history : q.seq <= Newest(history).seq
        BY <2>0, <2>2, LastSeqBounds
      <4>3. Trimmed(history) \in SUBSET history /\ Newest(history) \in Trimmed(history)
        BY <2>0, <2>2, <4>2, TrimmedKeeps
      <4>4. history' = history \/ history' = Trimmed(history)
        BY <2>3, <4>1 DEF ApplyInbound
      <4>5. QED
        BY <2>1, <2>2, <4>3, <4>4
    <3>3. QED
      BY <3>1, <3>2
  <2>4. CASE PruneSnapshots
    <3>1. PICK gone \in Bounded(Stale, PruneBatch) : history' = history \ gone
      BY <2>4 DEF PruneSnapshots
    <3>2. Newest(history) \notin gone
      BY <2>2 DEF Bounded, Stale
    <3>3. QED
      BY <2>1, <2>2, <3>1, <3>2
  <2>5. ASSUME history' = history PROVE News
    BY <2>1, <2>2, <2>5
  <2>6. ASSUME NEW p \in Polls, handlePoll(p) \/ Stamp(p) \/ Rollback(p) PROVE history' = history
    BY <2>6 DEF handlePoll, Stamp, Rollback, storeVars
  <2>7. ASSUME Tick \/ PluginStep \/ UNCHANGED vars PROVE history' = history
    BY <2>7 DEF Tick, PluginStep, Send, StartSession, TakeAnswer, Vanish, vars, storeVars
  <2>8. ASSUME PruneEvents \/ PruneMarks \/ PruneSnapshotMarks \/ SweepFails PROVE history' = history
    BY <2>8 DEF PruneEvents, PruneMarks, PruneSnapshotMarks, SweepFails, storeVars
  <2> HIDE DEF News
  <2>9. QED
    BY <1>1, <2>3, <2>4, <2>5, <2>6, <2>7, <2>8 DEF Next, IngestStep, SweepStep
<1>2. NewsFit /\ NewsFit' /\ [Next]_vars => News
  BY <1>1
<1>3. QED
  BY NewsFitInit, NewsFitNext, <1>2, PTL DEF Spec, LatestIsNews
===============================================================================
