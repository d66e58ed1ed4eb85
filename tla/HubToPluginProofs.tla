-------------------------- MODULE HubToPluginProofs --------------------------
(***************************************************************************)
(* Theorems of HubToPlugin, for every set of envelopes, every limit and    *)
(* every number of sessions, polls and faults.                             *)
(***************************************************************************)
EXTENDS HubToPlugin, FiniteSetTheorems, SequenceTheorems, WellFoundedInduction, TLAPS

-------------------------------------------------------------------------------
(* Lemmas on the operators of the module *)

\* Every envelope, and every set of them the hub reads, is one of finitely many.
LEMMA MessagesFinite ==
  /\ IsFiniteSet(Messages)
  /\ \A S \in SUBSET Messages : IsFiniteSet(S) /\ Cardinality(S) \in Nat
<1>1. IsFiniteSet(Messages)
  BY MessagesAssumption, FS_Union DEF Messages
<1>2. QED
  BY <1>1, FS_Subset, FS_CardinalityType

\* Recording an id keeps a record of ids within its capacity (MarkExecuted).
LEMMA RecordedType ==
  ASSUME NEW record \in Seq(Actions), Len(record) <= LruCapacity, NEW a \in Actions
  PROVE  Recorded(record, a) \in Seq(Actions) /\ Len(Recorded(record, a)) <= LruCapacity
<1>1. Without(record, a) \in Seq(Actions) /\ Len(Without(record, a)) <= LruCapacity
  <2>1. CASE \E i \in 1..Len(record) : record[i] = a
    <3> DEFINE k == CHOOSE i \in 1..Len(record) : record[i] = a
    <3>1. k \in 1..Len(record)
      BY <2>1
    <3>2. Without(record, a) = SubSeq(record, 1, k - 1) \o SubSeq(record, k + 1, Len(record))
      BY <2>1 DEF Without, RemoveAt
    <3> HIDE DEF k
    <3>3. Len(record) \in Nat /\ k \in Nat /\ 1 <= k /\ k <= Len(record)
      BY <3>1
    <3>4. /\ SubSeq(record, 1, k - 1) \in Seq(Actions)
          /\ Len(SubSeq(record, 1, k - 1)) = k - 1
      BY <3>3, SubSeqProperties
    <3>5. /\ SubSeq(record, k + 1, Len(record)) \in Seq(Actions)
          /\ Len(SubSeq(record, k + 1, Len(record))) = Len(record) - k
      BY <3>3, SubSeqProperties
    <3>6. /\ Without(record, a) \in Seq(Actions)
          /\ Len(Without(record, a)) = (k - 1) + (Len(record) - k)
      BY <3>2, <3>4, <3>5, ConcatProperties
    <3>7. QED
      BY <3>6, <3>3, LimitsAssumption
  <2>2. CASE ~ \E i \in 1..Len(record) : record[i] = a
    BY <2>2 DEF Without
  <2>3. QED
    BY <2>1, <2>2
<1> DEFINE rest == Without(record, a)
           kept == IF Len(rest) >= LruCapacity THEN Tail(rest) ELSE rest
<1> HIDE DEF rest
<1>2. kept \in Seq(Actions) /\ Len(kept) < LruCapacity
  BY <1>1, LimitsAssumption DEF rest
<1>3. Recorded(record, a) = Append(kept, a)
  BY DEF Recorded, rest
<1> HIDE DEF kept
<1>4. QED
  BY <1>2, <1>3, LimitsAssumption

\* A boot reads a record but for a piece of it (LoadExecuted).
LEMMA RestoredShape ==
  ASSUME NEW record \in Seq(Actions), forgotten \subseteq Actions, Restore(record)
  PROVE  /\ executed' \in Seq(Actions) /\ Len(executed') <= Len(record)
         /\ forgotten \subseteq forgotten' /\ forgotten' \subseteq Actions
         /\ \E i, j \in 0..Len(record) :
              /\ i <= j /\ Len(executed') = Len(record) - (j - i)
              /\ \A k \in 1..Len(executed') :
                   executed'[k] = record[IF k <= i THEN k ELSE k + (j - i)]
              /\ \A k \in (i + 1)..j : record[k] \in forgotten'
<1>1. Len(record) \in Nat /\ \A k \in 1..Len(record) : record[k] \in Actions
  OBVIOUS
<1>2. CASE executed' = LoadedLog(record) /\ UNCHANGED forgotten
  <2>1. executed' = record /\ forgotten' = forgotten
    BY <1>2 DEF LoadedLog
  <2>2. 0 \in 0..Len(record) /\ Len(executed') = Len(record) - (0 - 0) /\ (0 + 1)..0 = {}
    BY <1>1, <2>1
  <2>3. \A k \in 1..Len(executed') :
          executed'[k] = record[IF k <= 0 THEN k ELSE k + (0 - 0)]
    BY <1>1, <2>1
  <2>4. QED
    BY <1>1, <2>1, <2>2, <2>3
<1>3. CASE ~(executed' = LoadedLog(record) /\ UNCHANGED forgotten)
  <2>1. PICK i, j \in 0..Len(record) :
          /\ i < j
          /\ executed' = SubSeq(record, 1, i) \o SubSeq(record, j + 1, Len(record))
          /\ forgotten' = forgotten \cup {record[k] : k \in (i + 1)..j}
    BY <1>3 DEF Restore
  <2> DEFINE low == SubSeq(record, 1, i)
             high == SubSeq(record, j + 1, Len(record))
  <2>2. i \in Nat /\ j \in Nat /\ i < j /\ j <= Len(record)
    BY <1>1, <2>1
  <2>3. low \in Seq(Actions) /\ Len(low) = i /\ \A k \in 1..i : low[k] = record[k]
    <3>1. /\ low \in Seq(Actions) /\ Len(low) = IF 1 <= i THEN i - 1 + 1 ELSE 0
          /\ \A k \in 1..(i - 1 + 1) : low[k] = record[1 + k - 1]
      BY <1>1, <2>2, SubSeqProperties
    <3> HIDE DEF low
    <3>2. QED
      BY <2>2, <3>1
  <2>4. /\ high \in Seq(Actions) /\ Len(high) = Len(record) - j
        /\ \A k \in 1..(Len(record) - j) : high[k] = record[j + k]
    <3>1. /\ high \in Seq(Actions)
          /\ Len(high) = IF j + 1 <= Len(record) THEN Len(record) - (j + 1) + 1 ELSE 0
          /\ \A k \in 1..(Len(record) - (j + 1) + 1) : high[k] = record[(j + 1) + k - 1]
      BY <1>1, <2>2, SubSeqProperties
    <3> HIDE DEF high
    <3>2. QED
      BY <1>1, <2>2, <3>1
  <2>5. executed' = low \o high
    BY <2>1
  <2> HIDE DEF low, high
  <2>6. /\ executed' \in Seq(Actions) /\ Len(executed') = Len(low) + Len(high)
        /\ \A k \in 1..(Len(low) + Len(high)) :
             executed'[k] = IF k <= Len(low) THEN low[k] ELSE high[k - Len(low)]
    BY <2>3, <2>4, <2>5, ConcatProperties
  <2>7. Len(executed') = Len(record) - (j - i) /\ Len(executed') <= Len(record)
    BY <1>1, <2>2, <2>3, <2>4, <2>6
  <2>8. ASSUME NEW k \in 1..Len(executed')
        PROVE  executed'[k] = record[IF k <= i THEN k ELSE k + (j - i)]
    <3>1. k \in 1..(Len(low) + Len(high)) /\ k \in Nat /\ 1 <= k
      BY <2>6
    <3>2. CASE k <= i
      BY <3>1, <3>2, <2>2, <2>3, <2>6
    <3>3. CASE ~(k <= i)
      <4>1. k - i \in 1..(Len(record) - j) /\ j + (k - i) = k + (j - i)
        BY <1>1, <3>1, <3>3, <2>2, <2>3, <2>4
      <4>2. executed'[k] = high[k - i]
        BY <3>1, <3>3, <2>3, <2>6
      <4>3. QED
        BY <3>3, <4>1, <4>2, <2>4
    <3>4. QED
      BY <3>2, <3>3
  <2>9. \A k \in (i + 1)..j : record[k] \in Actions /\ record[k] \in forgotten'
    BY <1>1, <2>1, <2>2
  <2>10. forgotten \subseteq forgotten' /\ forgotten' \subseteq Actions
    BY <2>1, <2>9
  <2>11. i <= j
    BY <2>2
  <2>12. QED
    BY <2>6, <2>7, <2>8, <2>9, <2>10, <2>11
<1>4. QED
  BY <1>2, <1>3

-------------------------------------------------------------------------------
(* Type correctness *)

\* The next numbers of a session are numbers (NextOutbound).
LEMMA NumberingType ==
  ASSUME NEW F \in SUBSET Messages, NEW f \in Numberings(F)
  PROVE  /\ Cardinality(F) \in Nat
         /\ \A m \in F : f[m] \in 1..Cardinality(F)
         /\ \A i \in 1..Cardinality(F) : \E m \in F : f[m] = i
         /\ \A m, n \in F : f[m] = f[n] => m = n
<1>1. Cardinality(F) \in Nat
  BY MessagesFinite
<1>2. f \in Injection(F, 1..Cardinality(F)) /\ f \in Surjection(F, 1..Cardinality(F))
  BY DEF Numberings, Bijection
<1>3. QED
  BY <1>1, <1>2 DEF Injection, Surjection, IsInjective

\* Answering a poll keeps the type of the polls in flight.
LEMMA AnswerType ==
  ASSUME TypeOK, NEW p \in Slots, NEW stage \in Stages, NEW batch \in Batches,
         Answer(p, stage, batch)
  PROVE  poll' \in [Slots -> [stage: Stages, sess: 0..used, ack: Nat, batch: Batches]]
<1>1. poll \in [Slots -> [stage: Stages, sess: 0..used, ack: Nat, batch: Batches]]
  BY DEF TypeOK
<1>2. poll' = [poll EXCEPT ![p] = [poll[p] EXCEPT !.stage = stage, !.batch = batch]]
  BY <1>1 DEF Answer
<1>3. [poll[p] EXCEPT !.stage = stage, !.batch = batch]
        \in [stage: Stages, sess: 0..used, ack: Nat, batch: Batches]
  BY <1>1
<1>4. QED
  BY <1>1, <1>2, <1>3

\* Every variable keeps its type.
THEOREM TypeCorrect == Spec => []TypeOK
<1>1. Init => TypeOK
  <2> SUFFICES ASSUME Init PROVE TypeOK
    OBVIOUS
  <2>1. <<>> \in Seq(Actions) /\ Len(<<>>) = 0
    OBVIOUS
  <2>2. NoBatch \in Batches
    BY DEF NoBatch, Batches
  <2>3. poll \in [Slots -> [stage: Stages, sess: 0..used, ack: Nat, batch: Batches]]
    BY <2>2 DEF Init, NoPoll, Stages, None
  <2>4. /\ executed \in Seq(Actions) /\ Len(executed) <= LruCapacity
        /\ log \in Seq(Actions) /\ Len(log) <= LruCapacity
    BY <2>1, LimitsAssumption DEF Init
  <2>5. faults \in 0..MaxFaults /\ used \in 0..MaxSessions
    BY LimitsAssumption DEF Init
  <2>6. /\ phase \in [Messages -> {"unborn", "pending", "acked", "retired"}]
        /\ home \in [Messages -> Sessions \cup {None}]
        /\ state \in [Actions -> {"none", "queued", "delivered", "expired"}]
        /\ polled \in BOOLEAN
    BY DEF Init
  <2>7. /\ seq \in [Messages -> Nat] /\ outSeq \in [Sessions -> Nat]
        /\ outAck \in [Sessions -> Nat] /\ runs \in [Actions -> Nat]
        /\ lateStarts \in Nat /\ inAck \in Nat /\ inbox \in Batches
    BY <2>2 DEF Init
  <2>8. /\ live \in 0..used /\ offer \in 0..used /\ token \in 0..used
        /\ overdue \subseteq Actions /\ forgotten \subseteq Actions /\ taken \subseteq Messages
    BY DEF Init, None
  <2>9. link \in Links /\ current \in Slots \cup {Nobody} /\ link # "poll"
    BY DEF Init, Links
  <2>10. QED
    BY <2>3, <2>4, <2>5, <2>6, <2>7, <2>8, <2>9 DEF TypeOK
<1>2. TypeOK /\ [Next]_vars => TypeOK'
  <2> SUFFICES ASSUME TypeOK, [Next]_vars PROVE TypeOK'
    OBVIOUS
  <2> USE LimitsAssumption
  <2> USE DEF TypeOK, rowVars, sessionVars, hubVars, linkVars, ledgerVars, None
  <2>1. ASSUME NEW a \in Actions, DispatchAction(a) PROVE TypeOK'
    BY <2>1 DEF DispatchAction, Messages
  <2>2. ASSUME NEW a \in Actions, ExpireOnRead(a) PROVE TypeOK'
    BY <2>2 DEF ExpireOnRead
  <2>3. ASSUME NEW a \in Actions, CrashInDispatch(a) PROVE TypeOK'
    <3>1. log' = Recorded(log, a) /\ log' \in Seq(Actions) /\ Len(log') <= LruCapacity
      BY <2>3, RecordedType DEF CrashInDispatch
    <3>2. NoBatch \in Batches /\ a \in Messages
      BY DEF NoBatch, Batches, Messages
    <3>3. /\ executed' \in Seq(Actions) /\ Len(executed') <= LruCapacity
          /\ forgotten' \subseteq Actions
      <4>1. Restore(Recorded(log, a)) /\ forgotten \subseteq Actions
        BY <2>3 DEF CrashInDispatch
      <4>2. /\ executed' \in Seq(Actions) /\ Len(executed') <= Len(Recorded(log, a))
            /\ forgotten' \subseteq Actions
        BY <3>1, <4>1, RestoredShape
      <4>3. Len(executed') \in Nat /\ Len(log') \in Nat
        BY <3>1, <4>2
      <4>4. QED
        BY <3>1, <4>2, <4>3
    <3>4. lateStarts' \in Nat /\ faults' \in 0..MaxFaults
      BY <2>3 DEF CrashInDispatch, Reboot, Fault
    <3>5. polled' \in BOOLEAN
      BY <2>3 DEF CrashInDispatch, Reboot
    <3>6. QED
      BY <2>3, <3>1, <3>2, <3>3, <3>4, <3>5 DEF CrashInDispatch, Reboot, Links
  <2>4. ASSUME NEW n \in Notices, QueueEnvelope(n) PROVE TypeOK'
    BY <2>4 DEF QueueEnvelope, Messages
  <2>5. ASSUME NEW a \in Expiring, PassDeadline(a) PROVE TypeOK'
    BY <2>5, MessagesAssumption DEF PassDeadline
  <2>6. CASE ExpireActions
    BY <2>6 DEF ExpireActions
  <2>7. CASE StartSession
    BY <2>7 DEF StartSession, Supersede, Links
  <2>8. CASE StartSessionLate
    BY <2>8 DEF StartSessionLate, Supersede
  <2>9. CASE EndSession
    BY <2>9 DEF EndSession, Fault
  <2>10. ASSUME NEW p \in Slots, HubStep(p) PROVE TypeOK'
    <3>1. NoBatch \in Batches
      BY DEF NoBatch, Batches
    <3> DEFINE Polls == [Slots -> [stage: Stages, sess: 0..used, ack: Nat, batch: Batches]]
    <3>2. CASE RefuseSession(p)
      <4>1. "session_invalid" \in Stages
        BY DEF Stages
      <4>2. poll' \in Polls
        BY <3>1, <3>2, <4>1, AnswerType DEF RefuseSession
      <4>3. QED
        BY <3>2, <4>2 DEF RefuseSession
    <3>3. CASE AckOutbound(p)
      <4> DEFINE s == poll[p].sess
                 stage == IF poll[p].ack <= outSeq[s] THEN "acked" ELSE "ack_out_of_range"
      <4>1. s \in Sessions
        BY <3>3 DEF AckOutbound, LiveSession, Sessions
      <4>2. outAck' \in [Sessions -> Nat]
        BY <3>3, <4>1 DEF AckOutbound
      <4>3. /\ phase' \in [Messages -> {"unborn", "pending", "acked", "retired"}]
            /\ state' \in [Actions -> {"none", "queued", "delivered", "expired"}]
        BY <3>3 DEF AckOutbound
      <4>4. Answer(p, stage, NoBatch) /\ stage \in Stages
        BY <3>3 DEF AckOutbound, Stages
      <4> HIDE DEF stage
      <4>5. poll' \in [Slots -> [stage: Stages, sess: 0..used, ack: Nat, batch: Batches]]
        BY <3>1, <4>4, AnswerType
      <4>6. QED
        BY <3>3, <4>2, <4>3, <4>5 DEF AckOutbound
    <3>4. CASE NextOutbound(p)
      <4> DEFINE s == poll[p].sess
                 batch == Oldest(Pending)
                 fresh == {m \in batch : ~KeepsNumber(m, s)}
      <4>1. s \in Sessions
        BY <3>4 DEF NextOutbound, LiveSession, Sessions
      <4>2. batch \subseteq Messages /\ fresh \subseteq Messages
        BY DEF Oldest, Pending
      <4>3. PICK f \in Numberings(fresh) :
              LET numbered == [m \in Messages |->
                                 IF m \in fresh THEN outSeq[s] + f[m] ELSE seq[m]]
              IN  /\ seq' = numbered
                  /\ Answer(p, "batch", [m \in Messages |->
                                           IF m \in batch THEN numbered[m] ELSE 0])
        BY <3>4 DEF NextOutbound
      <4> HIDE DEF batch, fresh
      <4>4. Cardinality(fresh) \in Nat /\ \A m \in fresh : f[m] \in Nat
        <5>1. f \in Numberings(fresh) /\ fresh \in SUBSET Messages
          BY <4>2, <4>3
        <5>2. Cardinality(fresh) \in Nat /\ \A m \in fresh : f[m] \in 1..Cardinality(fresh)
          BY <5>1, NumberingType
        <5>3. QED
          BY <5>2
      <4>5. seq' \in [Messages -> Nat] /\ Answer(p, "batch", [m \in Messages |->
                                           IF m \in batch THEN seq'[m] ELSE 0])
        BY <4>1, <4>3, <4>4
      <4>6. [m \in Messages |-> IF m \in batch THEN seq'[m] ELSE 0] \in Batches
        BY <4>5 DEF Batches
      <4>7. poll' \in [Slots -> [stage: Stages, sess: 0..used, ack: Nat, batch: Batches]]
        <5>1. "batch" \in Stages
          BY DEF Stages
        <5>2. QED
          BY <4>5, <4>6, <5>1, AnswerType
      <4>8. home' \in [Messages -> Sessions \cup {None}] /\ outSeq' \in [Sessions -> Nat]
        BY <3>4, <4>1, <4>4 DEF NextOutbound, batch, fresh
      <4>9. QED
        BY <3>4, <4>5, <4>7, <4>8 DEF NextOutbound
    <3>5. CASE AnswerEmpty(p)
      <4>1. "batch" \in Stages
        BY DEF Stages
      <4>2. poll' \in Polls
        BY <3>1, <3>5, <4>1, AnswerType DEF AnswerEmpty
      <4>3. QED
        BY <3>5, <4>2 DEF AnswerEmpty
    <3>6. QED
      BY <2>10, <3>2, <3>3, <3>4, <3>5 DEF HubStep
  <2>11. ASSUME NEW p \in Slots, Vanish(p) PROVE TypeOK'
    BY <2>11 DEF Vanish, NoPoll, NoBatch, Batches, Stages
  <2>12. ASSUME NEW p \in Slots, SendPoll(p) PROVE TypeOK'
    BY <2>12 DEF SendPoll, NoBatch, Batches, Stages, Links
  <2>13. CASE SendSession
    BY <2>13 DEF SendSession, Links
  <2>14. CASE RenewSession
    BY <2>14 DEF RenewSession, Links, Fault
  <2>15. CASE GiveUpSession
    BY <2>15 DEF GiveUpSession, Links, Fault
  <2>16. CASE TakeSession
    <3>1. inAck' \in Nat /\ token' \in 0..used /\ offer' \in 0..used
      BY <2>16 DEF TakeSession, AckAtStart, FirstAck
    <3>2. polled' \in BOOLEAN /\ link' = "idle"
      BY <2>16 DEF TakeSession
    <3>3. QED
      BY <2>16, <3>1, <3>2 DEF TakeSession, Links
  <2>17. CASE GiveUpPoll
    BY <2>17 DEF GiveUpPoll, Links, Fault
  <2>18. CASE TakeRefusal
    <3>1. NoPoll \in [stage: Stages, sess: 0..used, ack: Nat, batch: Batches]
      BY DEF NoPoll, NoBatch, Batches, Stages
    <3>2. QED
      BY <2>18, <3>1 DEF TakeRefusal, Links
  <2>19. CASE TakeAnswer
    <3>1. NoPoll \in [stage: Stages, sess: 0..used, ack: Nat, batch: Batches]
      BY DEF NoPoll, NoBatch, Batches, Stages
    <3>2. QED
      BY <2>19, <3>1 DEF TakeAnswer, Links
  <2>20. CASE WalkStep
    <3>1. ASSUME NEW m \in Messages PROVE [inbox EXCEPT ![m] = 0] \in Batches
      BY DEF Batches
    <3>2. ASSUME NEW m \in Messages, SkipEnvelope(m) PROVE TypeOK'
      BY <3>1, <3>2 DEF SkipEnvelope, Walk
    <3>3. ASSUME NEW n \in Notices, TakeNotice(n) PROVE TypeOK'
      BY <3>1, <3>3 DEF TakeNotice, Deliver, Walk, Messages, Batches
    <3>4. ASSUME NEW a \in Actions, TakeRepeat(a) PROVE TypeOK'
      BY <3>1, <3>4 DEF TakeRepeat, Deliver, Walk, Messages, Batches
    <3>5. ASSUME NEW a \in Actions, TakeDispatch(a) PROVE TypeOK'
      <4>1. /\ executed' \in Seq(Actions) /\ Len(executed') <= LruCapacity
            /\ log' \in Seq(Actions) /\ Len(log') <= LruCapacity
        BY <3>5, RecordedType DEF TakeDispatch, LogExecuted
      <4>2. forgotten' \in SUBSET Actions /\ faults' \in 0..MaxFaults /\ runs' \in [Actions -> Nat]
        BY <3>5 DEF TakeDispatch, LogExecuted, Fault
      <4>3. /\ taken' \subseteq Messages /\ inAck' \in Nat
            /\ inbox' \in Batches
        BY <3>5, <3>1 DEF TakeDispatch, Deliver, Walk, Messages, Batches
      <4>4. QED
        BY <3>5, <4>1, <4>2, <4>3 DEF TakeDispatch, Deliver
    <3>6. CASE EndOfBatch
      BY <3>6 DEF EndOfBatch, Links
    <3>7. QED
      BY <2>20, <3>2, <3>3, <3>4, <3>5, <3>6 DEF WalkStep
  <2>21. CASE DeferRest
    BY <2>21 DEF DeferRest, NoBatch, Batches, Fault
  <2>22. CASE Crash
    <3>1. /\ NoBatch \in Batches
          /\ executed' \in Seq(Actions) /\ Len(executed') <= LruCapacity
          /\ forgotten' \subseteq Actions
      <4>1. Restore(log)
        BY <2>22 DEF Crash
      <4>2. Len(executed') \in Nat
        BY <4>1, RestoredShape
      <4>3. QED
        BY <4>1, <4>2, RestoredShape DEF NoBatch, Batches
    <3>2. polled' \in BOOLEAN
      BY <2>22 DEF Crash, Reboot
    <3>3. lateStarts' \in Nat /\ faults' \in 0..MaxFaults
      BY <2>22 DEF Crash, Reboot, Fault
    <3>4. QED
      BY <2>22, <3>1, <3>2, <3>3 DEF Crash, Reboot, Links
  <2>23. CASE UNCHANGED vars
    BY <2>23 DEF vars
  <2>24. QED
    BY <2>1, <2>2, <2>3, <2>4, <2>5, <2>6, <2>7, <2>8, <2>9, <2>10, <2>11, <2>12, <2>13,
       <2>14, <2>15, <2>16, <2>17, <2>18, <2>19, <2>20, <2>21, <2>22, <2>23 DEF Next
<1>3. QED
  BY <1>1, <1>2, PTL DEF Spec

-------------------------------------------------------------------------------
(* The inductive invariant *)

\* Every step but a numbering leaves the acks earned and the batches sound.
LEMMA RowsKept ==
  ASSUME UNCHANGED <<home, seq, outSeq>>, taken \subseteq taken'
  PROVE  /\ \A s, a : Earned(s, a) => Earned(s, a)'
         /\ \A s, batch : Sound(s, batch) => Sound(s, batch)'
BY DEF Earned, Sound, Carried

\* ... and so does every step that touches neither a poll nor the plugin.
LEMMA AcksKept ==
  ASSUME AcksEarned, LinkShape, UNCHANGED <<home, seq, outSeq, taken>>,
         UNCHANGED <<poll, link, current, offer, token, inAck, inbox>>
  PROVE  AcksEarned' /\ LinkShape' /\ NeverOutOfRange' = NeverOutOfRange
BY DEF AcksEarned, LinkShape, Earned, Sound, Carried, NeverOutOfRange

LEMMA InductiveInit == Init => Inductive
<1> SUFFICES ASSUME Init PROVE Inductive
  OBVIOUS
<1>1. Numbered /\ Unique /\ Unstarted
  BY DEF Init, Numbered, Unique, Unstarted, Carried, NoPoll, NoBatch
<1>2. AcksEarned /\ LinkShape /\ NeverOutOfRange
  BY DEF Init, AcksEarned, LinkShape, NeverOutOfRange, NoPoll
<1>3. AckedMeansTaken /\ DeliveredMeansTaken /\ NoGap
  BY DEF Init, AckedMeansTaken, DeliveredMeansTaken, NoGap
<1>4. QED
  BY <1>1, <1>2, <1>3 DEF Inductive

\* The hub's writes to its queue and its actions outside a poll.
LEMMA InductiveQueue ==
  ASSUME TypeOK, Inductive,
         \/ \E a \in Actions : DispatchAction(a) \/ ExpireOnRead(a)
         \/ \E n \in Notices : QueueEnvelope(n)
         \/ \E a \in Expiring : PassDeadline(a)
         \/ ExpireActions
  PROVE  Inductive'
<1> USE DEF Inductive, rowVars, sessionVars, hubVars, linkVars, ledgerVars
<1>1. UNCHANGED <<home, seq, sessionVars, poll, linkVars, ledgerVars>>
  BY DEF DispatchAction, ExpireOnRead, QueueEnvelope, PassDeadline, ExpireActions
<1>2. AcksEarned' /\ LinkShape' /\ NeverOutOfRange'
  BY <1>1, AcksKept
<1>3. Unique' /\ Unstarted'
  BY <1>1 DEF Unique, Unstarted
<1>4. /\ \A m \in Messages : phase[m] \in {"pending", "acked"} /\ home[m] # None
                               => phase'[m] = phase[m]
      /\ \A m \in Messages : phase'[m] = "acked" => phase[m] = "acked"
      /\ \A a \in Actions : state'[a] = "delivered" => state[a] = "delivered"
  <2>1. CASE ExpireActions
    BY <2>1 DEF TypeOK, ExpireActions, Retirable
  <2>2. CASE (\E a \in Actions : DispatchAction(a)) \/ \E n \in Notices : QueueEnvelope(n)
    BY <2>2 DEF TypeOK, DispatchAction, QueueEnvelope, Insertable
  <2>3. CASE (\E a \in Actions : ExpireOnRead(a)) \/ \E a \in Expiring : PassDeadline(a)
    BY <2>3 DEF TypeOK, ExpireOnRead, PassDeadline
  <2>4. QED
    BY <2>1, <2>2, <2>3
<1>5. Numbered'
  BY <1>1, <1>4 DEF Numbered, Carried
<1>6. AckedMeansTaken' /\ DeliveredMeansTaken'
  BY <1>1, <1>4 DEF AckedMeansTaken, DeliveredMeansTaken
<1>7. NoGap'
  BY <1>1, <1>4 DEF NoGap, Pending
<1>8. QED
  BY <1>2, <1>3, <1>5, <1>6, <1>7

\* A session starts, is superseded, or ends.
LEMMA InductiveSession ==
  ASSUME TypeOK, Inductive, StartSession \/ StartSessionLate \/ EndSession
  PROVE  Inductive'
<1> USE DEF Inductive, rowVars, sessionVars, hubVars, linkVars, ledgerVars
<1>1. /\ UNCHANGED <<rowVars, outSeq, outAck, poll, current, token, inAck, inbox, taken>>
      /\ used' \in {used, used + 1}
  BY DEF StartSession, StartSessionLate, EndSession, Supersede
<1>2. Numbered' /\ Unique' /\ Unstarted'
  BY <1>1 DEF Numbered, Unique, Unstarted, Carried, TypeOK, Sessions, None
<1>3. AcksEarned'
  <2>1. link' = "inbox" => link = "inbox"
    BY DEF StartSession, StartSessionLate, EndSession
  <2>2. QED
    BY <1>1, <2>1 DEF AcksEarned, Earned, Sound, Carried
<1>4. LinkShape'
  BY <1>1 DEF LinkShape, StartSession, StartSessionLate, EndSession, Supersede, TypeOK, None
<1>5. AckedMeansTaken' /\ DeliveredMeansTaken' /\ NeverOutOfRange'
  BY <1>1 DEF AckedMeansTaken, DeliveredMeansTaken, NeverOutOfRange
<1>6. NoGap'
  <2>1. CASE live' = None
    BY <2>1 DEF NoGap
  <2>2. CASE live' = used + 1 /\ used < MaxSessions
    <3>1. live' \in Sessions /\ live' > used
      BY <2>2, LimitsAssumption DEF TypeOK, Sessions
    <3>2. outSeq'[live'] = 0 /\ outAck'[live'] = 0
      BY <1>1, <3>1 DEF Unstarted
    <3>3. QED
      BY <3>2 DEF NoGap
  <2>3. QED
    BY <2>1, <2>2 DEF StartSession, StartSessionLate, EndSession, Supersede
<1>7. QED
  BY <1>2, <1>3, <1>4, <1>5, <1>6

\* A poll is refused, answered empty, or forgotten.
LEMMA InductiveNoRead ==
  ASSUME TypeOK, Inductive, NEW p \in Slots,
         RefuseSession(p) \/ AnswerEmpty(p) \/ Vanish(p)
  PROVE  Inductive'
<1> USE DEF Inductive, rowVars, sessionVars, hubVars, linkVars, ledgerVars
<1>1. UNCHANGED <<hubVars, linkVars, ledgerVars>>
  BY DEF RefuseSession, AnswerEmpty, Vanish
<1>2. /\ Carried(NoBatch) = {}
      /\ Carried(NoPoll.batch) = {} /\ NoPoll.stage = "none"
  BY DEF Carried, NoBatch, NoPoll
<1>3. /\ \A q \in Slots : q # p => poll'[q] = poll[q]
      /\ \/ /\ poll'[p].sess = poll[p].sess /\ poll'[p].ack = poll[p].ack
            /\ poll'[p].batch = NoBatch /\ poll[p].stage # "none"
            /\ poll'[p].stage \in {"session_invalid", "batch"}
         \/ poll'[p] = NoPoll /\ p # current
  BY DEF RefuseSession, AnswerEmpty, Vanish, Answer, TypeOK
<1>4. Numbered' /\ Unique' /\ Unstarted'
  BY <1>1, <1>2, <1>3 DEF Numbered, Unique, Unstarted, Carried
<1>5. AcksEarned'
  BY <1>1, <1>2, <1>3, RowsKept DEF AcksEarned, Sound
<1>6. LinkShape' /\ NeverOutOfRange'
  BY <1>1, <1>2, <1>3 DEF LinkShape, NeverOutOfRange, TypeOK
<1>7. AckedMeansTaken' /\ DeliveredMeansTaken' /\ NoGap'
  BY <1>1 DEF AckedMeansTaken, DeliveredMeansTaken, NoGap, Pending
<1>8. QED
  BY <1>4, <1>5, <1>6, <1>7

\* An ack settles only rows it earned, and only below the recorded ack.
LEMMA InductiveAck ==
  ASSUME TypeOK, Inductive, NEW p \in Slots, AckOutbound(p)
  PROVE  Inductive'
<1> USE DEF Inductive, rowVars, sessionVars, hubVars, linkVars, ledgerVars
<1> DEFINE s == poll[p].sess
           a == poll[p].ack
           hit == IF AckAdvances(s, a) THEN Covered(s, a) ELSE {}
<1>1. /\ UNCHANGED <<home, seq, live, used, outSeq, linkVars, taken>>
      /\ s = live /\ s # None /\ poll[p].stage = "sent"
  BY DEF AckOutbound, LiveSession
<1>2. Earned(s, a)
  BY <1>1 DEF AcksEarned
<1>3. /\ \A q \in Slots : q # p => poll'[q] = poll[q]
      /\ poll'[p].sess = s /\ poll'[p].ack = a /\ poll'[p].batch = NoBatch
      /\ poll'[p].stage = "acked"
  BY <1>2 DEF AckOutbound, Answer, TypeOK, Earned
<1>4. /\ phase' = [m \in Messages |->
                     IF m \in hit /\ phase[m] = "pending" THEN "acked" ELSE phase[m]]
      /\ state' = [m \in Actions |->
                     IF m \in hit /\ state[m] = "queued" THEN "delivered" ELSE state[m]]
      /\ outAck' = IF AckAdvances(s, a) THEN [outAck EXCEPT ![s] = a] ELSE outAck
  BY DEF AckOutbound
<1>5. hit \subseteq taken
  BY <1>2 DEF Earned, Covered
<1>6. Carried(NoBatch) = {}
  BY DEF Carried, NoBatch
<1>7. Numbered'
  <2>1. \A m \in Messages : phase[m] \in {"pending", "acked"} => phase'[m] \in {"pending", "acked"}
    BY <1>4 DEF TypeOK
  <2>2. \A q \in Slots : Carried(poll'[q].batch) \subseteq Carried(poll[q].batch)
    BY <1>3, <1>6
  <2>3. QED
    BY <1>1, <2>1, <2>2 DEF Numbered, Carried
<1>8. Unique' /\ Unstarted'
  <2>1. s \in 0..used /\ s \in Sessions
    BY <1>1, LimitsAssumption DEF TypeOK, Sessions, None
  <2>2. QED
    BY <1>1, <1>4, <2>1 DEF Unique, Unstarted, TypeOK, Sessions
<1>9. AcksEarned' /\ LinkShape' /\ NeverOutOfRange'
  <2>1. AcksEarned'
    BY <1>1, <1>2, <1>3, <1>6, RowsKept DEF AcksEarned, Sound
  <2>2. QED
    BY <1>1, <1>3, <2>1 DEF LinkShape, NeverOutOfRange, TypeOK
<1>10. AckedMeansTaken' /\ DeliveredMeansTaken'
  BY <1>1, <1>4, <1>5 DEF AckedMeansTaken, DeliveredMeansTaken, Messages
<1>11. NoGap'
  <2> SUFFICES ASSUME NEW n \in (outAck'[s] + 1)..outSeq[s]
               PROVE  \E m \in Messages : phase'[m] = "pending" /\ home[m] = s /\ seq[m] = n
    BY <1>1 DEF NoGap, Pending
  <2>1. /\ s \in Sessions /\ a \in Nat /\ outAck[s] \in Nat /\ outSeq[s] \in Nat
        /\ outAck'[s] \in Nat /\ outAck'[s] >= outAck[s] /\ n \in Nat
        /\ (AckAdvances(s, a) => outAck'[s] = a)
    <3>1. s \in Sessions /\ a \in Nat /\ outAck[s] \in Nat /\ outSeq[s] \in Nat
      BY <1>1, LimitsAssumption DEF TypeOK, Sessions, None
    <3>2. /\ AckAdvances(s, a) => outAck'[s] = a
          /\ ~AckAdvances(s, a) => outAck'[s] = outAck[s]
      BY <1>4, <3>1 DEF TypeOK
    <3>3. QED
      BY <3>1, <3>2 DEF AckAdvances
  <2>2. PICK m \in Pending : home[m] = s /\ seq[m] = n
    BY <1>1, <2>1 DEF NoGap
  <2>3. m \notin hit
    BY <2>1, <2>2 DEF Covered
  <2>4. QED
    BY <1>4, <2>2, <2>3 DEF Pending
<1>12. QED
  BY <1>7, <1>8, <1>9, <1>10, <1>11

\* A read numbers fresh rows above everything its session issued, and no other.
LEMMA InductiveRead ==
  ASSUME TypeOK, TypeOK', Inductive, NEW p \in Slots, NextOutbound(p)
  PROVE  Inductive'
<1> USE DEF Inductive, rowVars, sessionVars, hubVars, linkVars, ledgerVars
<1>0. PICK s \in Sessions : s = poll[p].sess /\ s = live /\ s # None /\ s <= used
  BY LimitsAssumption DEF NextOutbound, LiveSession, TypeOK, Sessions, None
<1> DEFINE batch == Oldest(Pending)
           fresh == {m \in batch : ~KeepsNumber(m, s)}
<1>1. /\ UNCHANGED <<phase, state, live, used, outAck, linkVars, taken>>
      /\ s = live /\ s # None /\ poll[p].sess = s /\ poll[p].stage = "acked"
      /\ home' = [m \in Messages |-> IF m \in batch THEN s ELSE home[m]]
      /\ outSeq' = [outSeq EXCEPT ![s] = @ + Cardinality(fresh)]
  BY <1>0 DEF NextOutbound
<1>2. /\ s \in Sessions /\ s <= used /\ outSeq[s] \in Nat /\ poll[p].ack \in Nat
  BY <1>0 DEF TypeOK
<1>3. /\ fresh \subseteq batch
      /\ batch \subseteq Pending /\ batch \subseteq Messages /\ fresh \in SUBSET Messages
      /\ \A m \in batch : m \notin fresh <=> home[m] = s
  BY DEF Oldest, Pending, KeepsNumber
<1>4. PICK f \in Numberings(fresh) :
        LET numbered == [m \in Messages |->
                           IF m \in fresh THEN outSeq[s] + f[m] ELSE seq[m]]
        IN  /\ seq' = numbered
            /\ Answer(p, "batch", [m \in Messages |->
                                     IF m \in batch THEN numbered[m] ELSE 0])
  <2>1. fresh = {m \in Oldest(Pending) : ~KeepsNumber(m, poll[p].sess)}
    BY <1>0 DEF fresh, batch
  <2>2. QED
    BY ONLY NextOutbound(p), <1>0, <2>1 DEF NextOutbound, batch
<1> HIDE DEF batch, fresh
<1>5. /\ Cardinality(fresh) \in Nat
      /\ \A m \in fresh : f[m] \in Nat /\ f[m] >= 1 /\ f[m] <= Cardinality(fresh)
      /\ \A i \in 1..Cardinality(fresh) : \E m \in fresh : f[m] = i
      /\ \A m, n \in fresh : f[m] = f[n] => m = n
  BY <1>3, NumberingType
<1>6. /\ seq' = [m \in Messages |-> IF m \in fresh THEN outSeq[s] + f[m] ELSE seq[m]]
      /\ \A q \in Slots : q # p => poll'[q] = poll[q]
      /\ poll'[p].sess = s /\ poll'[p].ack = poll[p].ack
      /\ poll'[p].stage = "batch"
      /\ poll'[p].batch = [m \in Messages |-> IF m \in batch THEN seq'[m] ELSE 0]
  BY <1>1, <1>4 DEF Answer, TypeOK
<1>7. /\ \A r \in Sessions : r # s => outSeq'[r] = outSeq[r]
      /\ outSeq'[s] = outSeq[s] + Cardinality(fresh)
  BY <1>1, <1>2 DEF TypeOK
\* The rows of session s after the step: its old ones, unmoved, and fresh ones.
<1>8. /\ \A m \in Messages : home'[m] = s /\ m \notin fresh => home[m] = s /\ seq'[m] = seq[m]
      /\ \A m \in fresh : home'[m] = s /\ seq'[m] = outSeq[s] + f[m]
      /\ \A m \in Messages : home'[m] # s => home'[m] = home[m] /\ seq'[m] = seq[m]
  BY <1>1, <1>3, <1>6
<1>9. \A m \in Messages : home[m] # None =>
         home[m] \in Sessions /\ seq[m] \in Nat /\ seq[m] >= 1 /\ seq[m] <= outSeq[home[m]]
  BY DEF Numbered, TypeOK, None
<1>10. Numbered'
  <2>1. ASSUME NEW m \in Messages, home'[m] # None
        PROVE  /\ home'[m] <= used' /\ seq'[m] \in 1..outSeq'[home'[m]]
               /\ phase'[m] \in {"pending", "acked"}
    <3>1. CASE m \in fresh
      <4>1. /\ f[m] \in Nat /\ f[m] >= 1 /\ f[m] <= Cardinality(fresh)
            /\ phase[m] = "pending"
        BY <3>1, <1>3, <1>5 DEF Pending
      <4>2. QED
        BY <3>1, <4>1, <1>1, <1>2, <1>5, <1>7, <1>8
    <3>2. CASE m \notin fresh /\ home'[m] = s
      BY <3>2, <1>1, <1>2, <1>5, <1>7, <1>8, <1>9 DEF Numbered
    <3>3. CASE home'[m] # s
      BY <3>3, <2>1, <1>1, <1>7, <1>8, <1>9 DEF Numbered
    <3>4. QED
      BY <3>1, <3>2, <3>3
  <2>2. ASSUME NEW m \in Messages, home'[m] = None
        PROVE  /\ m \notin taken' /\ m \notin Carried(inbox')
               /\ \A q \in Slots : m \notin Carried(poll'[q].batch)
    <3>1. home[m] = None /\ m \notin batch
      BY <2>2, <1>1, <1>8
    <3>2. poll'[p].batch[m] = 0
      BY <3>1, <1>6
    <3>3. QED
      BY <3>1, <3>2, <1>1, <1>6 DEF Numbered, Carried
  <2>3. QED
    BY <2>1, <2>2 DEF Numbered, Carried
<1>11. Unique'
  <2> SUFFICES ASSUME NEW m \in Messages, NEW n \in Messages,
                      home'[m] # None, home'[m] = home'[n], seq'[m] = seq'[n]
               PROVE  m = n
    BY DEF Unique
  <2>1. CASE home'[m] # s
    BY <2>1, <1>8 DEF Unique
  <2>2. CASE home'[m] = s /\ m \in fresh /\ n \in fresh
    BY <2>2, <1>2, <1>5, <1>8
  <2>3. CASE home'[m] = s /\ m \notin fresh /\ n \notin fresh
    <3>1. home[m] = s /\ home[n] = s /\ seq[m] = seq[n]
      BY <2>3, <1>8
    <3>2. QED
      BY <3>1, <1>0 DEF Unique
  <2>4. ASSUME NEW i \in fresh, NEW j \in Messages \ fresh, home'[j] = s
        PROVE  seq'[i] # seq'[j]
    <3>1. seq'[j] \in Nat /\ seq'[j] <= outSeq[s]
      BY <2>4, <1>0, <1>8, <1>9
    <3>2. f[i] \in Nat /\ f[i] >= 1 /\ seq'[i] = outSeq[s] + f[i]
      BY <1>5, <1>8
    <3>3. QED
      BY <3>1, <3>2, <1>2
  <2>5. CASE home'[m] = s /\ ~(m \in fresh <=> n \in fresh)
    BY <2>4, <2>5
  <2>6. QED
    BY <2>1, <2>2, <2>3, <2>4, <2>5
<1>12. Unstarted'
  BY <1>1, <1>2, <1>7 DEF Unstarted, TypeOK, Sessions
<1>13. ASSUME NEW r \in Sessions, NEW a \in Nat, Earned(r, a) PROVE Earned(r, a)'
  <2>1. a <= outSeq'[r]
    <3>1. a <= outSeq[r] /\ outSeq[r] \in Nat
      BY <1>13 DEF Earned, TypeOK
    <3>2. QED
      BY <3>1, <1>2, <1>5, <1>7
  <2>2. ASSUME NEW m \in Messages, home'[m] = r, seq'[m] <= a PROVE m \in taken'
    <3>1. CASE r = s /\ m \in fresh
      <4>1. f[m] \in Nat /\ f[m] >= 1 /\ a <= outSeq[s] /\ seq'[m] = outSeq[s] + f[m]
        BY <3>1, <1>5, <1>8, <1>13 DEF Earned
      <4>2. FALSE
        BY <4>1, <2>2, <1>2
      <4>3. QED
        BY <4>2
    <3>2. CASE ~(r = s /\ m \in fresh)
      BY <3>2, <2>2, <1>1, <1>8, <1>13 DEF Earned
    <3>3. QED
      BY <3>1, <3>2
  <2>3. QED
    BY <2>1, <2>2 DEF Earned
<1>14. ASSUME NEW r \in Sessions, NEW b \in Batches, Sound(r, b) PROVE Sound(r, b)'
  <2> SUFFICES ASSUME NEW m \in Carried(b)
               PROVE  /\ b[m] <= outSeq'[r]
                      /\ \A n \in Messages : home'[n] = r /\ seq'[n] = b[m] => n = m
    BY DEF Sound, Carried
  <2>1. b[m] \in Nat /\ b[m] <= outSeq[r] /\ outSeq[r] \in Nat
    BY <1>14 DEF Sound, Carried, Batches, TypeOK
  <2>2. b[m] <= outSeq'[r]
    BY <2>1, <1>2, <1>5, <1>7
  <2>3. ASSUME NEW n \in Messages, home'[n] = r, seq'[n] = b[m] PROVE n = m
    <3>1. CASE r = s /\ n \in fresh
      <4>1. f[n] \in Nat /\ f[n] >= 1 /\ seq'[n] = outSeq[s] + f[n]
        BY <3>1, <1>5, <1>8
      <4>2. QED
        BY <3>1, <4>1, <2>1, <2>3
    <3>2. CASE ~(r = s /\ n \in fresh)
      <4>1. home[n] = r /\ seq[n] = b[m]
        BY <3>2, <2>3, <1>8
      <4>2. QED
        BY <4>1, <1>14 DEF Sound
    <3>3. QED
      BY <3>1, <3>2
  <2>4. QED
    BY <2>2, <2>3
<1>15. ASSUME NEW b, b = poll'[p].batch PROVE Sound(s, b)'
  <2> SUFFICES ASSUME NEW m \in Messages, b[m] # 0
               PROVE  /\ b[m] <= outSeq'[s]
                      /\ \A n \in Messages : home'[n] = s /\ seq'[n] = b[m] => n = m
    BY DEF Sound, Carried
  <2>1. m \in batch /\ b[m] = seq'[m] /\ home'[m] = s
    BY <1>1, <1>6, <1>15
  <2>2. QED
    BY <2>1, <1>1, <1>10, <1>11 DEF Numbered, Unique
<1>16. AcksEarned'
  <2>1. ASSUME token # None PROVE Earned(token, inAck)'
    <3>1. PICK r \in Sessions, a \in Nat : r = token /\ a = inAck
      BY <2>1, LimitsAssumption DEF TypeOK, Sessions, None
    <3>2. Earned(r, a)'
      BY <2>1, <3>1, <1>13 DEF AcksEarned
    <3>3. QED
      BY <3>1, <3>2, <1>1 DEF Earned
  <2>2. ASSUME link = "inbox" PROVE Sound(token, inbox)'
    <3>1. PICK r \in Sessions, b \in Batches : r = token /\ b = inbox
      BY <2>2, LimitsAssumption DEF TypeOK, LinkShape, Sessions, None
    <3>2. Sound(r, b)'
      BY <2>2, <3>1, <1>14 DEF AcksEarned
    <3>3. QED
      BY <3>1, <3>2, <1>1 DEF Sound, Carried
  <2>3. ASSUME NEW q \in Slots, poll'[q].stage # "none"
        PROVE  /\ poll'[q].sess # None
               /\ Earned(poll[q].sess, poll[q].ack)'
               /\ Sound(poll[q].sess, poll[q].batch)'
    <3>1. /\ poll[q].stage # "none" /\ poll'[q].sess = poll[q].sess
          /\ poll'[q].ack = poll[q].ack
      BY <2>3, <1>1, <1>6
    <3>2. PICK r \in Sessions, a \in Nat : r = poll[q].sess /\ a = poll[q].ack /\ r # None
      <4>1. poll[q].sess \in 0..used /\ poll[q].ack \in Nat /\ poll[q].sess # None
        BY <3>1 DEF AcksEarned, TypeOK
      <4>2. used \in Nat /\ used <= MaxSessions
        BY LimitsAssumption DEF TypeOK
      <4>3. poll[q].sess \in Sessions
        BY <4>1, <4>2, LimitsAssumption DEF Sessions, None
      <4>4. QED
        BY <4>1, <4>3
    <3>3. Earned(r, a)'
      BY <3>1, <3>2, <1>13 DEF AcksEarned
    <3>4. PICK b \in Batches : b = poll'[q].batch
      BY DEF TypeOK
    <3>5. Sound(r, b)'
      <4>1. CASE q = p
        BY <4>1, <3>2, <3>4, <1>1, <1>15
      <4>2. CASE q # p
        BY <4>2, <3>1, <3>2, <3>4, <1>6, <1>14 DEF AcksEarned
      <4>3. QED
        BY <4>1, <4>2
    <3>6. QED
      BY <3>1, <3>2, <3>3, <3>4, <3>5 DEF Earned, Sound, Carried
  <2>4. QED
    BY <2>1, <2>2, <2>3, <1>1 DEF AcksEarned
<1>17. LinkShape' /\ NeverOutOfRange'
  <2>1. \A q \in Slots :
          /\ poll'[q].sess = poll[q].sess
          /\ poll'[q].stage \in {poll[q].stage, "batch"}
    BY <1>1, <1>6
  <2>2. NeverOutOfRange'
    BY <2>1 DEF NeverOutOfRange
  <2>3. link' = link /\ current' = current /\ token' = token /\ offer' = offer
    BY <1>1
  <2>4. link = "poll" => current \in Slots
    BY DEF TypeOK
  <2>5. link = "poll" => poll'[current].stage # "none" /\ poll'[current].sess = token
    BY <2>1, <2>4 DEF LinkShape
  <2>6. LinkShape'
    BY <2>3, <2>5 DEF LinkShape
  <2>7. QED
    BY <2>2, <2>6
<1>18. AckedMeansTaken' /\ DeliveredMeansTaken'
  BY <1>1 DEF AckedMeansTaken, DeliveredMeansTaken
<1>19. NoGap'
  <2> SUFFICES ASSUME NEW n \in (outAck[s] + 1)..outSeq'[s]
               PROVE  \E m \in Pending : home'[m] = s /\ seq'[m] = n
    BY <1>1 DEF NoGap, Pending
  <2>1. outAck[s] \in Nat /\ n \in Nat /\ n >= outAck[s] + 1
    <3>1. outAck[s] \in Nat
      BY <1>2 DEF TypeOK
    <3>2. QED
      BY <3>1
  <2>2. CASE n <= outSeq[s]
    <3>1. PICK m \in Pending : home[m] = s /\ seq[m] = n
      BY <2>1, <2>2, <1>1, <1>2 DEF NoGap
    <3>2. m \notin fresh /\ m \in Messages
      BY <3>1 DEF fresh, KeepsNumber, Pending
    <3>3. QED
      BY <3>1, <3>2, <1>1, <1>6
  <2>3. CASE n > outSeq[s]
    <3>1. n - outSeq[s] \in 1..Cardinality(fresh)
      BY <2>1, <2>3, <1>2, <1>5, <1>7
    <3>2. PICK m \in fresh : f[m] = n - outSeq[s]
      BY <3>1, <1>5
    <3>3. m \in Pending /\ home'[m] = s /\ seq'[m] = outSeq[s] + (n - outSeq[s])
      BY <3>2, <1>3, <1>8 DEF fresh
    <3>4. QED
      BY <3>3, <2>1, <1>2
  <2>4. QED
    BY <2>1, <2>2, <2>3, <1>2
<1>20. QED
  BY <1>10, <1>11, <1>12, <1>16, <1>17, <1>18, <1>19

\* What the plugin does between two deliveries: it sends, gives up, takes an
\* answer, walks past an envelope it will not take, or loses its memory.
LEMMA InductiveLink ==
  ASSUME TypeOK, TypeOK', Inductive,
         \/ SendSession \/ RenewSession \/ GiveUpSession \/ TakeSession
         \/ \E p \in Slots : SendPoll(p)
         \/ GiveUpPoll \/ TakeRefusal \/ TakeAnswer
         \/ \E m \in Messages : SkipEnvelope(m)
         \/ EndOfBatch \/ DeferRest \/ Crash
  PROVE  Inductive'
<1> USE DEF Inductive, rowVars, sessionVars, hubVars, linkVars, ledgerVars
<1>1. UNCHANGED <<hubVars, taken>>
  BY DEF SendSession, RenewSession, GiveUpSession, TakeSession, SendPoll, GiveUpPoll,
         TakeRefusal, TakeAnswer, SkipEnvelope, EndOfBatch, DeferRest, Crash, Reboot
<1>2. Unique' /\ Unstarted' /\ AckedMeansTaken' /\ DeliveredMeansTaken' /\ NoGap'
  BY <1>1 DEF Unique, Unstarted, AckedMeansTaken, DeliveredMeansTaken, NoGap, Pending
<1>3. /\ Carried(NoBatch) = {}
      /\ NoPoll.stage = "none" /\ Carried(NoPoll.batch) = {}
  BY DEF Carried, NoBatch, NoPoll
\* An envelope on its way to the plugin was on its way before.
<1>4. /\ \A m \in Carried(inbox') :
           m \in Carried(inbox) \/ \E p \in Slots : m \in Carried(poll[p].batch)
      /\ \A p \in Slots, m \in Messages :
           m \in Carried(poll'[p].batch) => m \in Carried(poll[p].batch)
  <2>1. CASE SendSession \/ RenewSession \/ GiveUpSession \/ TakeSession \/ GiveUpPoll
             \/ EndOfBatch
    BY <2>1 DEF SendSession, RenewSession, GiveUpSession, TakeSession, GiveUpPoll, EndOfBatch
  <2>2. ASSUME NEW p \in Slots, SendPoll(p)
        PROVE  /\ inbox' = inbox
               /\ \A q \in Slots : poll'[q].batch = poll[q].batch \/ poll'[q].batch = NoBatch
    BY <2>2 DEF SendPoll, TypeOK
  <2>3. CASE TakeRefusal
    BY <2>3, <1>3 DEF TakeRefusal, TypeOK
  <2>4. CASE TakeAnswer
    BY <2>4, <1>3 DEF TakeAnswer, TypeOK
  <2>5. ASSUME NEW m \in Messages, SkipEnvelope(m)
        PROVE  poll' = poll /\ inbox' = [inbox EXCEPT ![m] = 0]
    BY <2>5 DEF SkipEnvelope, Walk
  <2>6. CASE DeferRest \/ Crash
    BY <2>6, <1>3 DEF DeferRest, Crash, Reboot
  <2>7. \A m \in Messages : Carried([inbox EXCEPT ![m] = 0]) \subseteq Carried(inbox)
    BY DEF Carried, TypeOK, Batches
  <2>8. QED
    BY <2>1, <2>2, <2>3, <2>4, <2>5, <2>6, <2>7, <1>3
<1>5. Numbered'
  BY <1>1, <1>4 DEF Numbered
<1>6. \A s, a : Earned(s, a) => Earned(s, a)'
  BY <1>1, RowsKept
<1>7. \A s, batch : Sound(s, batch) => Sound(s, batch)'
  BY <1>1, RowsKept
<1>8. ASSUME SendSession \/ RenewSession \/ GiveUpSession \/ GiveUpPoll \/ EndOfBatch
      PROVE  AcksEarned' /\ LinkShape' /\ NeverOutOfRange'
  <2>1. /\ UNCHANGED <<poll, inAck, inbox>> /\ link' # "inbox" /\ link' # "poll"
        /\ token' \in {token, None} /\ (link' = "offered" => offer' # None)
    BY <1>8 DEF SendSession, RenewSession, GiveUpSession, GiveUpPoll, EndOfBatch
  <2>2. QED
    BY <2>1, <1>1 DEF AcksEarned, LinkShape, NeverOutOfRange, Earned, Sound, Carried
<1>9. ASSUME TakeSession PROVE AcksEarned' /\ LinkShape' /\ NeverOutOfRange'
  <2>1. /\ UNCHANGED poll /\ token' \in Sessions /\ inAck' = 0 /\ link' = "idle"
    BY <1>9, LimitsAssumption
       DEF TakeSession, AckAtStart, FirstAck, LinkShape, TypeOK, Sessions, None
  <2>2. Earned(token, inAck)'
    <3>1. 0 <= outSeq[token']
      BY <2>1 DEF TypeOK
    <3>2. \A m \in Messages : home[m] = token' => ~(seq[m] <= 0)
      <4>1. token' # None
        BY <2>1 DEF Sessions, None
      <4>2. \A m \in Messages : home[m] # None => seq[m] >= 1
        BY DEF Numbered
      <4>3. seq \in [Messages -> Nat]
        BY DEF TypeOK
      <4>4. QED
        BY <4>1, <4>2, <4>3
    <3>3. QED
      BY <2>1, <3>1, <3>2, <1>1 DEF Earned
  <2>3. QED
    BY <2>1, <2>2, <1>1 DEF AcksEarned, LinkShape, NeverOutOfRange, Earned, Sound, Carried
<1>10. ASSUME NEW p \in Slots, SendPoll(p) PROVE AcksEarned' /\ LinkShape' /\ NeverOutOfRange'
  <2>1. /\ UNCHANGED <<token, inAck>> /\ token # None /\ link' = "poll" /\ current' = p
        /\ \A q \in Slots : q # p => poll'[q] = poll[q]
        /\ poll'[p].stage = "sent" /\ poll'[p].sess = token
        /\ poll'[p].ack = inAck /\ poll'[p].batch = NoBatch
    BY <1>10 DEF SendPoll, TypeOK
  <2>2. QED
    BY <2>1, <1>1, <1>3, <1>6, <1>7
       DEF AcksEarned, LinkShape, NeverOutOfRange, Earned, Sound
<1>11. ASSUME TakeRefusal \/ TakeAnswer PROVE AcksEarned' /\ LinkShape' /\ NeverOutOfRange'
  <2>1. /\ current \in Slots /\ link = "poll" /\ poll'[current] = NoPoll
        /\ \A q \in Slots : q # current => poll'[q] = poll[q]
        /\ inAck' = inAck
        /\ \/ token' = None /\ link' = "idle"
           \/ token' = token /\ link' = "inbox" /\ inbox' = poll[current].batch
    BY <1>11 DEF TakeRefusal, TakeAnswer, TypeOK
  <2>2. link' = "inbox" => Sound(token, inbox')
    BY <2>1 DEF AcksEarned, LinkShape
  <2>3. QED
    BY <2>1, <2>2, <1>1, <1>3 DEF AcksEarned, LinkShape, NeverOutOfRange, Earned, Sound, Carried
<1>12. ASSUME NEW m \in Messages, SkipEnvelope(m)
       PROVE  AcksEarned' /\ LinkShape' /\ NeverOutOfRange'
  <2>1. /\ UNCHANGED <<poll, link, current, offer, token, inAck>> /\ link = "inbox"
        /\ inbox' = [inbox EXCEPT ![m] = 0]
    BY <1>12 DEF SkipEnvelope, Walk, InArrivalOrder
  <2>2. \A n \in Carried(inbox') : n \in Carried(inbox) /\ inbox'[n] = inbox[n]
    BY <2>1 DEF Carried, TypeOK, Batches
  <2>3. QED
    BY <2>1, <2>2, <1>1 DEF AcksEarned, LinkShape, NeverOutOfRange, Earned, Sound, Carried
<1>13. ASSUME DeferRest \/ Crash PROVE AcksEarned' /\ LinkShape' /\ NeverOutOfRange'
  <2>1. /\ UNCHANGED poll /\ inbox' = NoBatch
        /\ \/ UNCHANGED <<link, current, offer, token, inAck>> /\ link = "inbox"
           \/ link' = "idle" /\ token' = None
    BY <1>13 DEF DeferRest, Crash, Reboot, InArrivalOrder
  <2>2. QED
    BY <2>1, <1>1, <1>3 DEF AcksEarned, LinkShape, NeverOutOfRange, Earned, Sound, Carried
<1>14. AcksEarned' /\ LinkShape' /\ NeverOutOfRange'
  BY <1>8, <1>9, <1>10, <1>11, <1>12, <1>13
<1>15. QED
  BY <1>2, <1>5, <1>14

\* A delivery advances the ack by one, to the number of the row it takes.
LEMMA InductiveDelivery ==
  ASSUME TypeOK, TypeOK', Inductive,
         \/ \E n \in Notices : TakeNotice(n)
         \/ \E a \in Actions : TakeRepeat(a) \/ TakeDispatch(a) \/ CrashInDispatch(a)
  PROVE  Inductive'
<1> USE DEF Inductive, rowVars, sessionVars, hubVars, linkVars, ledgerVars
<1>1. PICK m \in Messages :
        /\ InArrivalOrder(m) /\ inbox[m] = inAck + 1
        /\ UNCHANGED <<hubVars, poll>>
        /\ taken' = taken \cup {m}
        /\ \/ /\ UNCHANGED <<link, current, offer, token>>
              /\ inAck' = inbox[m] /\ inbox' = [inbox EXCEPT ![m] = 0]
           \/ link' = "idle" /\ token' = None /\ inbox' = NoBatch
  BY DEF TakeNotice, TakeRepeat, TakeDispatch, CrashInDispatch, Deliver, NextInSeq, Walk, Reboot,
         Messages
<1>2. /\ link = "inbox" /\ token # None /\ token \in Sessions
      /\ m \in Carried(inbox) /\ home[m] # None
  BY <1>1, LimitsAssumption DEF InArrivalOrder, LinkShape, TypeOK, Sessions, None, Numbered
<1>3. Unique' /\ Unstarted' /\ AckedMeansTaken' /\ DeliveredMeansTaken' /\ NoGap'
  BY <1>1 DEF Unique, Unstarted, AckedMeansTaken, DeliveredMeansTaken, NoGap, Pending
<1>4. \A n \in Carried(inbox') : n \in Carried(inbox) /\ inbox'[n] = inbox[n]
  BY <1>1 DEF Carried, TypeOK, Batches, NoBatch
<1>5. Numbered'
  BY <1>1, <1>2, <1>4 DEF Numbered, Carried
\* Whatever the new ack covers was taken before, or is m.
<1>6. token' # None => Earned(token, inAck)'
  <2> SUFFICES ASSUME token' # None PROVE Earned(token, inAck)'
    OBVIOUS
  <2>1. token' = token /\ inAck' = inbox[m] /\ inAck' = inAck + 1 /\ inAck \in Nat
    BY <1>1 DEF TypeOK
  <2>2. Earned(token, inAck) /\ Sound(token, inbox)
    BY <1>2 DEF AcksEarned
  <2>3. inAck' <= outSeq[token]
    BY <2>1, <2>2, <1>2 DEF Sound
  <2>4. ASSUME NEW n \in Messages, home[n] = token, seq[n] <= inAck' PROVE n \in taken'
    <3>1. CASE seq[n] <= inAck
      BY <3>1, <2>2, <2>4, <1>1 DEF Earned
    <3>2. CASE seq[n] = inbox[m]
      BY <3>2, <2>2, <2>4, <1>1, <1>2 DEF Sound
    <3>3. seq[n] \in Nat
      BY DEF TypeOK
    <3>4. QED
      BY <3>1, <3>2, <3>3, <2>1, <2>4
  <2>5. QED
    BY <2>1, <2>3, <2>4, <1>1 DEF Earned
<1>7. /\ \A s, a : Earned(s, a) => Earned(s, a)'
      /\ \A s, batch : Sound(s, batch) => Sound(s, batch)'
  BY <1>1, RowsKept
<1>8. link' = "inbox" => Sound(token, inbox)'
  BY <1>1, <1>2, <1>4 DEF AcksEarned, Sound, Carried
<1>9. AcksEarned'
  BY <1>1, <1>6, <1>7, <1>8 DEF AcksEarned, Earned, Sound, Carried
<1>10. LinkShape' /\ NeverOutOfRange'
  BY <1>1, <1>2 DEF LinkShape, NeverOutOfRange
<1>11. QED
  BY <1>3, <1>5, <1>9, <1>10

\* The inductive invariant holds of every reachable state.
THEOREM InductiveInvariant == Spec => []Inductive
<1>1. Init => Inductive
  BY InductiveInit
<1>2. TypeOK /\ TypeOK' /\ Inductive /\ [Next]_vars => Inductive'
  <2> SUFFICES ASSUME TypeOK, TypeOK', Inductive, [Next]_vars PROVE Inductive'
    OBVIOUS
  <2>1. CASE UNCHANGED vars
    <3>1. UNCHANGED <<phase, home, seq, state, live, used, outSeq, outAck, poll, link,
                      current, offer, token, inAck, inbox, taken>>
      BY <2>1 DEF vars, hubVars, rowVars, sessionVars, linkVars, ledgerVars
    <3>2. QED
      BY <3>1 DEF Inductive, Numbered, Unique, Unstarted, AcksEarned, Earned, Sound, Carried,
                  LinkShape, AckedMeansTaken, DeliveredMeansTaken, NoGap, Pending,
                  NeverOutOfRange
  <2>2. CASE Next
    BY <2>2, InductiveQueue, InductiveSession, InductiveNoRead, InductiveAck, InductiveRead,
       InductiveLink, InductiveDelivery DEF Next, HubStep, WalkStep
  <2>3. QED
    BY <2>1, <2>2
<1>3. QED
  BY <1>1, <1>2, TypeCorrect, PTL DEF Spec

-------------------------------------------------------------------------------
(* What the link guarantees *)

\* Every envelope the hub recorded as acknowledged was taken by the plugin, and
\* every action it calls delivered reached the plugin (AckOutbound).
THEOREM ReceiptsAreReal == Spec => [](AckedMeansTaken /\ DeliveredMeansTaken)
BY InductiveInvariant, PTL DEF Inductive

\* The sequence of the live session never has a hole the plugin's contiguous ack
\* could not cross (NextOutbound, ExpireActions, liveSessionSeq).
THEOREM SequenceHasNoGap == Spec => []NoGap
BY InductiveInvariant, PTL DEF Inductive

\* The plugin never acks above what its session sent (AckOutbound).
THEOREM AckInRange == Spec => []NeverOutOfRange
BY InductiveInvariant, PTL DEF Inductive

\* A numbered row is sent again under its number while its session lives.
THEOREM RetransmissionIsStable == Spec => RetransmittedUnchanged
<1>1. TypeOK /\ Inductive /\ [Next]_vars =>
        [\A m \in Messages : live # None /\ live' = live /\ home[m] = live
           => home'[m] = home[m] /\ seq'[m] = seq[m]]_vars
  <2> SUFFICES ASSUME TypeOK, Inductive, Next,
                      NEW m \in Messages, live # None, live' = live, home[m] = live
               PROVE  home'[m] = home[m] /\ seq'[m] = seq[m]
    OBVIOUS
  <2>1. CASE \E p \in Slots : NextOutbound(p)
    <3>1. PICK p \in Slots : NextOutbound(p)
      BY <2>1
    <3>2. poll[p].sess = live
      BY <3>1 DEF NextOutbound, LiveSession
    <3>3. home'[m] = live
      BY <3>1, <3>2 DEF NextOutbound
    <3>4. seq'[m] = seq[m]
      BY <3>1, <3>2 DEF NextOutbound, KeepsNumber
    <3>5. QED
      BY <3>3, <3>4
  <2>2. CASE ~ \E p \in Slots : NextOutbound(p)
    <3>1. UNCHANGED <<home, seq>>
      BY <2>2 DEF Next, HubStep, WalkStep, rowVars, hubVars, linkVars, DispatchAction,
         ExpireOnRead, CrashInDispatch, QueueEnvelope, PassDeadline, ExpireActions, StartSession,
         StartSessionLate, EndSession, RefuseSession, AckOutbound, AnswerEmpty, Vanish, SendPoll,
         SendSession, RenewSession, GiveUpSession, TakeSession, GiveUpPoll, TakeRefusal,
         TakeAnswer, SkipEnvelope, TakeNotice, TakeRepeat, TakeDispatch, Deliver, EndOfBatch,
         DeferRest, Crash, Reboot
    <3>2. QED
      BY <3>1
  <2>3. QED
    BY <2>1, <2>2
<1>2. QED
  BY <1>1, TypeCorrect, InductiveInvariant, PTL DEF Spec, RetransmittedUnchanged

-------------------------------------------------------------------------------
(* The link implements its contract *)

\* The stations of all envelopes: the refinement mapping as one function.
stations == [m \in Messages |-> Station(m)]

\* A step that changes the phase and the taking of no envelope is a stutter.
LEMMA StationStutter ==
  ASSUME UNCHANGED <<phase, taken>>
  PROVE  stations' = stations
BY DEF stations, Station

\* A step that gives every member of S another station, and nobody else.
LEMMA StationMove ==
  ASSUME NEW S \in SUBSET Messages, S # {}, NEW x, NEW y,
         \A m \in S : Station(m) = x /\ Station(m)' = y,
         \A m \in Messages \ S : Station(m)' = Station(m)
  PROVE  Contract!Move(S, x, y)
<1>1. \A m \in S : stations[m] = x
  BY DEF stations
<1>2. stations' = [m \in Messages |-> IF m \in S THEN y ELSE stations[m]]
  BY DEF stations
<1>3. QED
  BY <1>1, <1>2 DEF Contract!Move, stations

\* Every step of the link is a step of the contract, or changes no station.
LEMMA StepImplements ==
  ASSUME TypeOK, Inductive, [Next]_vars
  PROVE  Contract!Next \/ stations' = stations
<1>1. ASSUME NEW m \in Messages, phase[m] = "unborn",
             phase' = [phase EXCEPT ![m] = "pending"], taken' = taken
      PROVE  Contract!Next
  <2>1. m \notin taken
    BY <1>1 DEF Inductive, Numbered, TypeOK
  <2>2. phase'[m] = "pending" /\ \A n \in Messages \ {m} : phase'[n] = phase[n]
    BY <1>1 DEF TypeOK
  <2>3. Station(m) = "absent" /\ Station(m)' = "queued"
    BY <1>1, <2>1, <2>2 DEF Station
  <2>4. \A n \in Messages \ {m} : Station(n)' = Station(n)
    BY <1>1, <2>2 DEF Station
  <2>5. Contract!Move({m}, "absent", "queued")
    BY <2>3, <2>4, StationMove
  <2>6. QED
    BY <2>5 DEF Contract!Next, Contract!Accept
<1>2. ASSUME NEW m \in Messages, m \in Carried(inbox), phase' = phase, taken' = taken \cup {m}
      PROVE  Contract!Next \/ stations' = stations
  <2>1. phase[m] \in {"pending", "acked"}
    BY <1>2 DEF Inductive, Numbered
  <2>2. \A n \in Messages \ {m} : Station(n)' = Station(n)
    BY <1>2 DEF Station
  <2>3. CASE m \in taken
    <3>1. taken' = taken
      BY <1>2, <2>3
    <3>2. QED
      BY <1>2, <3>1, StationStutter
  <2>4. CASE m \notin taken
    <3>1. phase[m] = "pending"
      BY <2>1, <2>4 DEF Inductive, AckedMeansTaken
    <3>2. Station(m) = "queued" /\ Station(m)' = "taken"
      BY <1>2, <2>4, <3>1 DEF Station
    <3>3. Contract!Move({m}, "queued", "taken")
      BY <2>2, <3>2, StationMove
    <3>4. {m} \in SUBSET Messages
      OBVIOUS
    <3>5. QED
      BY <3>3, <3>4 DEF Contract!Next, Contract!Take
  <2>5. QED
    BY <2>3, <2>4
<1>3. ASSUME NEW p \in Slots, AckOutbound(p)
      PROVE  Contract!Next \/ stations' = stations
  <2> DEFINE hit == IF AckAdvances(poll[p].sess, poll[p].ack)
                    THEN Covered(poll[p].sess, poll[p].ack) ELSE {}
             S == {m \in hit : phase[m] = "pending"}
  <2>1. /\ phase' = [m \in Messages |->
                       IF m \in hit /\ phase[m] = "pending" THEN "acked" ELSE phase[m]]
        /\ taken' = taken
    BY <1>3 DEF AckOutbound, ledgerVars
  <2>2. hit \subseteq Messages /\ hit \subseteq taken
    BY <1>3 DEF Inductive, AcksEarned, Earned, Covered, AckOutbound
  <2>3. \A m \in S : Station(m) = "taken" /\ Station(m)' = "settled"
    <3>1. \A m \in S : phase'[m] = "acked" /\ phase[m] = "pending" /\ m \in taken
      BY <2>1, <2>2
    <3>2. QED
      BY <2>1, <3>1 DEF Station
  <2>4. \A m \in Messages \ S : Station(m)' = Station(m)
    <3>1. \A m \in Messages \ S : phase'[m] = phase[m]
      BY <2>1
    <3>2. QED
      BY <2>1, <3>1 DEF Station
  <2>5. S \in SUBSET Messages
    BY <2>2
  <2> HIDE DEF S
  <2>6. CASE S = {}
    BY <2>4, <2>6 DEF stations
  <2>7. CASE S # {}
    <3>1. Contract!Move(S, "taken", "settled")
      BY <2>3, <2>4, <2>5, <2>7, StationMove
    <3>2. QED
      BY <2>5, <3>1 DEF Contract!Next, Contract!Settle
  <2>8. QED
    BY <2>6, <2>7
<1>4. ASSUME ExpireActions
      PROVE  Contract!Next \/ stations' = stations
  <2>1. /\ phase' = [m \in Messages |-> IF m \in Retirable THEN "retired" ELSE phase[m]]
        /\ taken' = taken
    BY <1>4 DEF ExpireActions, ledgerVars
  <2>2. Retirable \in SUBSET Messages
    BY DEF Retirable, Pending
  <2>3. \A m \in Retirable : phase[m] = "pending" /\ m \notin taken /\ phase'[m] = "retired"
    BY <2>1, <2>2 DEF Retirable, Pending, Inductive, Numbered
  <2>4. \A m \in Retirable : Station(m) = "queued" /\ Station(m)' = "retired"
    BY <2>1, <2>3 DEF Station
  <2>5. \A m \in Messages \ Retirable : Station(m)' = Station(m)
    <3>1. \A m \in Messages \ Retirable : phase'[m] = phase[m]
      BY <2>1
    <3>2. QED
      BY <2>1, <3>1 DEF Station
  <2>6. CASE Retirable = {}
    BY <2>5, <2>6 DEF stations
  <2>7. CASE Retirable # {}
    <3>1. Contract!Move(Retirable, "queued", "retired")
      BY <2>2, <2>4, <2>5, <2>7, StationMove
    <3>2. QED
      BY <2>2, <3>1 DEF Contract!Next, Contract!Retire
  <2>8. QED
    BY <2>6, <2>7
<1>5. CASE \/ \E a \in Actions : DispatchAction(a)
           \/ \E n \in Notices : QueueEnvelope(n)
  <2>1. PICK m \in Messages :
          phase[m] = "unborn" /\ phase' = [phase EXCEPT ![m] = "pending"] /\ taken' = taken
    BY <1>5 DEF DispatchAction, QueueEnvelope, Insertable, Messages, ledgerVars
  <2>2. QED
    BY <2>1, <1>1
<1>6. CASE \/ \E n \in Notices : TakeNotice(n)
           \/ \E a \in Actions : TakeRepeat(a) \/ TakeDispatch(a) \/ CrashInDispatch(a)
  <2>1. PICK m \in Messages :
          m \in Carried(inbox) /\ phase' = phase /\ taken' = taken \cup {m}
    BY <1>6 DEF TakeNotice, TakeRepeat, TakeDispatch, CrashInDispatch, Deliver, Reboot,
                InArrivalOrder, Messages, hubVars, rowVars
  <2>2. QED
    BY <2>1, <1>2
<1>7. CASE UNCHANGED <<phase, taken>>
  BY <1>7, StationStutter
<1>8. \/ \E a \in Actions : DispatchAction(a)
      \/ \E n \in Notices : QueueEnvelope(n)
      \/ \E n \in Notices : TakeNotice(n)
      \/ \E a \in Actions : TakeRepeat(a) \/ TakeDispatch(a) \/ CrashInDispatch(a)
      \/ ExpireActions
      \/ \E p \in Slots : AckOutbound(p)
      \/ UNCHANGED <<phase, taken>>
  BY DEF Next, HubStep, WalkStep, vars, rowVars, hubVars, linkVars, ledgerVars,
     ExpireOnRead, PassDeadline, StartSession, StartSessionLate, EndSession, RefuseSession,
     NextOutbound, AnswerEmpty, Vanish, SendPoll, SendSession, RenewSession, GiveUpSession,
     TakeSession, GiveUpPoll, TakeRefusal, TakeAnswer, SkipEnvelope, EndOfBatch, DeferRest,
     Crash, Reboot
<1>9. QED
  BY <1>3, <1>4, <1>5, <1>6, <1>7, <1>8

\* The queue, its sessions, its polls and the plugin keep the delivery contract
\* whatever is lost, delayed or restarted.
THEOREM LinkKeepsContract == Spec => ContractSpec
<1>1. Init => Contract!Init
  BY DEF Init, Contract!Init, Station
<1>2. TypeOK /\ Inductive /\ [Next]_vars => [Contract!Next]_[m \in Messages |-> Station(m)]
  BY StepImplements DEF stations
<1>3. QED
  BY <1>1, <1>2, TypeCorrect, InductiveInvariant, PTL DEF Spec, ContractSpec, Contract!Spec

-------------------------------------------------------------------------------
(* A record of executed ids: MarkExecuted and LoadExecuted *)

Holds(record, a) == \E i \in 1..Len(record) : record[i] = a

Distinct(record) == \A i, j \in 1..Len(record) : record[i] = record[j] => i = j

\* The ids recorded after c.
Later(record, c) ==
  {d \in Actions : \E i, j \in 1..Len(record) : i < j /\ record[i] = c /\ record[j] = d}

\* Taking an id out of a record closes the gap and moves nothing else.
LEMMA WithoutShape ==
  ASSUME NEW record \in Seq(Actions), NEW a \in Actions, Distinct(record)
  PROVE  /\ Without(record, a) \in Seq(Actions)
         /\ \E k \in 1..(Len(record) + 1) :
              /\ Len(Without(record, a)) = IF k = Len(record) + 1 THEN Len(record)
                                                                  ELSE Len(record) - 1
              /\ \A i \in 1..Len(Without(record, a)) :
                   Without(record, a)[i] = record[IF i < k THEN i ELSE i + 1]
              /\ \A i \in 1..Len(record) : record[i] = a <=> i = k
<1>0. Len(record) \in Nat
  OBVIOUS
<1>1. CASE Holds(record, a)
  <2> DEFINE k == CHOOSE i \in 1..Len(record) : record[i] = a
             low == SubSeq(record, 1, k - 1)
             high == SubSeq(record, k + 1, Len(record))
  <2>1. k \in 1..Len(record) /\ record[k] = a
    BY <1>1 DEF Holds
  <2>2. Without(record, a) = low \o high
    BY <1>1 DEF Without, RemoveAt, Holds
  <2> HIDE DEF k
  <2>3. k \in Nat /\ 1 <= k /\ k <= Len(record)
    BY <2>1
  <2>4. low \in Seq(Actions) /\ Len(low) = k - 1 /\ \A i \in 1..(k - 1) : low[i] = record[i]
    BY <2>3, SubSeqProperties
  <2>5. /\ high \in Seq(Actions) /\ Len(high) = Len(record) - k
        /\ \A i \in 1..(Len(record) - k) : high[i] = record[k + i]
    BY <2>3, SubSeqProperties
  <2> HIDE DEF low, high
  <2>6. /\ low \o high \in Seq(Actions) /\ Len(low \o high) = (k - 1) + (Len(record) - k)
        /\ \A i \in 1..Len(low \o high) :
             (low \o high)[i] = IF i <= k - 1 THEN low[i] ELSE high[i - (k - 1)]
    <3>1. low \in Seq(Actions) /\ high \in Seq(Actions)
      BY <2>4, <2>5
    <3>2. /\ low \o high \in Seq(Actions)
          /\ Len(low \o high) = Len(low) + Len(high)
          /\ \A i \in 1..(Len(low) + Len(high)) :
               (low \o high)[i] = IF i <= Len(low) THEN low[i] ELSE high[i - Len(low)]
      BY <3>1, ConcatProperties
    <3>3. Len(low) = k - 1 /\ Len(high) = Len(record) - k
      BY <2>4, <2>5
    <3>4. QED
      BY <3>2, <3>3
  <2>7. Len(low \o high) = Len(record) - 1
    BY <2>3, <2>6
  <2>8. ASSUME NEW i \in 1..Len(low \o high)
        PROVE  (low \o high)[i] = record[IF i < k THEN i ELSE i + 1]
    <3>1. CASE i < k
      <4>1. i \in 1..(k - 1)
        BY <3>1, <2>3
      <4>2. QED
        BY <3>1, <4>1, <2>4, <2>6
    <3>2. CASE ~(i < k)
      <4>1. i - (k - 1) \in 1..(Len(record) - k) /\ k + (i - (k - 1)) = i + 1 /\ ~(i <= k - 1)
        BY <3>2, <2>3, <2>7
      <4>2. high[i - (k - 1)] = record[i + 1]
        BY <4>1, <2>5
      <4>3. QED
        BY <3>2, <4>1, <4>2, <2>6
    <3>3. QED
      BY <3>1, <3>2
  <2>9. \A i \in 1..Len(record) : record[i] = a <=> i = k
    BY <2>1 DEF Distinct
  <2>10. k \in 1..(Len(record) + 1) /\ k # Len(record) + 1
    BY <2>3
  <2>11. QED
    BY <2>2, <2>6, <2>7, <2>8, <2>9, <2>10
<1>2. CASE ~Holds(record, a)
  <2>1. Without(record, a) = record
    BY <1>2 DEF Without, Holds
  <2>2. Len(record) + 1 \in 1..(Len(record) + 1)
    BY <1>0
  <2>3. \A i \in 1..Len(record) : i < Len(record) + 1 /\ i # Len(record) + 1 /\ record[i] # a
    BY <1>0, <1>2 DEF Holds
  <2>4. QED
    BY <2>1, <2>2, <2>3
<1>3. QED
  BY <1>1, <1>2

\* A record from which an id was taken out.
LEMMA WithoutKeeps ==
  ASSUME NEW record \in Seq(Actions), NEW a \in Actions, Distinct(record)
  PROVE  /\ Without(record, a) \in Seq(Actions)
         /\ Distinct(Without(record, a)) /\ ~Holds(Without(record, a), a)
         /\ \A c \in Actions : c # a => (Holds(Without(record, a), c) <=> Holds(record, c))
         /\ \A c \in Actions : Later(Without(record, a), c) \subseteq Later(record, c)
<1> DEFINE rest == Without(record, a)
           G(k, i) == IF i < k THEN i ELSE i + 1
<1>1. rest \in Seq(Actions) /\ Len(rest) \in Nat /\ Len(record) \in Nat
  BY WithoutShape
<1>2. PICK k \in 1..(Len(record) + 1) :
        /\ Len(rest) = IF k = Len(record) + 1 THEN Len(record) ELSE Len(record) - 1
        /\ \A i \in 1..Len(rest) : rest[i] = record[G(k, i)]
        /\ \A i \in 1..Len(record) : record[i] = a <=> i = k
  BY WithoutShape
<1> HIDE DEF rest
<1>3. ASSUME NEW i \in 1..Len(rest)
      PROVE  G(k, i) \in 1..Len(record) /\ G(k, i) # k /\ rest[i] = record[G(k, i)]
  BY <1>1, <1>2
<1>4. \A i, j \in 1..Len(rest) : (i < j => G(k, i) < G(k, j)) /\ (G(k, i) = G(k, j) => i = j)
  BY <1>1, <1>2
<1>5. ASSUME NEW j \in 1..Len(record), j # k
      PROVE  \E i \in 1..Len(rest) : G(k, i) = j
  <2>1. CASE j < k
    BY <2>1, <1>1, <1>2, <1>5
  <2>2. CASE j > k
    <3>1. j - 1 \in 1..Len(rest) /\ G(k, j - 1) = j
      BY <2>2, <1>1, <1>2, <1>5
    <3>2. QED
      BY <3>1
  <2>3. QED
    BY <2>1, <2>2, <1>2, <1>5
<1> HIDE DEF G
<1>6. Distinct(rest)
  BY <1>3, <1>4 DEF Distinct
<1>7. ~Holds(rest, a)
  BY <1>2, <1>3 DEF Holds
<1>8. ASSUME NEW c \in Actions, c # a PROVE Holds(rest, c) <=> Holds(record, c)
  <2>1. ASSUME NEW i \in 1..Len(rest), rest[i] = c PROVE Holds(record, c)
    BY <2>1, <1>3 DEF Holds
  <2>2. ASSUME NEW j \in 1..Len(record), record[j] = c PROVE Holds(rest, c)
    <3>1. j # k
      BY <2>2, <1>2, <1>8
    <3>2. PICK i \in 1..Len(rest) : G(k, i) = j
      BY <3>1, <1>5
    <3>3. rest[i] = c
      BY <2>2, <3>2, <1>3
    <3>4. QED
      BY <3>3 DEF Holds
  <2>3. QED
    BY <2>1, <2>2 DEF Holds
<1>9. ASSUME NEW c \in Actions PROVE Later(rest, c) \subseteq Later(record, c)
  BY <1>3, <1>4 DEF Later
<1>10. QED
  BY <1>1, <1>6, <1>7, <1>8, <1>9 DEF rest

\* Recording an id puts it last, once, and drops at most the oldest other.
LEMMA RecordedKeeps ==
  ASSUME NEW record \in Seq(Actions), NEW a \in Actions, Distinct(record)
  PROVE  /\ Distinct(Recorded(record, a))
         /\ Holds(Recorded(record, a), a) /\ Later(Recorded(record, a), a) = {}
         /\ \A c \in Actions : Holds(Recorded(record, a), c) /\ c # a => Holds(record, c)
         /\ \A c \in Actions : Later(Recorded(record, a), c) \subseteq Later(record, c) \cup {a}
         /\ \A c \in Actions : Holds(record, c) /\ ~Holds(Recorded(record, a), c)
              => Cardinality(Later(record, c) \cup {a}) >= LruCapacity
<1> DEFINE rest == Without(record, a)
           kept == IF Len(rest) >= LruCapacity THEN Tail(rest) ELSE rest
           new == Append(kept, a)
<1> USE LimitsAssumption
<1>1. /\ rest \in Seq(Actions) /\ Len(rest) \in Nat
      /\ Distinct(rest) /\ ~Holds(rest, a)
      /\ \A c \in Actions : c # a => (Holds(rest, c) <=> Holds(record, c))
      /\ \A c \in Actions : Later(rest, c) \subseteq Later(record, c)
  <2>1. rest \in Seq(Actions)
    BY WithoutKeeps
  <2>2. QED
    BY <2>1, WithoutKeeps
<1>2. Recorded(record, a) = new
  BY DEF Recorded
<1> HIDE DEF rest
<1>3. PICK d \in {0, 1} :
        /\ kept \in Seq(Actions) /\ Len(kept) = Len(rest) - d /\ Len(kept) \in Nat
        /\ \A i \in 1..Len(kept) : kept[i] = rest[i + d]
        /\ d = 1 => Len(rest) >= LruCapacity
  <2>1. CASE Len(rest) >= LruCapacity
    <3>1. rest # <<>>
      BY <2>1, <1>1
    <3>2. /\ Tail(rest) \in Seq(Actions) /\ Len(Tail(rest)) = Len(rest) - 1
          /\ \A i \in 1..Len(Tail(rest)) : Tail(rest)[i] = rest[i + 1]
      BY <3>1, <1>1, HeadTailProperties
    <3>3. kept = Tail(rest)
      BY <2>1
    <3> HIDE DEF kept
    <3>4. /\ kept \in Seq(Actions) /\ Len(kept) = Len(rest) - 1 /\ Len(kept) \in Nat
          /\ \A i \in 1..Len(kept) : kept[i] = rest[i + 1]
      BY <3>2, <3>3, <1>1
    <3>5. QED
      BY <3>4, <2>1
  <2>2. CASE ~(Len(rest) >= LruCapacity)
    BY <2>2, <1>1
  <2>3. QED
    BY <2>1, <2>2
<1> HIDE DEF kept
<1>4. /\ new \in Seq(Actions) /\ Len(new) = Len(kept) + 1
      /\ \A i \in 1..Len(kept) : new[i] = kept[i]
      /\ new[Len(new)] = a
  BY <1>3
<1> HIDE DEF new
<1>5. ASSUME NEW i \in 1..Len(new), new[i] # a
      PROVE  i \in 1..Len(kept) /\ i + d \in 1..Len(rest) /\ new[i] = rest[i + d]
  BY <1>1, <1>3, <1>4, <1>5
<1>6. ASSUME NEW i \in 1..Len(new)
      PROVE  new[i] = a <=> i = Len(new)
  <2>1. CASE i # Len(new)
    <3>1. i \in 1..Len(kept) /\ i + d \in 1..Len(rest) /\ new[i] = rest[i + d]
      BY <2>1, <1>1, <1>3, <1>4
    <3>2. QED
      BY <2>1, <3>1, <1>1 DEF Holds
  <2>2. QED
    BY <2>1, <1>4
<1>7. Distinct(new)
  <2> SUFFICES ASSUME NEW i \in 1..Len(new), NEW j \in 1..Len(new), new[i] = new[j]
               PROVE  i = j
    BY DEF Distinct
  <2>1. CASE new[i] = a
    BY <2>1, <1>6
  <2>2. CASE new[i] # a
    <3>1. i + d \in 1..Len(rest) /\ j + d \in 1..Len(rest) /\ rest[i + d] = rest[j + d]
      BY <2>2, <1>5
    <3>2. i + d = j + d
      BY <3>1, <1>1 DEF Distinct
    <3>3. QED
      BY <3>2, <1>1, <1>3, <1>4
  <2>3. QED
    BY <2>1, <2>2
<1>8. Holds(new, a)
  BY <1>3, <1>4 DEF Holds
<1>9. Later(new, a) = {}
  <2>1. ASSUME NEW i \in 1..Len(new), NEW j \in 1..Len(new), i < j, new[i] = a PROVE FALSE
    <3>1. i = Len(new) /\ j <= Len(new) /\ Len(new) \in Nat
      BY <2>1, <1>3, <1>4, <1>6
    <3>2. QED
      BY <2>1, <3>1
  <2>2. QED
    BY <2>1 DEF Later
<1>10. ASSUME NEW c \in Actions, Holds(new, c), c # a PROVE Holds(record, c)
  <2>1. Holds(rest, c)
    BY <1>5, <1>10 DEF Holds
  <2>2. QED
    BY <2>1, <1>1, <1>10
<1>11. ASSUME NEW c \in Actions PROVE Later(new, c) \subseteq Later(record, c) \cup {a}
  <2> SUFFICES ASSUME NEW e \in Later(new, c), e # a PROVE e \in Later(record, c)
    OBVIOUS
  <2>1. PICK i, j \in 1..Len(new) : i < j /\ new[i] = c /\ new[j] = e /\ e \in Actions
    BY DEF Later
  <2>2. new[i] # a
    <3>1. i # Len(new)
      BY <2>1, <1>3, <1>4
    <3>2. QED
      BY <3>1, <1>6
  <2>3. i + d \in 1..Len(rest) /\ j + d \in 1..Len(rest) /\ i + d < j + d
        /\ rest[i + d] = c /\ rest[j + d] = e
    <3>1. i + d < j + d
      BY <2>1, <1>3
    <3>2. QED
      BY <2>1, <2>2, <3>1, <1>5
  <2>4. e \in Later(rest, c)
    BY <2>1, <2>3 DEF Later
  <2>5. QED
    BY <2>4, <1>1
<1>12. ASSUME NEW c \in Actions, Holds(record, c), ~Holds(new, c)
       PROVE  Cardinality(Later(record, c) \cup {a}) >= LruCapacity
  <2>1. c # a /\ Holds(rest, c)
    BY <1>1, <1>8, <1>12
  <2>2. PICK i \in 1..Len(rest) : rest[i] = c
    BY <2>1 DEF Holds
  <2>3. i = 1 /\ d = 1
    <3>1. CASE i - d \in 1..Len(kept)
      <4>1. kept[i - d] = c /\ i - d \in 1..Len(new) /\ new[i - d] = c
        BY <3>1, <2>2, <1>1, <1>3, <1>4
      <4>2. QED
        BY <4>1, <1>12 DEF Holds
    <3>2. CASE ~(i - d \in 1..Len(kept))
      BY <3>2, <2>2, <1>1, <1>3
    <3>3. QED
      BY <3>1, <3>2
  <2> DEFINE S == Later(rest, c) \cup {a}
             h == [n \in 1..Len(rest) |-> IF n = 1 THEN a ELSE rest[n]]
  <2>4. \A n \in 1..Len(rest) : n # 1 => rest[n] \in Later(rest, c) /\ rest[n] # a
    <3> SUFFICES ASSUME NEW n \in 1..Len(rest), n # 1
                 PROVE  rest[n] \in Later(rest, c) /\ rest[n] # a
      OBVIOUS
    <3>1. i < n /\ rest[n] \in Actions
      BY <2>3, <1>1
    <3>2. QED
      BY <3>1, <2>2, <1>1 DEF Later, Holds
  <2>5. h \in [1..Len(rest) -> S]
    BY <2>4
  <2>6. \A m, n \in 1..Len(rest) : h[m] = h[n] => m = n
    <3> SUFFICES ASSUME NEW m \in 1..Len(rest), NEW n \in 1..Len(rest), h[m] = h[n]
                 PROVE  m = n
      OBVIOUS
    <3>1. CASE m = 1 /\ n = 1
      BY <3>1
    <3>2. CASE m # 1 /\ n # 1
      BY <3>2, <1>1 DEF Distinct
    <3>3. CASE ~(m = 1 <=> n = 1)
      BY <3>3, <2>4
    <3>4. QED
      BY <3>1, <3>2, <3>3
  <2> HIDE DEF h
  <2>7. h \in Injection(1..Len(rest), S)
    BY <2>5, <2>6 DEF Injection, IsInjective
  <2>8. IsFiniteSet(Later(record, c) \cup {a}) /\ S \subseteq Later(record, c) \cup {a}
    <3>1. Later(record, c) \cup {a} \subseteq Messages
      BY DEF Later, Messages
    <3>2. QED
      BY <3>1, MessagesFinite, <1>1
  <2> HIDE DEF S
  <2>9. /\ IsFiniteSet(S) /\ Cardinality(S) <= Cardinality(Later(record, c) \cup {a})
        /\ Cardinality(S) \in Nat /\ Cardinality(Later(record, c) \cup {a}) \in Nat
    BY <2>8, FS_Subset, FS_CardinalityType
  <2>10. Cardinality(1..Len(rest)) <= Cardinality(S)
    BY <2>7, <2>9, FS_Injection
  <2>11. Cardinality(1..Len(rest)) = Len(rest)
    <3>1. Cardinality(1..Len(rest)) = IF 1 > Len(rest) THEN 0 ELSE Len(rest) - 1 + 1
      BY <1>1, FS_Interval
    <3>2. QED
      BY <3>1, <1>1
  <2>12. Len(rest) >= LruCapacity
    BY <2>3, <1>3
  <2>13. QED
    BY <2>9, <2>10, <2>11, <2>12, <1>1
<1>13. QED
  BY <1>2, <1>7, <1>8, <1>9, <1>10, <1>11, <1>12

-------------------------------------------------------------------------------
(* The queue in the order of its rows *)

\* The rows before c, and the numbered rows after it.
Elder(c) == {m \in Messages : m < c /\ phase[m] = "pending"}
Younger(c) == {n \in Messages : c < n /\ home[n] # None}

\* Rows come into being in the order in which they are read.
BornInOrder == \A m, n \in Messages : m < n /\ phase[n] # "unborn" => phase[m] # "unborn"

\* No row is numbered, or acked, ahead of an elder one.
OldestFirst ==
  \A m, n \in Messages :
    m < n /\ phase[m] = "pending" /\ home[n] # None
      => phase[n] = "pending" /\ home[m] = home[n] /\ seq[m] < seq[n]

\* A numbered row still in the queue is within the next batch.
InWindow ==
  \A n \in Messages :
    phase[n] = "pending" /\ home[n] # None => Cardinality(Elder(n)) < BatchLimit

\* Only the last session started can be live.
LiveIsLast == live \in {None, used}

Ordered == BornInOrder /\ OldestFirst /\ InWindow /\ LiveIsLast

\* What no step undoes: a numbered row is only renumbered by a later session,
\* and neither it nor a row before it comes back to the queue.
Fading ==
  \A c \in Messages : home[c] # None =>
    /\ home'[c] >= home[c]
    /\ phase'[c] = "pending" => phase[c] = "pending"
    /\ Elder(c)' \subseteq Elder(c)

\* A batch is the pending rows with fewer than BatchLimit others before them.
LEMMA OldestShape ==
  /\ \A m \in Pending : m \in Oldest(Pending) <=> Cardinality(Elder(m)) < BatchLimit
  /\ \A m, n \in Pending : m < n /\ n \in Oldest(Pending) => m \in Oldest(Pending)
<1>1. ASSUME NEW m \in Pending
      PROVE  m \in Oldest(Pending) <=> Cardinality(Elder(m)) < BatchLimit
  <2>1. {n \in Pending : n < m} = Elder(m)
    BY DEF Pending, Elder
  <2>2. QED
    BY <2>1 DEF Oldest
<1>2. ASSUME NEW m \in Pending, NEW n \in Pending, m < n, n \in Oldest(Pending)
      PROVE  m \in Oldest(Pending)
  <2>1. Elder(m) \subseteq Elder(n) /\ Elder(n) \subseteq Messages
    <3>1. Messages \subseteq Nat /\ m \in Nat /\ n \in Nat
      BY MessagesAssumption DEF Messages, Pending
    <3>2. \A k \in Messages : k < m => k < n
      BY <3>1, <1>2
    <3>3. QED
      BY <3>2 DEF Elder
  <2>2. /\ IsFiniteSet(Elder(n)) /\ Cardinality(Elder(n)) \in Nat
        /\ Cardinality(Elder(m)) \in Nat
    BY <2>1, MessagesFinite
  <2>3. Cardinality(Elder(m)) <= Cardinality(Elder(n))
    BY <2>1, <2>2, FS_Subset
  <2>4. QED
    BY <1>1, <1>2, <2>2, <2>3, LimitsAssumption
<1>3. QED
  BY <1>1, <1>2

\* A batch leaves no numbered row behind that is still in the queue.
LEMMA NumberedInBatch ==
  ASSUME InWindow, NEW n \in Messages, phase[n] = "pending", home[n] # None
  PROVE  n \in Oldest(Pending)
BY OldestShape DEF InWindow, Pending

\* An insert: the new row sorts behind every row there is.
LEMMA OrderedInsert ==
  ASSUME InOrder, TypeOK, Inductive, Ordered, NEW m \in Messages, Insertable(m),
         phase' = [phase EXCEPT ![m] = "pending"], UNCHANGED <<home, seq, live, used>>
  PROVE  Ordered' /\ Fading
<1> USE DEF Ordered
<1>1. /\ phase[m] = "unborn" /\ phase'[m] = "pending"
      /\ \A n \in Messages : n # m => phase'[n] = phase[n]
      /\ \A n \in Messages : n < m => phase[n] # "unborn"
  BY DEF Insertable, TypeOK
<1>2. BornInOrder'
  BY <1>1 DEF BornInOrder
<1>3. \A n \in Messages : home[n] # None => n # m /\ ~(m < n)
  BY <1>1 DEF Inductive, Numbered, BornInOrder
<1>4. OldestFirst'
  BY <1>1, <1>3 DEF OldestFirst
<1>5. \A n \in Messages : home[n] # None => Elder(n)' = Elder(n)
  BY <1>1, <1>3 DEF Elder
<1>6. InWindow'
  BY <1>1, <1>3, <1>5 DEF InWindow
<1>7. Fading
  <2>1. \A n \in Messages : home[n] \in Nat
    BY DEF TypeOK, Sessions, None
  <2>2. QED
    BY <1>1, <1>3, <1>5, <2>1 DEF Fading
<1>8. QED
  BY <1>2, <1>4, <1>6, <1>7 DEF LiveIsLast

\* Rows leave the queue, the numbered ones oldest first.
LEMMA OrderedLeave ==
  ASSUME TypeOK, Ordered,
         \A m \in Messages : phase'[m] = "pending" => phase[m] = "pending",
         \A m \in Messages : phase'[m] = "unborn" <=> phase[m] = "unborn",
         \A m, n \in Messages :
           m < n /\ phase'[m] = "pending" /\ home[n] # None /\ phase[n] = "pending"
             => phase'[n] = "pending",
         UNCHANGED <<home, seq>>, LiveIsLast'
  PROVE  Ordered' /\ Fading
<1> USE DEF Ordered
<1>1. BornInOrder' /\ OldestFirst'
  BY DEF BornInOrder, OldestFirst
<1>2. \A c \in Messages : Elder(c)' \subseteq Elder(c)
  BY DEF Elder
<1>3. ASSUME NEW n \in Messages, phase'[n] = "pending", home'[n] # None
      PROVE  Cardinality(Elder(n)') < BatchLimit
  <2>1. Cardinality(Elder(n)) < BatchLimit
    BY <1>3 DEF InWindow
  <2>2. IsFiniteSet(Elder(n)) /\ Cardinality(Elder(n)) \in Nat
    <3>1. Elder(n) \subseteq Messages
      BY DEF Elder
    <3>2. QED
      BY <3>1, MessagesFinite
  <2>3. Cardinality(Elder(n)') <= Cardinality(Elder(n)) /\ Cardinality(Elder(n)') \in Nat
    BY <2>2, <1>2, FS_Subset, FS_CardinalityType
  <2>4. QED
    BY <2>1, <2>2, <2>3, LimitsAssumption
<1>4. InWindow'
  BY <1>3 DEF InWindow
<1>5. Fading
  <2>1. \A n \in Messages : home[n] \in Nat
    BY DEF TypeOK, Sessions, None
  <2>2. QED
    BY <1>2, <2>1 DEF Fading
<1>6. QED
  BY <1>1, <1>4, <1>5

\* An ack covers, with a row, every elder one.
LEMMA OrderedAck ==
  ASSUME TypeOK, Inductive, Ordered, NEW p \in Slots, AckOutbound(p)
  PROVE  Ordered' /\ Fading
<1> DEFINE s == poll[p].sess
           a == poll[p].ack
           hit == IF AckAdvances(s, a) THEN Covered(s, a) ELSE {}
<1>1. /\ phase' = [m \in Messages |->
                     IF m \in hit /\ phase[m] = "pending" THEN "acked" ELSE phase[m]]
      /\ UNCHANGED <<home, seq, live, used>>
  BY DEF AckOutbound
<1>2. ASSUME NEW m \in Messages, NEW n \in Messages, m < n, phase'[m] = "pending",
             home[n] # None, phase[n] = "pending"
      PROVE  phase'[n] = "pending"
  <2>1. phase[m] = "pending" /\ m \notin hit
    BY <1>1, <1>2
  <2>2. home[m] = home[n] /\ seq[m] < seq[n] /\ seq[m] \in Nat /\ seq[n] \in Nat /\ a \in Nat
    BY <1>2, <2>1 DEF Ordered, OldestFirst, TypeOK
  <2>3. n \in hit => m \in hit
    BY <2>2 DEF Covered
  <2>4. QED
    BY <1>1, <1>2, <2>1, <2>3
<1> HIDE DEF hit
<1>3. /\ \A m \in Messages : phase'[m] = "pending" => phase[m] = "pending"
      /\ \A m \in Messages : phase'[m] = "unborn" <=> phase[m] = "unborn"
  BY <1>1
<1>4. LiveIsLast'
  BY <1>1 DEF Ordered, LiveIsLast
<1>5. QED
  BY <1>1, <1>2, <1>3, <1>4, OrderedLeave

\* A read renumbers the whole window, in its order.
LEMMA OrderedRead ==
  ASSUME TypeOK, Inductive, Ordered, NEW p \in Slots, NextOutbound(p)
  PROVE  Ordered' /\ Fading
<1> USE DEF Ordered
<1>0. PICK s \in Sessions : s = poll[p].sess /\ s = live /\ s # None /\ s = used
  BY LimitsAssumption DEF NextOutbound, LiveSession, TypeOK, Sessions, None, LiveIsLast
<1> DEFINE batch == Oldest(Pending)
           fresh == {m \in batch : ~KeepsNumber(m, s)}
<1>1. /\ UNCHANGED <<phase, live, used>>
      /\ home' = [m \in Messages |-> IF m \in batch THEN s ELSE home[m]]
  BY <1>0 DEF NextOutbound
<1>2. /\ fresh \subseteq batch
      /\ batch \subseteq Pending /\ batch \subseteq Messages /\ fresh \in SUBSET Messages
      /\ \A m \in batch : m \notin fresh <=> home[m] = s
      /\ outSeq[s] \in Nat
  BY DEF Oldest, Pending, KeepsNumber, TypeOK
<1>3. PICK f \in Numberings(fresh) :
        seq' = [m \in Messages |-> IF m \in fresh THEN outSeq[s] + f[m] ELSE seq[m]]
  <2>1. fresh = {m \in Oldest(Pending) : ~KeepsNumber(m, poll[p].sess)}
    BY <1>0 DEF fresh, batch
  <2>2. QED
    BY ONLY NextOutbound(p), <1>0, <2>1 DEF NextOutbound, batch
<1>4. /\ \A m \in fresh : f[m] \in Nat /\ f[m] >= 1
      /\ \A m, n \in fresh : m < n => f[m] < f[n]
  <2>1. Cardinality(fresh) \in Nat /\ \A m \in fresh : f[m] \in 1..Cardinality(fresh)
    BY <1>2, NumberingType
  <2>2. QED
    BY <2>1 DEF Numberings
<1>5. \A m, n \in Messages : m < n /\ phase[m] = "pending" /\ n \in batch => m \in batch
  BY <1>2, OldestShape DEF Pending
<1>6. \A n \in Messages : phase[n] = "pending" /\ home[n] # None => n \in batch
  BY NumberedInBatch
<1>7. \A n \in batch : phase[n] = "pending" /\ Cardinality(Elder(n)) < BatchLimit
  BY <1>2, OldestShape DEF Pending
<1> HIDE DEF batch, fresh
<1>8. BornInOrder' /\ LiveIsLast'
  BY <1>1 DEF BornInOrder, LiveIsLast
<1>9. ASSUME NEW m \in Messages, NEW n \in Messages, m < n, phase[m] = "pending", home'[n] # None
      PROVE  phase[n] = "pending" /\ home'[m] = home'[n] /\ seq'[m] < seq'[n]
  <2>1. n \in batch
    <3>1. CASE n \notin batch
      <4>1. home[n] # None
        BY <3>1, <1>1, <1>9
      <4>2. phase[n] = "pending"
        BY <4>1, <1>9 DEF OldestFirst
      <4>3. QED
        BY <4>1, <4>2, <1>6
    <3>2. QED
      BY <3>1
  <2>2. m \in batch /\ home'[m] = s /\ home'[n] = s /\ phase[n] = "pending"
    BY <2>1, <1>1, <1>5, <1>7, <1>9
  <2>3. seq[m] \in Nat /\ seq[n] \in Nat
    BY DEF TypeOK
  <2>4. CASE m \in fresh /\ n \in fresh
    <3>1. seq'[m] = outSeq[s] + f[m] /\ seq'[n] = outSeq[s] + f[n]
      BY <2>4, <1>3
    <3>2. f[m] \in Nat /\ f[n] \in Nat /\ f[m] < f[n]
      BY <2>4, <1>4, <1>9
    <3>3. QED
      BY <3>1, <3>2, <2>2, <1>2
  <2>5. CASE m \notin fresh /\ n \notin fresh
    <3>1. home[n] = s
      BY <2>1, <2>5, <1>2
    <3>2. seq[m] < seq[n]
      BY <3>1, <1>0, <1>9 DEF OldestFirst
    <3>3. seq'[m] = seq[m] /\ seq'[n] = seq[n]
      BY <2>5, <1>3
    <3>4. QED
      BY <3>2, <3>3, <2>2
  <2>6. CASE m \notin fresh /\ n \in fresh
    <3>1. home[m] = s /\ seq[m] <= outSeq[s]
      BY <2>2, <2>6, <1>0, <1>2 DEF Inductive, Numbered
    <3>2. seq'[m] = seq[m] /\ seq'[n] = outSeq[s] + f[n] /\ f[n] \in Nat /\ f[n] >= 1
      BY <2>6, <1>3, <1>4
    <3>3. QED
      BY <3>1, <3>2, <2>2, <2>3, <1>2
  <2>7. CASE m \in fresh /\ n \notin fresh
    <3>1. home[n] = s
      BY <2>1, <2>7, <1>2
    <3>2. home[m] = s
      BY <3>1, <1>0, <1>9 DEF OldestFirst
    <3>3. QED
      BY <3>2, <2>2, <2>7, <1>2
  <2>8. QED
    BY <2>2, <2>4, <2>5, <2>6, <2>7
<1>10. OldestFirst'
  BY <1>1, <1>9 DEF OldestFirst
<1>11. \A c \in Messages : Elder(c)' = Elder(c)
  BY <1>1 DEF Elder
<1>12. InWindow'
  BY <1>1, <1>7, <1>11 DEF InWindow
<1>13. Fading
  <2>1. \A c \in Messages : home[c] # None => home[c] \in Nat /\ home[c] <= used
    BY DEF Inductive, Numbered, TypeOK, Sessions, None
  <2>2. \A c \in Messages : home[c] # None => home'[c] >= home[c]
    BY <2>1, <1>0, <1>1
  <2>3. QED
    BY <2>2, <1>1, <1>11 DEF Fading
<1>14. QED
  BY <1>8, <1>10, <1>12, <1>13

\* Every step keeps the queue in order.
LEMMA OrderedStep ==
  ASSUME InOrder, TypeOK, Inductive, Ordered, [Next]_vars
  PROVE  Ordered' /\ Fading
<1>1. ASSUME NEW m \in Messages, Insertable(m), phase' = [phase EXCEPT ![m] = "pending"],
             UNCHANGED <<home, seq, sessionVars>>
      PROVE  Ordered' /\ Fading
  BY <1>1, OrderedInsert DEF sessionVars
<1>2. CASE \E a \in Actions : DispatchAction(a)
  BY <1>1, <1>2 DEF DispatchAction, Messages
<1>3. CASE \E n \in Notices : QueueEnvelope(n)
  BY <1>1, <1>3 DEF QueueEnvelope, Messages
<1>4. CASE ExpireActions
  <2>1. /\ phase' = [m \in Messages |-> IF m \in Retirable THEN "retired" ELSE phase[m]]
        /\ UNCHANGED <<home, seq, live, used>>
    BY <1>4 DEF ExpireActions, sessionVars
  <2>2. \A m \in Retirable : phase[m] = "pending" /\ home[m] = None
    BY DEF Retirable, Pending
  <2>3. LiveIsLast'
    BY <2>1 DEF Ordered, LiveIsLast
  <2>4. QED
    BY <2>1, <2>2, <2>3, OrderedLeave
<1>5. CASE \E p \in Slots : AckOutbound(p)
  BY <1>5, OrderedAck
<1>6. CASE \E p \in Slots : NextOutbound(p)
  BY <1>6, OrderedRead
<1>7. CASE StartSession \/ StartSessionLate \/ EndSession
  <2>1. UNCHANGED <<phase, home, seq>> /\ live' \in {None, used'}
    BY <1>7 DEF StartSession, StartSessionLate, EndSession, Supersede, rowVars
  <2>2. LiveIsLast'
    BY <2>1 DEF LiveIsLast
  <2>3. QED
    BY <2>1, <2>2, OrderedLeave
<1>8. CASE UNCHANGED <<phase, home, seq, live, used>>
  <2>1. LiveIsLast'
    BY <1>8 DEF Ordered, LiveIsLast
  <2>2. QED
    BY <2>1, <1>8, OrderedLeave
<1>9. \/ \E a \in Actions : DispatchAction(a)
      \/ \E n \in Notices : QueueEnvelope(n)
      \/ ExpireActions
      \/ \E p \in Slots : AckOutbound(p)
      \/ \E p \in Slots : NextOutbound(p)
      \/ StartSession \/ StartSessionLate \/ EndSession
      \/ UNCHANGED <<phase, home, seq, live, used>>
  BY DEF Next, HubStep, WalkStep, vars, rowVars, sessionVars, hubVars, linkVars,
     ExpireOnRead, CrashInDispatch, PassDeadline, RefuseSession, AnswerEmpty, Vanish, SendPoll,
     SendSession, RenewSession, GiveUpSession, TakeSession, GiveUpPoll, TakeRefusal,
     TakeAnswer, SkipEnvelope, TakeNotice, TakeRepeat, TakeDispatch, Deliver, EndOfBatch,
     DeferRest, Crash, Reboot
<1>10. QED
  BY <1>2, <1>3, <1>4, <1>5, <1>6, <1>7, <1>8, <1>9

-------------------------------------------------------------------------------
(* The sessions the plugin has used, in their order *)

\* A batch of session s names each row it carries by the row's number, unless
\* the row has gone on to a later session.
Since(s, batch) ==
  \A m \in Carried(batch) : home[m] >= s /\ (home[m] = s => seq[m] = batch[m])

\* No row and no poll is of a later session than the one the plugin holds or is
\* offered, and no ack of it is above the plugin's own.
SessionOrder ==
  /\ token # None =>
       /\ \A m \in Messages : home[m] <= token
       /\ \A p \in Slots :
            poll[p].sess <= token /\ (poll[p].sess = token => poll[p].ack <= inAck)
       /\ outAck[token] <= inAck
  /\ offer # None =>
       /\ link = "offered"
       /\ \A m \in Messages : home[m] < offer
       /\ \A p \in Slots : poll[p].sess < offer
       /\ outAck[offer] = 0

\* The batches on their way to the plugin.
Batched ==
  /\ \A p \in Slots : Since(poll[p].sess, poll[p].batch)
  /\ link = "inbox" => Since(token, inbox)

\* An acked row is covered by the recorded ack of its session.
Covering == \A m \in Messages : phase[m] = "acked" => home[m] # None /\ seq[m] <= outAck[home[m]]

Sessioned == SessionOrder /\ Batched /\ Covering

\* The numbers the invariant compares are numbers.
LEMMA SessionTypes ==
  ASSUME TypeOK
  PROVE  /\ used \in Nat /\ token \in Nat /\ offer \in Nat /\ inAck \in Nat
         /\ token <= used /\ offer <= used /\ used <= MaxSessions /\ MaxSessions \in Nat
         /\ token # None => token \in Sessions
         /\ offer # None => offer \in Sessions /\ offer >= 1
         /\ \A m \in Messages : home[m] \in Nat /\ seq[m] \in Nat
         /\ \A s \in Sessions : outAck[s] \in Nat /\ outSeq[s] \in Nat
         /\ \A p \in Slots : /\ poll[p].sess \in Nat /\ poll[p].sess <= used
                             /\ poll[p].ack \in Nat
BY LimitsAssumption DEF TypeOK, Sessions, None

\* A plugin step that leaves the rows and the sessions alone.
LEMMA SinceKept ==
  ASSUME UNCHANGED <<home, seq>>
  PROVE  /\ \A s, batch : Since(s, batch) => Since(s, batch)'
         /\ \A s : Since(s, NoBatch)
BY DEF Since, Carried, NoBatch

\* The hub's writes to its queue and its sessions.
LEMMA SessionedQueue ==
  ASSUME TypeOK, Inductive, Sessioned,
         \/ \E a \in Actions : DispatchAction(a) \/ ExpireOnRead(a)
         \/ \E n \in Notices : QueueEnvelope(n)
         \/ \E a \in Expiring : PassDeadline(a)
         \/ ExpireActions
         \/ StartSession \/ StartSessionLate \/ EndSession
  PROVE  Sessioned'
<1> USE DEF Sessioned, rowVars, sessionVars, hubVars, linkVars
<1>1. /\ UNCHANGED <<home, seq, outSeq, outAck, poll, token, inAck, inbox>>
      /\ link' = "inbox" => link = "inbox"
      /\ \/ UNCHANGED <<offer, link>>
         \/ link' = "offered" /\ offer' = used + 1 /\ used < MaxSessions
  BY DEF DispatchAction, ExpireOnRead, QueueEnvelope, PassDeadline, ExpireActions,
         StartSession, StartSessionLate, EndSession, Supersede
<1>2. \A m \in Messages : phase'[m] = "acked" => phase[m] = "acked"
  BY DEF TypeOK, DispatchAction, ExpireOnRead, QueueEnvelope, PassDeadline, ExpireActions,
         StartSession, StartSessionLate, EndSession
<1>3. Covering'
  BY <1>1, <1>2 DEF Covering
<1>4. Batched'
  BY <1>1, SinceKept DEF Batched, Since, Carried
<1>5. SessionOrder'
  <2>1. CASE UNCHANGED <<offer, link>>
    BY <2>1, <1>1 DEF SessionOrder
  <2>2. CASE link' = "offered" /\ offer' = used + 1 /\ used < MaxSessions
    <3>1. used \in Nat /\ MaxSessions \in Nat /\ \A p \in Slots : poll[p].sess \in Nat /\ poll[p].sess <= used
      BY SessionTypes
    <3>2. \A m \in Messages : home[m] < used + 1
      BY <3>1, SessionTypes DEF Inductive, Numbered, None
    <3>3. used + 1 \in Sessions /\ used + 1 > used
      BY <2>2, <3>1 DEF Sessions
    <3>4. outAck[used + 1] = 0
      BY <3>3 DEF Inductive, Unstarted
    <3>5. \A p \in Slots : poll[p].sess < used + 1
      BY <3>1
    <3>6. QED
      BY <2>2, <3>2, <3>4, <3>5, <1>1 DEF SessionOrder
  <2>3. QED
    BY <1>1, <2>1, <2>2
<1>6. QED
  BY <1>3, <1>4, <1>5

\* A poll is refused, answered empty, or forgotten.
LEMMA SessionedNoRead ==
  ASSUME TypeOK, Sessioned, NEW p \in Slots,
         RefuseSession(p) \/ AnswerEmpty(p) \/ Vanish(p)
  PROVE  Sessioned'
<1> USE DEF Sessioned, rowVars, sessionVars, hubVars, linkVars
<1>1. UNCHANGED <<hubVars, linkVars>>
  BY DEF RefuseSession, AnswerEmpty, Vanish
<1>2. /\ \A q \in Slots : q # p => poll'[q] = poll[q]
      /\ poll'[p].batch = NoBatch
      /\ \/ poll'[p].sess = poll[p].sess /\ poll'[p].ack = poll[p].ack
         \/ poll'[p].sess = 0 /\ poll'[p].ack = 0
  BY DEF RefuseSession, AnswerEmpty, Vanish, Answer, TypeOK, NoPoll, None
<1>3. Covering'
  BY <1>1 DEF Covering
<1>4. Batched'
  BY <1>1, <1>2, SinceKept DEF Batched
<1>5. SessionOrder'
  BY <1>1, <1>2, SessionTypes DEF SessionOrder, None
<1>6. QED
  BY <1>3, <1>4, <1>5

\* An ack is recorded of a poll of the plugin's session, or of an older one.
LEMMA SessionedAck ==
  ASSUME TypeOK, Sessioned, NEW p \in Slots, AckOutbound(p)
  PROVE  Sessioned'
<1> USE DEF Sessioned, rowVars, sessionVars, hubVars, linkVars
<1> DEFINE s == poll[p].sess
           a == poll[p].ack
           hit == IF AckAdvances(s, a) THEN Covered(s, a) ELSE {}
<1>1. /\ UNCHANGED <<home, seq, live, used, outSeq, linkVars>>
      /\ s = live /\ s # None
      /\ phase' = [m \in Messages |->
                     IF m \in hit /\ phase[m] = "pending" THEN "acked" ELSE phase[m]]
      /\ outAck' = IF AckAdvances(s, a) THEN [outAck EXCEPT ![s] = a] ELSE outAck
  BY DEF AckOutbound, LiveSession
<1>2. /\ \A q \in Slots : q # p => poll'[q] = poll[q]
      /\ poll'[p].batch = NoBatch /\ poll'[p].sess = s /\ poll'[p].ack = a
  BY DEF AckOutbound, Answer, TypeOK
<1>3. s \in Sessions /\ a \in Nat
  <2>1. s \in Nat /\ s <= used /\ used <= MaxSessions /\ a \in Nat /\ MaxSessions \in Nat /\ used \in Nat
    BY SessionTypes
  <2>2. QED
    BY <2>1, <1>1 DEF Sessions, None
<1>4. /\ \A r \in Sessions : outAck[r] \in Nat /\ outAck'[r] >= outAck[r]
      /\ \A r \in Sessions : outAck'[r] = outAck[r] \/ (r = s /\ outAck'[r] = a)
      /\ AckAdvances(s, a) => outAck'[s] = a
  <2>1. outAck \in [Sessions -> Nat]
    BY DEF TypeOK
  <2>2. CASE AckAdvances(s, a)
    <3>1. outAck' = [outAck EXCEPT ![s] = a] /\ a > outAck[s]
      BY <2>2, <1>1 DEF AckAdvances
    <3>2. QED
      BY <2>1, <3>1, <1>3
  <2>3. CASE ~AckAdvances(s, a)
    BY <2>1, <2>3, <1>1
  <2>4. QED
    BY <2>2, <2>3
<1>5. Covering'
  <2> SUFFICES ASSUME NEW m \in Messages, phase'[m] = "acked"
               PROVE  home[m] # None /\ seq[m] <= outAck'[home[m]]
    BY <1>1 DEF Covering
  <2>1. home[m] # None => home[m] \in Sessions
    BY DEF TypeOK
  <2>2. CASE phase[m] = "acked"
    <3>1. home[m] # None /\ seq[m] <= outAck[home[m]] /\ seq[m] \in Nat
      BY <2>2, SessionTypes DEF Covering
    <3>2. outAck[home[m]] \in Nat /\ outAck'[home[m]] >= outAck[home[m]] /\ outAck'[home[m]] \in Nat
      BY <2>1, <3>1, <1>3, <1>4
    <3>3. QED
      BY <3>1, <3>2
  <2>3. CASE phase[m] # "acked"
    <3>1. m \in hit /\ AckAdvances(s, a)
      BY <2>3, <1>1
    <3>2. home[m] = s /\ seq[m] <= a
      BY <3>1 DEF Covered
    <3>3. QED
      BY <3>1, <3>2, <1>1, <1>4
  <2>4. QED
    BY <2>2, <2>3
<1> HIDE DEF hit
<1>6. Batched'
  BY <1>1, <1>2, SinceKept DEF Batched
<1>7. SessionOrder'
  <2>1. ASSUME token # None
        PROVE  outAck'[token] <= inAck
    <3>1. token \in Sessions /\ outAck[token] <= inAck
          /\ (s = token => a <= inAck)
      BY <2>1, SessionTypes DEF SessionOrder
    <3>2. QED
      BY <3>1, <1>4
  <2>2. ASSUME offer # None PROVE outAck'[offer] = 0
    <3>1. offer \in Sessions /\ outAck[offer] = 0 /\ s < offer /\ s \in Nat /\ offer \in Nat
      BY <2>2, SessionTypes DEF SessionOrder
    <3>2. QED
      BY <3>1, <1>4
  <2>3. QED
    BY <2>1, <2>2, <1>1, <1>2 DEF SessionOrder
<1>8. QED
  BY <1>5, <1>6, <1>7

\* A read moves rows to the live session, which is the last.
LEMMA SessionedRead ==
  ASSUME TypeOK, Inductive, Ordered, Sessioned, NEW p \in Slots, NextOutbound(p)
  PROVE  Sessioned'
<1> USE DEF Sessioned, rowVars, sessionVars, hubVars, linkVars
<1>0. PICK s \in Sessions : s = poll[p].sess /\ s = live /\ s # None /\ s = used
  BY LimitsAssumption
     DEF NextOutbound, LiveSession, TypeOK, Sessions, None, Ordered, LiveIsLast
<1> DEFINE batch == Oldest(Pending)
           fresh == {m \in batch : ~KeepsNumber(m, s)}
<1>1. /\ UNCHANGED <<phase, live, used, outAck, linkVars>>
      /\ home' = [m \in Messages |-> IF m \in batch THEN s ELSE home[m]]
  BY <1>0 DEF NextOutbound
<1>2. PICK numbered :
        /\ numbered = seq'
        /\ \A m \in Messages : m \notin fresh => numbered[m] = seq[m]
        /\ Answer(p, "batch", [m \in Messages |-> IF m \in batch THEN numbered[m] ELSE 0])
  <2>1. fresh = {m \in Oldest(Pending) : ~KeepsNumber(m, poll[p].sess)}
    BY <1>0 DEF fresh, batch
  <2>2. QED
    BY ONLY NextOutbound(p), <1>0, <2>1 DEF NextOutbound, batch
<1> HIDE DEF batch, fresh
<1>3. /\ \A q \in Slots : q # p => poll'[q] = poll[q]
      /\ poll'[p].sess = s /\ poll'[p].ack = poll[p].ack
      /\ poll'[p].batch = [m \in Messages |-> IF m \in batch THEN seq'[m] ELSE 0]
  <2> DEFINE carried == [m \in Messages |-> IF m \in batch THEN seq'[m] ELSE 0]
  <2>1. Answer(p, "batch", carried)
    BY <1>2
  <2> HIDE DEF carried
  <2>2. poll' = [poll EXCEPT ![p] = [poll[p] EXCEPT !.stage = "batch", !.batch = carried]]
    BY <2>1 DEF Answer, TypeOK
  <2>3. /\ \A q \in Slots : q # p => poll'[q] = poll[q]
        /\ poll'[p].sess = poll[p].sess /\ poll'[p].ack = poll[p].ack
        /\ poll'[p].batch = carried
    BY <2>2 DEF TypeOK
  <2>4. QED
    BY <2>3, <1>0 DEF carried
<1>4. /\ \A m \in Messages : m \notin batch => home'[m] = home[m] /\ seq'[m] = seq[m]
      /\ \A m \in Messages : m \in batch => home'[m] = s
      /\ \A m \in Messages : home[m] = s => seq'[m] = seq[m]
      /\ \A m \in batch : phase[m] = "pending"
  BY <1>1, <1>2 DEF KeepsNumber, Oldest, Pending, batch, fresh
<1>5. \A m \in Messages : home[m] \in Nat /\ home[m] <= s
  BY <1>0, SessionTypes DEF Inductive, Numbered, None
<1>6. Covering'
  BY <1>1, <1>4 DEF Covering
<1>7. ASSUME NEW r \in Nat, r <= s, NEW b, Since(r, b) PROVE Since(r, b)'
  <2> SUFFICES ASSUME NEW m \in Messages, b[m] # 0, home[m] >= r, home[m] = r => seq[m] = b[m]
               PROVE  home'[m] >= r /\ (home'[m] = r => seq'[m] = b[m])
    BY <1>7 DEF Since, Carried
  <2>1. CASE m \in batch
    BY <2>1, <1>4, <1>5, <1>7
  <2>2. CASE m \notin batch
    BY <2>2, <1>4
  <2>3. QED
    BY <2>1, <2>2
<1>8. Batched'
  <2>1. ASSUME NEW q \in Slots PROVE Since(poll[q].sess, poll[q].batch)'
    <3>1. CASE q = p
      <4>1. \A m \in Messages : poll'[p].batch[m] # 0 =>
              m \in batch /\ poll'[p].batch[m] = seq'[m] /\ home'[m] = s
        BY <1>3, <1>4
      <4>2. s >= s
        BY DEF Sessions
      <4>3. QED
        BY <3>1, <4>1, <4>2, <1>3 DEF Since, Carried
    <3>2. CASE q # p
      <4>1. PICK r, b : r \in Nat /\ r = poll[q].sess /\ b = poll[q].batch
        BY SessionTypes
      <4>2. r <= s /\ Since(r, b)
        BY <4>1, <1>0, SessionTypes DEF Batched
      <4>3. Since(r, b)'
        BY <4>1, <4>2, <1>7
      <4>4. QED
        BY <3>2, <4>1, <4>3, <1>3 DEF Since, Carried
    <3>3. QED
      BY <3>1, <3>2
  <2>2. ASSUME link = "inbox" PROVE Since(token, inbox)'
    <3>1. PICK r, b : r \in Nat /\ r = token /\ b = inbox
      BY SessionTypes
    <3>2. r <= s /\ Since(r, b)
      BY <2>2, <3>1, <1>0, SessionTypes DEF Batched
    <3>3. Since(r, b)'
      BY <3>1, <3>2, <1>7
    <3>4. QED
      BY <3>1, <3>3, <1>1 DEF Since, Carried
  <2>3. QED
    BY <2>1, <2>2, <1>1 DEF Batched
<1>9. SessionOrder'
  <2>1. \A m \in Messages : home'[m] = home[m] \/ home'[m] = poll[p].sess
    BY <1>0, <1>4
  <2>2. \A q \in Slots : poll'[q].sess = poll[q].sess /\ poll'[q].ack = poll[q].ack
    BY <1>0, <1>3
  <2>3. UNCHANGED <<token, inAck, offer, link, outAck>>
    BY <1>1
  <2>4. QED
    BY <2>1, <2>2, <2>3 DEF SessionOrder
<1>10. QED
  BY <1>6, <1>8, <1>9

\* What the plugin does.
LEMMA SessionedLink ==
  ASSUME TypeOK, TypeOK', Inductive, Sessioned,
         \/ SendSession \/ RenewSession \/ GiveUpSession \/ TakeSession
         \/ \E p \in Slots : SendPoll(p)
         \/ GiveUpPoll \/ TakeRefusal \/ TakeAnswer
         \/ WalkStep \/ DeferRest \/ Crash
         \/ \E a \in Actions : CrashInDispatch(a)
  PROVE  Sessioned'
<1> USE DEF Sessioned, rowVars, sessionVars, hubVars, linkVars
<1>1. UNCHANGED hubVars
  BY DEF SendSession, RenewSession, GiveUpSession, TakeSession, SendPoll, GiveUpPoll,
         TakeRefusal, TakeAnswer, WalkStep, SkipEnvelope, TakeNotice, TakeRepeat, TakeDispatch,
         Deliver, EndOfBatch, DeferRest, Crash, CrashInDispatch, Reboot
<1>2. Covering'
  BY <1>1 DEF Covering
<1>3. CASE SendSession \/ RenewSession \/ GiveUpSession \/ GiveUpPoll \/ EndOfBatch
  <2>1. /\ UNCHANGED <<poll, inAck, inbox>> /\ link' # "inbox" /\ token' \in {token, None}
        /\ offer' # None => offer' = offer /\ link' = link
    BY <1>3 DEF SendSession, RenewSession, GiveUpSession, GiveUpPoll, EndOfBatch, SessionOrder
  <2>2. SessionOrder'
    BY <2>1, <1>1 DEF SessionOrder
  <2>3. Batched'
    BY <2>1, <1>1 DEF Batched, Since, Carried
  <2>4. QED
    BY <2>2, <2>3, <1>2
<1>4. CASE TakeSession
  <2>1. /\ UNCHANGED poll /\ token' = offer /\ offer # None /\ inAck' = 0
        /\ link' = "idle" /\ offer' = None
    BY <1>4 DEF TakeSession, AckAtStart, FirstAck, Inductive, LinkShape
  <2>2. SessionOrder'
    <3>1. /\ \A m \in Messages : home[m] <= offer
          /\ \A p \in Slots : poll[p].sess <= offer /\ poll[p].sess # offer
          /\ outAck[offer] = 0
      BY <2>1, SessionTypes DEF SessionOrder
    <3>2. QED
      BY <2>1, <3>1, <1>1 DEF SessionOrder
  <2>3. Batched'
    BY <2>1, <1>1 DEF Batched, Since, Carried
  <2>4. QED
    BY <2>2, <2>3, <1>2
<1>5. ASSUME NEW p \in Slots, SendPoll(p) PROVE Sessioned'
  <2>1. /\ UNCHANGED <<token, inAck, offer>> /\ token # None /\ link = "idle" /\ link' = "poll"
        /\ \A q \in Slots : q # p => poll'[q] = poll[q]
        /\ poll'[p].sess = token /\ poll'[p].ack = inAck /\ poll'[p].batch = NoBatch
    BY <1>5 DEF SendPoll, TypeOK
  <2>2. offer = None
    BY <2>1 DEF SessionOrder
  <2>3. SessionOrder'
    BY <2>1, <2>2, <1>1, SessionTypes DEF SessionOrder
  <2>4. Batched'
    BY <2>1, <1>1, SinceKept DEF Batched
  <2>5. QED
    BY <2>3, <2>4, <1>2
<1>6. CASE TakeRefusal \/ TakeAnswer
  <2>0. current \in Slots /\ link = "poll" /\ poll[current].sess = token
    BY <1>6 DEF TakeRefusal, TakeAnswer, TypeOK, Inductive, LinkShape
  <2>1. /\ current \in Slots /\ link = "poll" /\ poll[current].sess = token
        /\ \A q \in Slots : q # current => poll'[q] = poll[q]
        /\ poll'[current].sess = 0 /\ poll'[current].ack = 0 /\ poll'[current].batch = NoBatch
        /\ UNCHANGED <<inAck, offer>> /\ link' # "offered"
        /\ \/ token' = None /\ link' = "idle"
           \/ token' = token /\ link' = "inbox" /\ inbox' = poll[current].batch
    <3>1. poll' = [poll EXCEPT ![current] = NoPoll]
      BY <1>6 DEF TakeRefusal, TakeAnswer
    <3>2. /\ \A q \in Slots : q # current => poll'[q] = poll[q]
          /\ poll'[current] = NoPoll
      BY <2>0, <3>1 DEF TypeOK
    <3>3. /\ UNCHANGED <<inAck, offer>> /\ link' # "offered"
          /\ \/ token' = None /\ link' = "idle"
             \/ token' = token /\ link' = "inbox" /\ inbox' = poll[current].batch
      BY <1>6 DEF TakeRefusal, TakeAnswer
    <3>4. NoPoll.sess = 0 /\ NoPoll.ack = 0 /\ NoPoll.batch = NoBatch
      BY DEF NoPoll, None
    <3>5. QED
      BY <2>0, <3>2, <3>3, <3>4
  <2>2. offer = None
    BY <2>1 DEF SessionOrder
  <2>3. SessionOrder'
    <3>1. token' # None => \A q \in Slots :
            poll'[q].sess <= token /\ (poll'[q].sess = token => poll'[q].ack <= inAck)
      BY <2>1, SessionTypes DEF SessionOrder, None
    <3>2. token' # None => token' = token
      BY <2>1
    <3>3. QED
      BY <2>1, <2>2, <3>1, <3>2, <1>1 DEF SessionOrder
  <2>4. Batched'
    <3>1. \A q \in Slots : Since(poll[q].sess, poll[q].batch)'
      BY <2>1, <1>1, SinceKept DEF Batched
    <3>2. link' = "inbox" => Since(token, inbox)'
      BY <2>1, <1>1 DEF Batched, Since, Carried
    <3>3. QED
      BY <3>1, <3>2 DEF Batched
  <2>5. QED
    BY <2>3, <2>4, <1>2
<1>7. ASSUME NEW m \in Messages, link = "inbox", UNCHANGED <<poll, link, offer, token>>,
             inAck' \in Nat, inAck' >= inAck,
             inbox' = [inbox EXCEPT ![m] = 0] \/ inbox' = NoBatch
      PROVE  Sessioned'
  <2>1. \A n \in Carried(inbox') : n \in Carried(inbox) /\ inbox'[n] = inbox[n]
    BY <1>7 DEF Carried, TypeOK, Batches, NoBatch
  <2>2. Batched'
    BY <2>1, <1>1, <1>7 DEF Batched, Since, Carried
  <2>3. offer = None
    BY <1>7 DEF SessionOrder
  <2>4. ASSUME token # None
        PROVE  /\ \A p \in Slots : poll[p].sess = token => poll[p].ack <= inAck'
               /\ outAck[token] <= inAck'
    BY <2>4, <1>7, SessionTypes DEF SessionOrder
  <2>5. SessionOrder'
    BY <2>3, <2>4, <1>1, <1>7 DEF SessionOrder
  <2>6. QED
    BY <2>2, <2>5, <1>2
<1>8. CASE DeferRest \/ (\E m \in Messages : SkipEnvelope(m))
           \/ (\E n \in Notices : TakeNotice(n))
           \/ \E a \in Actions : TakeRepeat(a) \/ TakeDispatch(a)
  <2>1. PICK m \in Messages :
          /\ link = "inbox" /\ UNCHANGED <<poll, link, offer, token>>
          /\ inbox' = [inbox EXCEPT ![m] = 0] \/ inbox' = NoBatch
          /\ inAck' = inAck \/ (inAck' = inbox[m] /\ inbox[m] = inAck + 1)
    BY <1>8 DEF DeferRest, SkipEnvelope, TakeNotice, TakeRepeat, TakeDispatch, Deliver, Walk,
                InArrivalOrder, NextInSeq, Messages
  <2>2. inAck' \in Nat /\ inAck' >= inAck
    BY <2>1, SessionTypes
  <2>3. QED
    BY <2>1, <2>2, <1>7
<1>9. CASE Crash \/ \E a \in Actions : CrashInDispatch(a)
  <2>1. UNCHANGED poll /\ token' = None /\ offer' = None /\ link' = "idle"
    BY <1>9 DEF Crash, CrashInDispatch, Reboot
  <2>2. Batched' /\ SessionOrder'
    BY <2>1, <1>1 DEF Batched, SessionOrder, Since, Carried
  <2>3. QED
    BY <2>2, <1>2
<1>10. QED
  BY <1>3, <1>4, <1>5, <1>6, <1>8, <1>9 DEF WalkStep

\* Every step keeps the sessions in order.
LEMMA SessionedStep ==
  ASSUME TypeOK, TypeOK', Inductive, Ordered, Sessioned, [Next]_vars
  PROVE  Sessioned'
<1>1. CASE UNCHANGED vars
  BY <1>1 DEF vars, hubVars, rowVars, sessionVars, linkVars, Sessioned, SessionOrder, Batched,
              Covering, Since, Carried
<1>2. CASE Next
  BY <1>2, SessionedQueue, SessionedNoRead, SessionedAck, SessionedRead, SessionedLink
     DEF Next, HubStep
<1>3. QED
  BY <1>1, <1>2

-------------------------------------------------------------------------------
(* The executed-action record *)

\* A set of envelopes has a last one.
LEMMA LastOf ==
  ASSUME NEW S \in SUBSET Messages, S # {}
  PROVE  \E x \in S : \A y \in S : y <= x
<1> DEFINE Above(x) == {y \in S : y > x}
           T == {Above(x) : x \in S}
           R == StrictSubsetOrdering(S)
<1>1. S \subseteq Nat
  BY MessagesAssumption DEF Messages
<1>2. IsWellFoundedOn(R, FiniteSubsetsOf(S))
  BY FS_StrictSubsetOrderingWellFounded
<1>3. T \subseteq FiniteSubsetsOf(S) /\ T # {}
  <2>1. \A x \in S : Above(x) \in SUBSET S /\ IsFiniteSet(Above(x))
    <3>1. \A x \in S : Above(x) \in SUBSET S
      OBVIOUS
    <3>2. IsFiniteSet(S)
      BY MessagesFinite
    <3> HIDE DEF Above
    <3>3. QED
      BY <3>1, <3>2, FS_Subset
  <2> HIDE DEF Above
  <2>2. QED
    BY <2>1 DEF FiniteSubsetsOf
<1> HIDE DEF R, T
<1>4. PICK t \in T : \A u \in T : ~ (<<u, t>> \in R)
  BY <1>2, <1>3, WFMin
<1>5. PICK x \in S : t = Above(x)
  BY DEF T
<1>6. ASSUME NEW y \in S, y > x PROVE FALSE
  <2>1. Above(y) \in SUBSET S /\ Above(x) \in SUBSET S
    OBVIOUS
  <2>2. Above(y) \subseteq Above(x) /\ y \in Above(x) /\ y \notin Above(y)
    <3>1. \A z \in S : z > y => z > x
      BY <1>1, <1>6
    <3>2. ~(y > y)
      BY <1>1
    <3>3. QED
      BY <1>6, <3>1, <3>2
  <2>3. Above(y) \in T
    BY DEF T
  <2> HIDE DEF Above
  <2>4. Above(y) # Above(x)
    BY <2>2
  <2>5. <<Above(y), Above(x)>> \in R
    BY <2>1, <2>2, <2>4 DEF R, StrictSubsetOrdering
  <2>6. QED
    BY <2>3, <2>5, <1>4, <1>5
<1>7. QED
  BY <1>1, <1>6

\* Behind a row still in the queue fewer than BatchLimit rows have a number.
LEMMA YoungerBound ==
  ASSUME TypeOK, Ordered, NEW c \in Messages, phase[c] = "pending"
  PROVE  /\ IsFiniteSet(Younger(c)) /\ Cardinality(Younger(c)) \in Nat
         /\ Cardinality(Younger(c)) < BatchLimit
<1>1. Younger(c) \in SUBSET Messages
  BY DEF Younger
<1>2. IsFiniteSet(Younger(c)) /\ Cardinality(Younger(c)) \in Nat
  BY <1>1, MessagesFinite
<1>3. CASE Younger(c) = {}
  BY <1>3, FS_EmptySet, LimitsAssumption
<1>4. CASE Younger(c) # {}
  <2>1. PICK x \in Younger(c) : \A y \in Younger(c) : y <= x
    BY <1>1, <1>4, LastOf
  <2>2. \A y \in Younger(c) : y \in Messages /\ c < y /\ home[y] # None /\ phase[y] = "pending"
    BY DEF Younger, Ordered, OldestFirst
  <2>3. Cardinality(Elder(x)) < BatchLimit
    BY <2>2 DEF Ordered, InWindow
  <2> DEFINE rest == Younger(c) \ {x}
  <2>4. /\ IsFiniteSet(rest) /\ Cardinality(rest) = Cardinality(Younger(c)) - 1
    BY <1>2, FS_RemoveElement
  <2>5. c \notin rest
    BY MessagesAssumption DEF Younger, Messages
  <2>6. rest \cup {c} \subseteq Elder(x)
    <3>1. \A y \in Messages : y \in Nat
      BY MessagesAssumption DEF Messages
    <3>2. \A y \in rest : y \in Messages /\ y < x /\ phase[y] = "pending"
      BY <2>1, <2>2, <3>1
    <3>3. c < x
      BY <2>2
    <3>4. QED
      BY <3>2, <3>3 DEF Elder
  <2> HIDE DEF rest
  <2>7. Cardinality(rest \cup {c}) = Cardinality(rest) + 1
    BY <2>4, <2>5, FS_AddElement
  <2>8. /\ IsFiniteSet(Elder(x)) /\ Cardinality(Elder(x)) \in Nat
        /\ Cardinality(rest \cup {c}) <= Cardinality(Elder(x))
    <3>1. Elder(x) \subseteq Messages
      BY DEF Elder
    <3>2. IsFiniteSet(Elder(x)) /\ Cardinality(Elder(x)) \in Nat
      BY <3>1, MessagesFinite
    <3>3. QED
      BY <2>6, <3>2, FS_Subset
  <2>9. QED
    BY <1>2, <2>3, <2>4, <2>7, <2>8, LimitsAssumption
<1>5. QED
  BY <1>2, <1>3, <1>4

\* The rows recorded after c although they sort before it, and those that can
\* still be.
Overtaking(record, c) == Elder(c) \cup {d \in Later(record, c) : d < c}

\* A record has each id once, only of rows that were numbered, and behind one
\* still in the queue not too many elder ones.
Tidy(record) ==
  /\ Distinct(record)
  /\ \A c \in Actions : Holds(record, c) =>
       /\ home[c] # None
       /\ phase[c] = "pending" => Cardinality(Overtaking(record, c)) < BatchLimit

\* An action that ran, was logged and can come again is on both records.
Remembered ==
  \A a \in Actions : runs[a] > 0 =>
    /\ home[a] # None
    /\ a \notin forgotten /\ phase[a] = "pending" => Holds(executed, a) /\ Holds(log, a)

Recording == Tidy(executed) /\ Tidy(log) /\ Remembered /\ AtMostOnce

LEMMA OvertakingFinite ==
  ASSUME NEW record, NEW c
  PROVE  IsFiniteSet(Overtaking(record, c)) /\ Cardinality(Overtaking(record, c)) \in Nat
<1>1. Overtaking(record, c) \subseteq Messages
  BY DEF Overtaking, Elder, Later, Messages
<1>2. QED
  BY <1>1, MessagesFinite

\* What the plugin takes delivery of is a row still in the queue.
LEMMA Deliverable ==
  ASSUME TypeOK, Inductive, Sessioned,
         NEW m \in Messages, InArrivalOrder(m), NextInSeq(inbox[m])
  PROVE  home[m] # None /\ phase[m] = "pending"
<1>1. link = "inbox" /\ token # None /\ m \in Carried(inbox) /\ inbox[m] = inAck + 1
  BY DEF InArrivalOrder, NextInSeq, Inductive, LinkShape
<1>2. home[m] # None
  BY <1>1 DEF Inductive, Numbered
<1>3. home[m] = token /\ seq[m] = inAck + 1
  <2>1. home[m] >= token /\ home[m] <= token
    BY <1>1 DEF Sessioned, Batched, SessionOrder, Since
  <2>2. home[m] = token
    BY <2>1, SessionTypes
  <2>3. QED
    BY <1>1, <2>2 DEF Sessioned, Batched, Since
<1>4. phase[m] # "acked"
  <2>1. outAck[token] <= inAck /\ outAck[token] \in Nat /\ inAck \in Nat
    BY <1>1, SessionTypes DEF Sessioned, SessionOrder
  <2>2. ~(inAck + 1 <= outAck[token])
    BY <2>1
  <2>3. QED
    BY <1>3, <2>2 DEF Sessioned, Covering
<1>5. QED
  BY <1>2, <1>4 DEF Inductive, Numbered

\* A record stays tidy while nothing is recorded.
LEMMA TidyKept ==
  ASSUME TypeOK, Fading, NEW record, Tidy(record)
  PROVE  Tidy(record)'
<1> SUFFICES ASSUME NEW c \in Actions, Holds(record, c)
             PROVE  /\ home'[c] # None
                    /\ phase'[c] = "pending" => Cardinality(Overtaking(record, c)') < BatchLimit
  BY DEF Tidy, Distinct, Holds
<1>1. c \in Messages /\ home[c] # None
  BY DEF Tidy, Messages
<1>2. home'[c] # None
  <2>1. home[c] \in Nat /\ home'[c] >= home[c]
    BY <1>1, SessionTypes DEF Fading
  <2>2. QED
    BY <1>1, <2>1 DEF None
<1>3. ASSUME phase'[c] = "pending" PROVE Cardinality(Overtaking(record, c)') < BatchLimit
  <2>1. phase[c] = "pending" /\ Elder(c)' \subseteq Elder(c)
    BY <1>1, <1>3 DEF Fading
  <2>2. Overtaking(record, c)' \subseteq Overtaking(record, c)
    BY <2>1 DEF Overtaking, Later
  <2>3. Cardinality(Overtaking(record, c)) < BatchLimit
    BY <2>1 DEF Tidy
  <2>4. /\ Cardinality(Overtaking(record, c)') <= Cardinality(Overtaking(record, c))
        /\ Cardinality(Overtaking(record, c)') \in Nat
    BY <2>2, OvertakingFinite, FS_Subset, FS_CardinalityType
  <2>5. QED
    BY <2>3, <2>4, OvertakingFinite, LimitsAssumption
<1>4. QED
  BY <1>2, <1>3

\* A record stays tidy when a deliverable id is recorded.
LEMMA TidyRecorded ==
  ASSUME TypeOK, Ordered, NEW record \in Seq(Actions), Tidy(record),
         NEW a \in Actions, home[a] # None, phase[a] = "pending"
  PROVE  Tidy(Recorded(record, a))
<1> DEFINE new == Recorded(record, a)
<1>1. /\ Distinct(new) /\ Later(new, a) = {}
      /\ \A c \in Actions : Holds(new, c) /\ c # a => Holds(record, c)
      /\ \A c \in Actions : Later(new, c) \subseteq Later(record, c) \cup {a}
  BY RecordedKeeps DEF Tidy
<1> HIDE DEF new
<1> SUFFICES ASSUME NEW c \in Actions, Holds(new, c)
             PROVE  /\ home[c] # None
                    /\ phase[c] = "pending" => Cardinality(Overtaking(new, c)) < BatchLimit
  BY <1>1 DEF Tidy, new
<1>2. CASE c = a
  <2>1. Overtaking(new, a) = Elder(a)
    BY <1>1 DEF Overtaking
  <2>2. Cardinality(Elder(a)) < BatchLimit
    BY DEF Ordered, InWindow, Messages
  <2>3. QED
    BY <1>2, <2>1, <2>2
<1>3. CASE c # a
  <2>1. Holds(record, c)
    BY <1>1, <1>3
  <2>2. home[c] # None
    BY <2>1 DEF Tidy
  <2>3. ASSUME phase[c] = "pending" PROVE Cardinality(Overtaking(new, c)) < BatchLimit
    <3>1. a < c => a \in Elder(c)
      BY DEF Elder, Messages
    <3>2. Overtaking(new, c) \subseteq Overtaking(record, c)
      BY <3>1, <1>1 DEF Overtaking
    <3>3. Cardinality(Overtaking(record, c)) < BatchLimit
      BY <2>1, <2>3 DEF Tidy
    <3>4. Cardinality(Overtaking(new, c)) <= Cardinality(Overtaking(record, c))
      BY <3>2, OvertakingFinite, FS_Subset
    <3>5. QED
      BY <3>3, <3>4, OvertakingFinite, LimitsAssumption
  <2>4. QED
    BY <2>2, <2>3
<1>4. QED
  BY <1>2, <1>3

\* What a boot reads of a tidy record is tidy, and lacks only what is forgotten.
LEMMA TidyRestored ==
  ASSUME forgotten \subseteq Actions,
         NEW record \in Seq(Actions), Tidy(record), Restore(record), NEW part, part = executed'
  PROVE  /\ Tidy(part) /\ forgotten \subseteq forgotten'
         /\ \A c \in Actions : Holds(record, c) /\ c \notin forgotten' => Holds(part, c)
<1>1. PICK i, j \in 0..Len(record) :
        /\ i <= j /\ Len(part) = Len(record) - (j - i)
        /\ \A k \in 1..Len(part) : part[k] = record[IF k <= i THEN k ELSE k + (j - i)]
        /\ \A k \in (i + 1)..j : record[k] \in forgotten'
  BY RestoredShape
<1>2. part \in Seq(Actions) /\ forgotten \subseteq forgotten'
  BY RestoredShape
<1>3. i \in Nat /\ j \in Nat /\ i <= j /\ j <= Len(record) /\ Len(record) \in Nat
  BY <1>1
<1> DEFINE at == [k \in 1..Len(part) |-> IF k <= i THEN k ELSE k + (j - i)]
<1>4. /\ \A k \in 1..Len(part) : at[k] \in 1..Len(record) /\ part[k] = record[at[k]]
      /\ \A k, n \in 1..Len(part) : (k < n => at[k] < at[n]) /\ (at[k] = at[n] => k = n)
  BY <1>1, <1>3
<1> HIDE DEF at
<1>5. Distinct(part)
  BY <1>4 DEF Distinct, Tidy
<1>6. \A c \in Actions : Holds(part, c) => Holds(record, c)
  BY <1>4 DEF Holds
<1>7. \A c \in Actions : Later(part, c) \subseteq Later(record, c)
  BY <1>4 DEF Later
<1>8. ASSUME NEW c \in Actions, Holds(part, c), phase[c] = "pending"
      PROVE  Cardinality(Overtaking(part, c)) < BatchLimit
  <2>1. Cardinality(Overtaking(record, c)) < BatchLimit
    BY <1>6, <1>8 DEF Tidy
  <2>2. Overtaking(part, c) \subseteq Overtaking(record, c)
    BY <1>7 DEF Overtaking
  <2>3. Cardinality(Overtaking(part, c)) <= Cardinality(Overtaking(record, c))
    BY <2>2, OvertakingFinite, FS_Subset
  <2>4. QED
    BY <2>1, <2>3, OvertakingFinite, LimitsAssumption
<1>9. Tidy(part)
  BY <1>5, <1>6, <1>8 DEF Tidy
<1>10. ASSUME NEW c \in Actions, Holds(record, c), c \notin forgotten' PROVE Holds(part, c)
  <2>1. PICK n \in 1..Len(record) : record[n] = c
    BY <1>10 DEF Holds
  <2>2. ~(n \in (i + 1)..j)
    BY <1>1, <1>10, <2>1
  <2> DEFINE k == IF n <= i THEN n ELSE n - (j - i)
  <2>3. k \in 1..Len(part) /\ (IF k <= i THEN k ELSE k + (j - i)) = n
    BY <1>1, <1>3, <2>2
  <2> HIDE DEF k
  <2>4. part[k] = c
    BY <1>1, <2>1, <2>3
  <2>5. QED
    BY <2>3, <2>4 DEF Holds
<1>11. QED
  BY <1>2, <1>9, <1>10

\* Recording a deliverable id pushes none out of the record that can come again:
\* at most BatchLimit - 1 younger and as many elder ones were recorded after it.
LEMMA NoneForgotten ==
  ASSUME TypeOK, Ordered, 2 * BatchLimit <= LruCapacity + 1,
         NEW record \in Seq(Actions), Tidy(record),
         NEW a \in Actions, home[a] # None, phase[a] = "pending",
         NEW c \in Actions, Holds(record, c), phase[c] = "pending"
  PROVE  Holds(Recorded(record, a), c)
<1> SUFFICES ASSUME ~Holds(Recorded(record, a), c) PROVE FALSE
  OBVIOUS
<1> DEFINE S == Later(record, c) \cup {a}
<1>1. Cardinality(S) >= LruCapacity /\ c # a
  BY RecordedKeeps DEF Tidy
<1>2. a \in Messages /\ c \in Messages /\ \A d \in Messages : d \in Nat
  BY MessagesAssumption DEF Messages
<1>3. \A d \in Later(record, c) : d \in Messages /\ home[d] # None /\ d # c
  <2> SUFFICES ASSUME NEW d \in Later(record, c)
               PROVE  d \in Messages /\ home[d] # None /\ d # c
    OBVIOUS
  <2>1. PICK i, j \in 1..Len(record) : i < j /\ record[i] = c /\ record[j] = d /\ d \in Actions
    BY DEF Later
  <2>2. Holds(record, d)
    BY <2>1 DEF Holds
  <2>3. d # c
    BY <2>1 DEF Tidy, Distinct
  <2>4. QED
    BY <2>1, <2>2, <2>3 DEF Tidy, Messages
<1>4. S \subseteq Younger(c) \cup Overtaking(record, c)
  <2>1. \A d \in S : d \in Messages /\ home[d] # None /\ (c < d \/ d < c)
    BY <1>1, <1>2, <1>3
  <2>2. ASSUME NEW d \in S, d < c PROVE d \in Overtaking(record, c)
    <3>1. CASE d = a
      BY <2>2, <3>1, <1>2 DEF Overtaking, Elder
    <3>2. CASE d # a
      BY <2>2, <3>2 DEF Overtaking
    <3>3. QED
      BY <3>1, <3>2
  <2> HIDE DEF S
  <2>3. QED
    BY <2>1, <2>2 DEF Younger
<1> HIDE DEF S
<1>5. /\ IsFiniteSet(Younger(c)) /\ Cardinality(Younger(c)) \in Nat
      /\ Cardinality(Younger(c)) < BatchLimit
  BY <1>2, YoungerBound
<1>6. /\ IsFiniteSet(Overtaking(record, c)) /\ Cardinality(Overtaking(record, c)) \in Nat
      /\ Cardinality(Overtaking(record, c)) < BatchLimit
  BY OvertakingFinite DEF Tidy
<1> DEFINE U == Younger(c) \cup Overtaking(record, c)
           both == Younger(c) \cap Overtaking(record, c)
<1>7. /\ IsFiniteSet(U)
      /\ Cardinality(U) = Cardinality(Younger(c)) + Cardinality(Overtaking(record, c))
                            - Cardinality(both)
  BY <1>5, <1>6, FS_Union
<1>8. Cardinality(both) \in Nat
  BY <1>5, FS_Subset, FS_CardinalityType
<1>9. Cardinality(S) <= Cardinality(U) /\ Cardinality(S) \in Nat /\ Cardinality(U) \in Nat
  <2> HIDE DEF U
  <2>1. S \subseteq U
    BY <1>4 DEF U
  <2>2. QED
    BY <2>1, <1>7, FS_Subset, FS_CardinalityType
<1> HIDE DEF U, both
<1>10. QED
  BY <1>1, <1>5, <1>6, <1>7, <1>8, <1>9, LimitsAssumption

\* Every step keeps what has to be remembered.
LEMMA RecordingStep ==
  ASSUME InOrder, 2 * BatchLimit <= LruCapacity + 1,
         TypeOK, Inductive, Ordered, Sessioned, Recording, Fading, [Next]_vars
  PROVE  Recording'
<1> USE DEF Recording
<1>1. /\ executed \in Seq(Actions) /\ log \in Seq(Actions) /\ runs \in [Actions -> Nat]
      /\ forgotten \subseteq Actions /\ Actions \subseteq Messages
  BY DEF TypeOK, Messages
\* What was numbered stays so, and comes back to no queue.
<1>2. \A c \in Actions : home[c] # None =>
        home'[c] # None /\ (phase'[c] = "pending" => phase[c] = "pending")
  <2>1. \A c \in Actions : home[c] \in Nat
    BY <1>1, SessionTypes
  <2>2. QED
    BY <2>1, <1>1 DEF Fading, None
<1>3. ASSUME NEW r, Tidy(r), r = executed' PROVE Tidy(executed)'
  <2>1. Tidy(r)'
    BY <1>3, TidyKept
  <2>2. ASSUME NEW c \in Actions
        PROVE  /\ Overtaking(executed, c)' = Overtaking(r, c)'
               /\ Holds(executed, c)' = Holds(r, c)'
    BY <1>3 DEF Overtaking, Later, Elder, Holds
  <2>3. Distinct(executed)' = Distinct(r)'
    BY <1>3 DEF Distinct
  <2>4. QED
    BY <2>1, <2>2, <2>3 DEF Tidy
<1>4. ASSUME NEW r, Tidy(r), r = log' PROVE Tidy(log)'
  <2>1. Tidy(r)'
    BY <1>4, TidyKept
  <2>2. ASSUME NEW c \in Actions
        PROVE  /\ Overtaking(log, c)' = Overtaking(r, c)'
               /\ Holds(log, c)' = Holds(r, c)'
    BY <1>4 DEF Overtaking, Later, Elder, Holds
  <2>3. Distinct(log)' = Distinct(r)'
    BY <1>4 DEF Distinct
  <2>4. QED
    BY <2>1, <2>2, <2>3 DEF Tidy
<1>5. ASSUME UNCHANGED <<executed, log, forgotten, runs>> PROVE Recording'
  <2>1. Tidy(executed)' /\ Tidy(log)'
    BY <1>3, <1>4, <1>5
  <2>2. Remembered'
    BY <1>1, <1>2, <1>5 DEF Remembered, Holds
  <2>3. AtMostOnce'
    BY <1>5 DEF AtMostOnce
  <2>4. QED
    BY <2>1, <2>2, <2>3
<1>6. ASSUME NEW a \in Actions, InArrivalOrder(a), NextInSeq(inbox[a])
      PROVE  /\ home[a] # None /\ phase[a] = "pending"
             /\ \A r \in {executed, log} :
                  /\ Tidy(Recorded(r, a)) /\ Holds(Recorded(r, a), a)
                  /\ \A c \in Actions : phase[c] = "pending" /\ Holds(r, c)
                       => Holds(Recorded(r, a), c)
  <2>1. home[a] # None /\ phase[a] = "pending"
    BY <1>1, <1>6, Deliverable
  <2>2. ASSUME NEW r \in {executed, log}
        PROVE  /\ Tidy(Recorded(r, a)) /\ Holds(Recorded(r, a), a)
               /\ \A c \in Actions : phase[c] = "pending" /\ Holds(r, c)
                    => Holds(Recorded(r, a), c)
    <3>1. r \in Seq(Actions) /\ Tidy(r)
      BY <1>1
    <3>2. Tidy(Recorded(r, a))
      BY <2>1, <3>1, TidyRecorded
    <3>3. Holds(Recorded(r, a), a)
      BY <3>1, RecordedKeeps DEF Tidy
    <3>4. ASSUME NEW c \in Actions, phase[c] = "pending", Holds(r, c)
          PROVE  Holds(Recorded(r, a), c)
      BY <2>1, <3>1, <3>4, NoneForgotten
    <3>5. QED
      BY <3>2, <3>3, <3>4
  <2>3. QED
    BY <2>1, <2>2
<1>7. ASSUME NEW a \in Actions, TakeDispatch(a) PROVE Recording'
  <2>1. /\ InArrivalOrder(a) /\ NextInSeq(inbox[a]) /\ ~Holds(executed, a)
        /\ UNCHANGED <<home, phase>>
        /\ executed' = Recorded(executed, a)
        /\ \/ log' = Recorded(log, a) /\ forgotten' = forgotten
           \/ log' = log /\ forgotten' = forgotten \cup {a}
    BY <1>7 DEF TakeDispatch, Deliver, LogExecuted, Known, Holds, hubVars, rowVars
  <2>2. PICK ran \in {0, 1} : runs' = [runs EXCEPT ![a] = @ + ran]
    BY <1>7 DEF TakeDispatch
  <2>3. /\ \A c \in Actions : c # a => runs'[c] = runs[c]
        /\ runs'[a] \in {runs[a], runs[a] + 1} /\ runs[a] \in Nat
    BY <2>2, <1>1
  <2>4. Tidy(executed)' /\ Tidy(log)'
    BY <2>1, <1>3, <1>4, <1>6
  <2>5. runs[a] > 0 => a \in forgotten
    BY <2>1, <1>6 DEF Remembered
  <2>6. AtMostOnce'
    BY <2>1, <2>3, <2>5 DEF AtMostOnce
  <2>7. ASSUME NEW c \in Actions, runs'[c] > 0, c \notin forgotten', phase[c] = "pending"
        PROVE  Holds(executed', c) /\ Holds(log', c)
    <3>1. CASE c = a
      BY <3>1, <2>1, <2>7, <1>6
    <3>2. CASE c # a
      <4>1. Holds(executed, c) /\ Holds(log, c)
        BY <3>2, <2>1, <2>3, <2>7 DEF Remembered
      <4>2. QED
        BY <4>1, <2>1, <2>7, <1>6
    <3>3. QED
      BY <3>1, <3>2
  <2>8. \A c \in Actions : runs'[c] > 0 => home[c] # None
    BY <2>1, <2>3, <1>6 DEF Remembered
  <2>9. Remembered'
    BY <2>1, <2>7, <2>8 DEF Remembered, Holds
  <2>10. QED
    BY <2>4, <2>6, <2>9
<1>8. ASSUME NEW a \in Actions, CrashInDispatch(a) PROVE Recording'
  <2>1. /\ InArrivalOrder(a) /\ NextInSeq(inbox[a]) /\ UNCHANGED <<home, phase, runs>>
        /\ log' = Recorded(log, a) /\ Restore(Recorded(log, a))
    BY <1>8 DEF CrashInDispatch, Reboot, hubVars, rowVars
  <2>2. Tidy(Recorded(log, a)) /\ Recorded(log, a) \in Seq(Actions)
    <3>1. Len(log) <= LruCapacity
      BY DEF TypeOK
    <3>2. QED
      BY <1>1, <2>1, <3>1, <1>6, RecordedType
  <2>3. /\ Tidy(executed') /\ forgotten \subseteq forgotten'
        /\ \A c \in Actions :
             Holds(Recorded(log, a), c) /\ c \notin forgotten' => Holds(executed', c)
    BY <1>1, <2>1, <2>2, TidyRestored
  <2>4. Tidy(executed)' /\ Tidy(log)'
    BY <2>1, <2>2, <2>3, <1>3, <1>4
  <2>5. AtMostOnce'
    BY <2>1, <2>3 DEF AtMostOnce
  <2>6. ASSUME NEW c \in Actions, runs[c] > 0, c \notin forgotten', phase[c] = "pending"
        PROVE  Holds(executed', c) /\ Holds(log', c)
    <3>1. Holds(log, c)
      BY <2>3, <2>6 DEF Remembered
    <3>2. Holds(Recorded(log, a), c)
      BY <2>1, <2>6, <3>1, <1>6
    <3>3. QED
      BY <2>1, <2>3, <2>6, <3>2
  <2>7. \A c \in Actions : runs[c] > 0 => home[c] # None
    BY DEF Remembered
  <2>8. Remembered'
    BY <2>1, <2>6, <2>7 DEF Remembered, Holds
  <2>9. QED
    BY <2>4, <2>5, <2>8
<1>9. CASE Crash
  <2>1. UNCHANGED <<home, phase, log, runs>> /\ Restore(log)
    BY <1>9 DEF Crash, Reboot, hubVars, rowVars
  <2>2. /\ Tidy(executed') /\ forgotten \subseteq forgotten'
        /\ \A c \in Actions : Holds(log, c) /\ c \notin forgotten' => Holds(executed', c)
    BY <1>1, <2>1, TidyRestored
  <2>3. Tidy(executed)' /\ Tidy(log)'
    BY <2>1, <2>2, <1>3, <1>4
  <2>4. AtMostOnce'
    BY <2>1, <2>2 DEF AtMostOnce
  <2>5. \A c \in Actions :
          runs[c] > 0 /\ c \notin forgotten' /\ phase[c] = "pending"
            => Holds(executed', c) /\ Holds(log', c)
    BY <2>1, <2>2 DEF Remembered
  <2>6. \A c \in Actions : runs[c] > 0 => home[c] # None
    BY DEF Remembered
  <2>7. Remembered'
    BY <2>1, <2>5, <2>6 DEF Remembered, Holds
  <2>8. QED
    BY <2>3, <2>4, <2>7
<1>10. \/ \E a \in Actions : TakeDispatch(a) \/ CrashInDispatch(a)
       \/ Crash
       \/ UNCHANGED <<executed, log, forgotten, runs>>
  BY DEF Next, HubStep, WalkStep, vars, ledgerVars, DispatchAction, QueueEnvelope,
     ExpireOnRead, PassDeadline, ExpireActions, StartSession, StartSessionLate, EndSession,
     RefuseSession, AckOutbound, NextOutbound, AnswerEmpty, Vanish, SendPoll, SendSession,
     RenewSession, GiveUpSession, TakeSession, GiveUpPoll, TakeRefusal, TakeAnswer,
     SkipEnvelope, TakeNotice, TakeRepeat, EndOfBatch, DeferRest
<1>11. QED
  BY <1>5, <1>7, <1>8, <1>9, <1>10

\* The inductive invariant behind AtMostOnce.
OnceInductive == Ordered /\ Sessioned /\ Recording

LEMMA OnceInit == Init => OnceInductive
<1> SUFFICES ASSUME Init PROVE OnceInductive
  OBVIOUS
<1>1. Ordered
  BY DEF Init, Ordered, BornInOrder, OldestFirst, InWindow, LiveIsLast
<1>2. SessionOrder /\ Covering
  BY DEF Init, SessionOrder, Covering
<1>3. Batched
  BY DEF Init, Batched, Since, Carried, NoPoll, NoBatch
<1>4. Recording
  <2>1. Len(<<>>) = 0
    OBVIOUS
  <2>2. \A i \in 1..Len(<<>>) : FALSE
    BY <2>1
  <2>3. executed = <<>> /\ log = <<>> /\ \A a \in Actions : runs[a] = 0
    BY DEF Init
  <2>4. Tidy(executed) /\ Tidy(log)
    BY <2>2, <2>3 DEF Tidy, Distinct, Holds
  <2>5. Remembered /\ AtMostOnce
    BY <2>3 DEF Remembered, AtMostOnce
  <2>6. QED
    BY <2>4, <2>5 DEF Recording
<1>5. QED
  BY <1>1, <1>2, <1>3, <1>4 DEF OnceInductive, Sessioned

\* As long as the clock never steps back and the record of executed ids holds
\* twice the batch but one, an action runs at most once, whatever is redelivered
\* across sessions, polls and crashes, unless its log append failed or a boot
\* could not read its record (HandleDispatch, MarkExecuted, LoadExecuted).
THEOREM RunsAtMostOnce ==
  ASSUME InOrder, 2 * BatchLimit <= LruCapacity + 1
  PROVE  Spec => []AtMostOnce
<1>1. Init => OnceInductive
  BY OnceInit
<1>2. TypeOK /\ TypeOK' /\ Inductive /\ OnceInductive /\ [Next]_vars => OnceInductive'
  BY OrderedStep, SessionedStep, RecordingStep DEF OnceInductive
<1>3. OnceInductive => AtMostOnce
  BY DEF OnceInductive, Recording
<1>4. QED
  BY <1>1, <1>2, <1>3, TypeCorrect, InductiveInvariant, PTL DEF Spec

\* As long as the clock never steps back, a row once numbered is in every batch
\* read until it leaves the queue: no row that sorts before it can keep it out
\* while the ack waits for its number (NextOutbound).
NumberedAreRead == \A m \in Pending : home[m] # None => m \in Oldest(Pending)

THEOREM NumberedRowsAreRead ==
  ASSUME InOrder
  PROVE  Spec => []NumberedAreRead
<1>1. Init => Ordered
  BY OnceInit DEF OnceInductive
<1>2. TypeOK /\ TypeOK' /\ Inductive /\ Ordered /\ [Next]_vars => Ordered'
  BY OrderedStep
<1>3. Ordered => NumberedAreRead
  BY NumberedInBatch DEF Ordered, NumberedAreRead, Pending
<1>4. QED
  BY <1>1, <1>2, <1>3, TypeCorrect, InductiveInvariant, PTL DEF Spec
===============================================================================
