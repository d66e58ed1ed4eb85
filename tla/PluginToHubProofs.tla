--------------------------- MODULE PluginToHubProofs ---------------------------
(***************************************************************************)
(* Proofs about PluginToHub, for any entries, capacity, batch limit, polls *)
(* and bounds.                                                             *)
(*                                                                         *)
(* The numbers of a session mean one entry each at both ends: the queue    *)
(* numbers what it holds without a gap above the hub's ack, a poll that    *)
(* the hub may apply agrees with the queue on what both still hold, and    *)
(* two such polls agree with each other.  A poll framed before a           *)
(* quarantine moved the numbers carries the refused entry, and so is never *)
(* applied, or stops ahead of it.                                          *)
(***************************************************************************)
EXTENDS PluginToHub, FiniteSetTheorems, TLAPS

-------------------------------------------------------------------------------
(* Ranks *)

Rank(S, n) == Cardinality({m \in S : m <= n})

\* What Renumber and the walk of classifyInbound count is a number of S.
LEMMA RankBounds ==
  ASSUME NEW S \in SUBSET Nat, IsFiniteSet(S), NEW n \in S
  PROVE  Rank(S, n) \in 1..Cardinality(S)
<1> DEFINE R == {m \in S : m <= n}
<1>1. IsFiniteSet(R) /\ Cardinality(R) <= Cardinality(S)
  BY FS_Subset
<1>2. Cardinality(R) \in Nat /\ Cardinality(S) \in Nat
  BY <1>1, FS_CardinalityType
<1>3. n \in R
  OBVIOUS
<1>4. Cardinality(R) # 0
  BY <1>1, <1>3, FS_EmptySet
<1>5. QED
  BY <1>1, <1>2, <1>4 DEF Rank

\* Ranks grow with the entries.
LEMMA RankGrows ==
  ASSUME NEW S \in SUBSET Nat, IsFiniteSet(S), NEW m \in S, NEW n \in S, m < n
  PROVE  Rank(S, m) < Rank(S, n)
<1> DEFINE R == {x \in S : x <= m}
           T == {x \in S : x <= n}
<1>0. m \in Nat /\ n \in Nat /\ \A x \in S : x \in Nat
  OBVIOUS
<1>1. IsFiniteSet(T)
  BY FS_Subset
<1>2. R \in SUBSET T /\ n \in T /\ n \notin R
  <2>1. \A x \in S : x <= m => x <= n
    BY <1>0
  <2>2. n <= n /\ ~(n <= m)
    BY <1>0
  <2>3. QED
    BY <2>1, <2>2
<1>3. /\ IsFiniteSet(R) /\ Cardinality(R) <= Cardinality(T)
      /\ Cardinality(T) = Cardinality(R) => T = R
  BY <1>1, <1>2, FS_Subset
<1>4. Cardinality(R) \in Nat /\ Cardinality(T) \in Nat
  BY <1>1, <1>3, FS_CardinalityType
<1>5. Cardinality(R) < Cardinality(T)
  <2> HIDE DEF R, T
  <2> QED
    BY <1>2, <1>3, <1>4
<1>6. QED
  BY <1>5 DEF Rank

\* Every number up to the size of S is the rank of a member.
LEMMA RankReaches ==
  ASSUME NEW S \in SUBSET Nat, IsFiniteSet(S), NEW v \in 1..Cardinality(S)
  PROVE  \E n \in S : Rank(S, n) = v
<1> DEFINE f == [n \in S |-> Rank(S, n)]
           T == 1..Cardinality(S)
<1>1. Cardinality(S) \in Nat
  BY FS_CardinalityType
<1>2. f \in [S -> T]
  BY RankBounds
<1>3. ASSUME NEW m \in S, NEW n \in S, f[m] = f[n] PROVE m = n
  <2>1. f[m] \in Nat /\ f[n] \in Nat /\ m \in Nat /\ n \in Nat
    BY <1>1, <1>2
  <2>2. ~(m < n)
    BY <1>3, <2>1, RankGrows
  <2>3. ~(n < m)
    BY <1>3, <2>1, RankGrows
  <2>4. QED
    BY <2>1, <2>2, <2>3
<1>4. f \in Injection(S, T)
  BY <1>2, <1>3, Zenon DEF Injection, IsInjective
<1>5. IsFiniteSet(T) /\ Cardinality(T) = Cardinality(S)
  BY <1>1, FS_Interval
<1>6. f \in Surjection(S, T)
  BY <1>4, <1>5, FS_Injection
<1>7. \A t \in T : \E n \in S : f[n] = t
  BY <1>6, Zenon DEF Surjection
<1>8. QED
  BY <1>7

\* The walk over a batch in arrival order counts ranks.
LEMMA BeforeIsRank ==
  ASSUME NEW A \in SUBSET Nat, IsFiniteSet(A), NEW m \in A
  PROVE  Cardinality({n \in A : n < m}) + 1 = Rank(A, m)
<1> DEFINE B == {n \in A : n < m}
<1>1. IsFiniteSet(B) /\ m \notin B
  BY FS_Subset
<1>2. B \cup {m} = {n \in A : n <= m}
  <2>1. m \in Nat /\ \A n \in A : n \in Nat
    OBVIOUS
  <2>2. \A n \in A : n <= m <=> n < m \/ n = m
    BY <2>1
  <2>3. QED
    BY <2>2
<1>3. Cardinality(B \cup {m}) = Cardinality(B) + 1
  <2> HIDE DEF B
  <2> QED
    BY <1>1, FS_AddElement
<1>4. QED
  BY <1>2, <1>3 DEF Rank

\* What a batch brings over an ack holds exactly the numbers that follow it.
LEMMA AcceptedNumbers ==
  ASSUME NEW ack \in Nat, NEW batch \in [Entries -> Nat], NEW A \in SUBSET Carried(batch),
         Accepts(ack, batch, A)
  PROVE  /\ Cardinality(A) \in Nat
         /\ \A m \in A : batch[m] \in (ack + 1) .. (ack + Cardinality(A))
         /\ \A v \in (ack + 1) .. (ack + Cardinality(A)) : \E m \in A : batch[m] = v
<1>1. A \in SUBSET Nat /\ A \in SUBSET Entries /\ IsFiniteSet(A)
  BY EntriesAssumption, FS_Subset DEF Carried
<1>2. Cardinality(A) \in Nat
  BY <1>1, FS_CardinalityType
<1>3. ASSUME NEW m \in A PROVE batch[m] = ack + Rank(A, m) /\ Rank(A, m) \in 1..Cardinality(A)
  <2>1. batch[m] = ack + Cardinality({n \in A : n < m}) + 1
    BY DEF Accepts
  <2>2. Cardinality({n \in A : n < m}) + 1 = Rank(A, m)
    BY <1>1, BeforeIsRank
  <2>3. Cardinality({n \in A : n < m}) \in Nat
    BY <1>1, FS_Subset, FS_CardinalityType
  <2>4. QED
    BY <1>1, <2>1, <2>2, <2>3, RankBounds
<1>4. ASSUME NEW v \in (ack + 1) .. (ack + Cardinality(A)) PROVE \E m \in A : batch[m] = v
  <2>1. v - ack \in 1..Cardinality(A)
    BY <1>2
  <2>2. PICK m \in A : Rank(A, m) = v - ack
    BY <1>1, <2>1, RankReaches
  <2>3. QED
    BY <1>3, <2>2
<1>5. QED
  BY <1>2, <1>3, <1>4

-------------------------------------------------------------------------------
(* The inductive invariant *)

Cargo(p) == Carried(poll[p].batch)

\* The queue's numbers in the plugin's session: positive, in creation order,
\* without a gap above the hub's ack, and applied where the ack covers them.
Numbered ==
  /\ \A m \in queued : 0 < seq[m] /\ seq[m] <= nextSeq
  /\ \A m, n \in queued : m < n => seq[m] < seq[n]
  /\ inAck[token] <= nextSeq
  /\ \A v \in (inAck[token] + 1) .. nextSeq : \E n \in queued : seq[n] = v
  /\ \A m \in queued : seq[m] <= inAck[token] => m \in applied
QueueFits == token # None => Numbered

\* A poll, of the plugin's session or of the hub's, that the hub may apply.
Ours(p) == token # None /\ poll[p].sess = token /\ Unusable(poll[p].batch) = {}
Theirs(p) == live # None /\ poll[p].sess = live /\ Unusable(poll[p].batch) = {}

\* What it carries is still queued under the same number, or acked and below
\* everything queued; and it skips nothing that is queued.
BatchFits(p) ==
  \A x \in Cargo(p) :
    /\ x \in queued => poll[p].batch[x] = seq[x]
    /\ x \notin queued => /\ poll[p].batch[x] <= inAck[token]
                          /\ \A m \in queued : poll[p].batch[x] < seq[m]
    /\ \A m \in queued : m < x => m \in Cargo(p)
OursFit == \A p \in Slots : Ours(p) => BatchFits(p)

\* It carries in creation order, nothing acked but not applied, and leaves out
\* nothing older that the hub has yet to apply.
HubFits(p) ==
  /\ \A x \in Cargo(p) : poll[p].batch[x] <= inAck[live] => x \in applied
  /\ \A x, y \in Cargo(p) : x < y => poll[p].batch[x] < poll[p].batch[y]
  /\ \A n \in Cargo(p), m \in persisted \ Malformed : m < n => m \in applied \cup Cargo(p)
TheirsFit == \A p \in Slots : Theirs(p) => HubFits(p)

\* Two polls give a number to the same entry.
Agree(p, q) ==
  \A x \in Cargo(p), y \in Cargo(q) : poll[p].batch[x] = poll[q].batch[y] => x = y
AgreeFit == \A p, q \in Slots : Theirs(p) /\ Theirs(q) => Agree(p, q)

PollFits(p) ==
  /\ poll[p].sess <= used /\ Cargo(p) \subseteq made
  /\ poll[p].stage # "none" => poll[p].sess # None
  /\ poll[p].sess # None => poll[p].ack <= inAck[poll[p].sess]
PollsFit == \A p \in Slots : PollFits(p)

\* The poll whose answer the plugin waits for is of its session, and what it
\* carries is queued.
CurrentFits ==
  current # Nobody => token # None /\ poll[current].sess = token /\ Cargo(current) \subseteq queued

StoreFits ==
  /\ disk \ queued \subseteq applied \cup Malformed
  /\ applied \cap Malformed = {}
  /\ ReleasedMeansApplied /\ NothingLost /\ AppliedInOrder
  /\ \A s \in Sessions : s > used => inAck[s] = 0
  /\ \A s \in Sessions : reported[s] <= inAck[s]
  /\ \A m \in made, n \in Entries : n < m => n \in made

IInv ==
  /\ TypeOK /\ QueueFits /\ CurrentFits /\ PollsFit
  /\ OursFit /\ TheirsFit /\ AgreeFit /\ StoreFits

LEMMA IInvInit == Init => IInv
<1> SUFFICES ASSUME Init PROVE IInv
  OBVIOUS
<1>1. TypeOK
  <2>1. NoBatch \in [Entries -> Nat]
    BY DEF NoBatch
  <2>2. NoPoll \in PollType
    BY <2>1, BoundsAssumption DEF NoPoll, PollType, Stages, None
  <2>3. QED
    BY <2>2, BoundsAssumption DEF Init, TypeOK, None
<1>2. \A p \in Slots : poll[p].sess = None /\ Cargo(p) = {} /\ poll[p].stage = "none"
  BY DEF Init, NoPoll, Cargo, Carried, NoBatch
<1>3. QueueFits /\ CurrentFits /\ OursFit /\ TheirsFit /\ AgreeFit
  BY <1>2 DEF Init, QueueFits, CurrentFits, OursFit, TheirsFit, AgreeFit, Ours, Theirs
<1>4. PollsFit
  BY <1>2 DEF Init, PollsFit, PollFits, None
<1>5. StoreFits
  BY DEF Init, StoreFits, ReleasedMeansApplied, NothingLost, AppliedInOrder, Sessions
<1>6. QED
  BY <1>1, <1>3, <1>4, <1>5 DEF IInv

\* The pieces of a poll have their types.
LEMMA PollParts ==
  ASSUME TypeOK, NEW p \in Slots
  PROVE  /\ poll[p] \in PollType
         /\ poll[p].stage \in Stages /\ poll[p].sess \in Nat /\ poll[p].sess <= MaxSessions
         /\ poll[p].ack \in Nat /\ poll[p].batch \in [Entries -> Nat]
         /\ Cargo(p) \subseteq Entries /\ \A m \in Cargo(p) : poll[p].batch[m] \in Nat
  BY BoundsAssumption DEF TypeOK, PollType, Cargo, Carried

\* The numbers and the sets have theirs.
LEMMA Parts ==
  ASSUME TypeOK
  PROVE  /\ \A m \in Entries : m \in Nat /\ seq[m] \in Nat
         /\ made \subseteq Entries /\ queued \subseteq Entries /\ applied \subseteq Entries
         /\ persisted \subseteq Entries /\ disk \subseteq Entries /\ released \subseteq Entries
         /\ nextSeq \in Nat /\ used \in Nat /\ token \in Nat /\ live \in Nat
         /\ token <= used /\ live <= used /\ used <= MaxSessions /\ MaxSessions \in Nat
         /\ \A s \in Sessions : inAck[s] \in Nat
         /\ token # None => token \in Sessions /\ inAck[token] \in Nat
         /\ live # None => live \in Sessions /\ inAck[live] \in Nat
<1>1. MaxSessions \in Nat /\ Entries \subseteq Nat
  BY BoundsAssumption, EntriesAssumption
<1>2. used \in Nat /\ used <= MaxSessions /\ token \in 0..used /\ live \in 0..used
  BY <1>1 DEF TypeOK
<1>3. QED
  BY <1>1, <1>2 DEF TypeOK, Sessions, None

-------------------------------------------------------------------------------
(* Steps that move no entry *)

\* A poll is dropped, or goes on with what it carries.
Kept(p) ==
  \/ poll'[p] = NoPoll
  \/ poll'[p].batch = poll[p].batch /\ poll'[p].sess = poll[p].sess

\* Nothing is true of a dropped poll's cargo but what is true of none.
LEMMA NoPollFacts ==
  ASSUME NEW p \in Slots, poll'[p] = NoPoll
  PROVE  Cargo(p)' = {} /\ poll'[p].sess = None /\ poll'[p].stage = "none"
  BY DEF Cargo, Carried, NoPoll, NoBatch

LEMMA KeptOurs ==
  ASSUME OursFit, \A p \in Slots : Kept(p), token' = token, queued' = queued, seq' = seq,
         inAck' = inAck
  PROVE  OursFit'
<1> SUFFICES ASSUME NEW p \in Slots, Ours(p)' PROVE BatchFits(p)'
  BY DEF OursFit
<1>1. poll'[p] # NoPoll
  BY NoPollFacts DEF Ours
<1>2. poll'[p].batch = poll[p].batch /\ poll'[p].sess = poll[p].sess
  BY <1>1 DEF Kept
<1>3. QED
  BY <1>2 DEF OursFit, Ours, BatchFits, Cargo

LEMMA KeptTheirs ==
  ASSUME TheirsFit, \A p \in Slots : Kept(p), live' = live, inAck' = inAck, applied' = applied,
         persisted' = persisted
  PROVE  TheirsFit'
<1> SUFFICES ASSUME NEW p \in Slots, Theirs(p)' PROVE HubFits(p)'
  BY DEF TheirsFit
<1>1. poll'[p] # NoPoll
  BY NoPollFacts DEF Theirs
<1>2. poll'[p].batch = poll[p].batch /\ poll'[p].sess = poll[p].sess
  BY <1>1 DEF Kept
<1>3. QED
  BY <1>2 DEF TheirsFit, Theirs, HubFits, Cargo

LEMMA KeptAgree ==
  ASSUME AgreeFit, \A p \in Slots : Kept(p), live' = live
  PROVE  AgreeFit'
<1> SUFFICES ASSUME NEW p \in Slots, NEW q \in Slots, Theirs(p)', Theirs(q)' PROVE Agree(p, q)'
  BY DEF AgreeFit
<1>1. poll'[p] # NoPoll /\ poll'[q] # NoPoll
  BY NoPollFacts DEF Theirs
<1>2. /\ poll'[p].batch = poll[p].batch /\ poll'[p].sess = poll[p].sess
      /\ poll'[q].batch = poll[q].batch /\ poll'[q].sess = poll[q].sess
  BY <1>1 DEF Kept
<1>3. QED
  BY <1>2 DEF AgreeFit, Theirs, Agree, Cargo

\* A session that is new to the hub, or none, has no polls.
LEMMA NoTheirs ==
  ASSUME TypeOK, PollsFit, \A p \in Slots : Kept(p), live' = None \/ live' > used
  PROVE  TheirsFit' /\ AgreeFit'
<1>1. ASSUME NEW p \in Slots PROVE ~Theirs(p)'
  <2>1. CASE poll'[p] = NoPoll
    BY <2>1, NoPollFacts DEF Theirs
  <2>2. CASE poll'[p].sess = poll[p].sess
    <3>1. poll[p].sess \in Nat /\ poll[p].sess <= used /\ used \in Nat
      BY PollParts, Parts DEF PollsFit, PollFits
    <3>2. QED
      BY <2>2, <3>1 DEF Theirs
  <2>3. QED
    BY <2>1, <2>2 DEF Kept
<1>2. QED
  BY <1>1 DEF TheirsFit, AgreeFit

LEMMA KeptPolls ==
  ASSUME TypeOK, PollsFit, \A p \in Slots : Kept(p), made' = made, inAck' = inAck,
         used' \in Nat, used' >= used,
         \A p \in Slots : \/ poll'[p] = NoPoll
                          \/ /\ poll'[p].stage # "none" => poll[p].stage # "none"
                             /\ poll'[p].sess # None => poll'[p].ack <= inAck[poll[p].sess]
  PROVE  PollsFit'
<1> SUFFICES ASSUME NEW p \in Slots PROVE PollFits(p)'
  BY DEF PollsFit
<1>0. used \in Nat /\ poll[p].sess \in Nat /\ PollFits(p)
  BY PollParts, Parts DEF PollsFit
<1>1. CASE poll'[p] = NoPoll
  <2>1. Cargo(p)' = {} /\ poll'[p].sess = 0 /\ poll'[p].stage = "none"
    BY <1>1, NoPollFacts DEF None
  <2>2. QED
    BY <2>1 DEF PollFits, None
<1>2. CASE poll'[p] # NoPoll
  <2>1. poll'[p].batch = poll[p].batch /\ poll'[p].sess = poll[p].sess
    BY <1>2 DEF Kept
  <2>2. QED
    BY <1>0, <1>2, <2>1 DEF PollFits, Cargo
<1>3. QED
  BY <1>1, <1>2

\* Steps of a poll inside the hub, and what ends a session at either end.
PollStep(p) == Authenticate(p) \/ SessionGone(p) \/ RefuseFraming(p) \/ Respond(p) \/ Vanish(p)
QuietStep ==
  \/ \E p \in Slots : PollStep(p)
  \/ UnheardSession \/ EndSession \/ RenewSession \/ TakeSessionInvalid \/ GiveUpPoll

\* A poll reads the ack of its session no lower than it was when its own
\* envelopes were committed.
LEMMA RefreshedAck ==
  ASSUME TypeOK, NEW p \in Slots, PollFits(p), poll[p].sess = live, poll[p].stage # "none"
  PROVE  Refreshed(p) = inAck[live] /\ live \in Sessions
<1>1. live # None
  BY DEF PollFits
<1>2. /\ live \in Sessions /\ inAck[live] \in Nat /\ poll[p].ack \in Nat
      /\ poll[p].ack <= inAck[live]
  BY <1>1, Parts, PollParts DEF PollFits
<1>3. QED
  BY <1>2 DEF Refreshed, Max

\* They leave the outbox alone, and every poll as it was or further on.
LEMMA QuietFrame ==
  ASSUME TypeOK, CurrentFits, QuietStep
  PROVE  /\ UNCHANGED <<outboxVars, inAck, applied>>
         /\ token' = token \/ (token' = None /\ current' = Nobody)
         /\ live' = live \/ live' = None \/ live' = used + 1
         /\ used' \in 0..MaxSessions /\ used' >= used
         /\ current' = current \/ current' = Nobody
         /\ faults' \in 0..MaxFaults
         /\ live' \in 0..used' /\ token' \in 0..used'
<1>1. faults \in 0..MaxFaults /\ MaxFaults \in Nat
  BY BoundsAssumption DEF TypeOK
<1>2. /\ live \in 0..used /\ token \in 0..used /\ used \in Nat
      /\ used <= MaxSessions /\ MaxSessions \in Nat
  BY Parts DEF TypeOK
<1>3. ASSUME NEW p \in Slots, PollStep(p) PROVE UNCHANGED <<outboxVars, token, current, live, used, inAck, applied, faults>>
  BY <1>3 DEF PollStep, Authenticate, SessionGone, RefuseFraming, Respond, Vanish, hubVars
<1>4. CASE \E p \in Slots : PollStep(p)
  BY <1>1, <1>2, <1>3, <1>4 DEF hubVars
<1>5. CASE UnheardSession
  BY <1>1, <1>2, <1>5 DEF UnheardSession, Fault
<1>6. CASE EndSession
  BY <1>1, <1>2, <1>6 DEF EndSession, Fault, None
<1>7. CASE RenewSession
  BY <1>1, <1>2, <1>7 DEF RenewSession, Fault, None, hubVars
<1>8. CASE TakeSessionInvalid
  BY <1>1, <1>2, <1>8 DEF TakeSessionInvalid, EndPoll, None, hubVars
<1>9. CASE GiveUpPoll
  BY <1>1, <1>2, <1>9 DEF GiveUpPoll, Fault, hubVars
<1>10. QED
  BY <1>4, <1>5, <1>6, <1>7, <1>8, <1>9 DEF QuietStep

\* What a step of a poll inside the hub makes of it.
LEMMA PollStepFrame ==
  ASSUME TypeOK, PollsFit, NEW p \in Slots, PollStep(p)
  PROVE  /\ \A q \in Slots : q # p => poll'[q] = poll[q]
         /\ \/ poll'[p] = NoPoll /\ p # current
            \/ /\ poll'[p] \in PollType
               /\ poll'[p].batch = poll[p].batch /\ poll'[p].sess = poll[p].sess
               /\ poll[p].stage # "none"
               /\ poll'[p].ack = poll[p].ack \/ (poll'[p].ack = inAck[live] /\ poll[p].sess = live)
         /\ poll' \in [Slots -> PollType]
<1>0. poll \in [Slots -> PollType] /\ poll[p] \in PollType /\ NoPoll \in PollType
  BY BoundsAssumption DEF TypeOK, NoPoll, NoBatch, PollType, Stages, None
<1>1. ASSUME NEW stage \in Stages, MoveTo(p, stage)
      PROVE  /\ poll' = [poll EXCEPT ![p].stage = stage] /\ poll'[p] \in PollType
             /\ poll'[p].batch = poll[p].batch /\ poll'[p].sess = poll[p].sess
             /\ poll'[p].ack = poll[p].ack
  <2>1. poll'[p] = [poll[p] EXCEPT !.stage = stage]
    BY <1>0, <1>1 DEF MoveTo
  <2>2. QED
    BY <1>0, <1>1, <2>1 DEF MoveTo, PollType
<1>2. CASE Authenticate(p)
  <2>1. PICK stage \in {"admitted", "session_invalid"} : MoveTo(p, stage)
    BY <1>2 DEF Authenticate
  <2>2. QED
    BY <1>0, <1>1, <1>2, <2>1 DEF Authenticate, Stages
<1>3. CASE SessionGone(p)
  BY <1>0, <1>1, <1>3 DEF SessionGone, Stages
<1>4. CASE RefuseFraming(p)
  BY <1>0, <1>1, <1>4 DEF RefuseFraming, Stages
<1>5. CASE Respond(p)
  <2>0. poll[p].stage = "applied" /\ poll[p].sess = live /\ Refreshed(p) = inAck[live]
    BY <1>5, RefreshedAck DEF Respond, PollsFit
  <2>1. /\ poll' = [poll EXCEPT ![p] = [poll[p] EXCEPT !.stage = "answered", !.ack = inAck[live]]]
        /\ poll[p].stage = "applied" /\ poll[p].sess = live
    BY <1>0, <1>5, <2>0 DEF Respond
  <2>2. poll'[p] = [poll[p] EXCEPT !.stage = "answered", !.ack = inAck[live]]
    BY <1>0, <2>1
  <2>3. inAck[live] \in Nat
    BY <2>1, Parts DEF PollsFit, PollFits
  <2>4. QED
    BY <1>0, <2>1, <2>2, <2>3 DEF PollType, Stages
<1>6. CASE Vanish(p)
  BY <1>0, <1>6 DEF Vanish
<1>7. QED
  BY <1>2, <1>3, <1>4, <1>5, <1>6 DEF PollStep

\* The plugin is done with the poll it waited for.
LEMMA EndPollFrame ==
  ASSUME TypeOK, current # Nobody, EndPoll
  PROVE  /\ current \in Slots /\ current' = Nobody
         /\ poll' \in [Slots -> PollType]
         /\ \A p \in Slots : poll'[p] = NoPoll \/ poll'[p] = poll[p]
<1>1. poll \in [Slots -> PollType] /\ NoPoll \in PollType /\ current \in Slots
  BY BoundsAssumption DEF TypeOK, NoPoll, NoBatch, PollType, Stages, None
<1>2. QED
  BY <1>1 DEF EndPoll

\* What such a step makes of the polls.
LEMMA QuietPolls ==
  ASSUME TypeOK, PollsFit, QuietStep
  PROVE  /\ poll' \in [Slots -> PollType] /\ \A p \in Slots : Kept(p)
         /\ \A p \in Slots : \/ poll'[p] = NoPoll
                             \/ /\ poll'[p].stage # "none" => poll[p].stage # "none"
                                /\ poll'[p].sess # None => poll'[p].ack <= inAck[poll[p].sess]
<1>0. poll \in [Slots -> PollType] /\ \A p \in Slots : PollFits(p)
  BY DEF TypeOK, PollsFit
<1>1. ASSUME NEW p \in Slots, PollStep(p), NEW q \in Slots
      PROVE  /\ poll' \in [Slots -> PollType] /\ Kept(q)
             /\ \/ poll'[q] = NoPoll
                \/ /\ poll'[q].stage # "none" => poll[q].stage # "none"
                   /\ poll'[q].sess # None => poll'[q].ack <= inAck[poll[q].sess]
  <2>1. CASE q # p
    BY <1>0, <1>1, <2>1, PollStepFrame DEF Kept, PollFits
  <2>2. CASE q = p /\ poll'[p] = NoPoll
    BY <1>1, <2>2, PollStepFrame DEF Kept
  <2>3. CASE q = p /\ poll'[p] # NoPoll
    <3>1. /\ poll' \in [Slots -> PollType]
          /\ poll'[p].batch = poll[p].batch /\ poll'[p].sess = poll[p].sess
          /\ poll[p].stage # "none"
          /\ poll'[p].ack = poll[p].ack \/ (poll'[p].ack = inAck[live] /\ poll[p].sess = live)
      BY <1>1, <2>3, PollStepFrame
    <3>2. live # None => inAck[live] \in Nat
      BY Parts
    <3>3. QED
      BY <1>0, <2>3, <3>1, <3>2 DEF Kept, PollFits
  <2>4. QED
    BY <2>1, <2>2, <2>3
<1>2. ASSUME \A q \in Slots : poll'[q] = NoPoll \/ poll'[q] = poll[q], NEW q \in Slots
      PROVE  /\ Kept(q)
             /\ \/ poll'[q] = NoPoll
                \/ /\ poll'[q].stage # "none" => poll[q].stage # "none"
                   /\ poll'[q].sess # None => poll'[q].ack <= inAck[poll[q].sess]
  BY <1>0, <1>2 DEF Kept, PollFits
<1>3. CASE TakeSessionInvalid
  <2>1. poll' \in [Slots -> PollType] /\ \A q \in Slots : poll'[q] = NoPoll \/ poll'[q] = poll[q]
    BY <1>3, EndPollFrame DEF TakeSessionInvalid
  <2>2. QED
    BY <1>2, <2>1
<1>4. CASE UnheardSession \/ EndSession \/ RenewSession \/ GiveUpPoll
  <2>1. poll' = poll
    BY <1>4 DEF UnheardSession, EndSession, RenewSession, GiveUpPoll
  <2>2. QED
    BY <1>0, <1>2, <2>1
<1>5. CASE \E p \in Slots : PollStep(p)
  BY <1>1, <1>5
<1>6. QED
  BY <1>3, <1>4, <1>5 DEF QuietStep

LEMMA QuietCurrent ==
  ASSUME TypeOK, PollsFit, CurrentFits, QuietStep
  PROVE  CurrentFits'
<1>0. /\ UNCHANGED <<outboxVars, inAck, applied>>
      /\ token' = token \/ (token' = None /\ current' = Nobody)
      /\ current' = current \/ current' = Nobody
  BY QuietFrame
<1>1. SUFFICES ASSUME current' = current, current # Nobody, token' = token PROVE CurrentFits'
  BY <1>0 DEF CurrentFits
<1>2. current \in Slots /\ queued' = queued
  BY <1>0, <1>1 DEF TypeOK, outboxVars
<1>3. poll'[current].batch = poll[current].batch /\ poll'[current].sess = poll[current].sess
  <2>1. CASE \E p \in Slots : PollStep(p)
    <3>1. PICK p \in Slots : PollStep(p)
      BY <2>1
    <3>2. QED
      BY <1>2, <3>1, PollStepFrame
  <2>2. CASE UnheardSession \/ EndSession \/ RenewSession \/ TakeSessionInvalid \/ GiveUpPoll
    BY <1>1, <2>2
       DEF UnheardSession, EndSession, RenewSession, TakeSessionInvalid, GiveUpPoll, EndPoll
  <2>3. QED
    BY <2>1, <2>2 DEF QuietStep
<1>4. QED
  BY <1>1, <1>2, <1>3 DEF CurrentFits, Cargo

\* What they report is the ack as it stands.
LEMMA QuietReport ==
  ASSUME TypeOK, PollsFit, StoreFits, QuietStep
  PROVE  /\ reported' \in [Sessions -> Nat]
         /\ \A s \in Sessions : reported[s] <= reported'[s] /\ reported'[s] <= inAck[s]
<1>1. /\ reported \in [Sessions -> Nat] /\ inAck \in [Sessions -> Nat]
      /\ \A s \in Sessions : reported[s] <= inAck[s]
  BY DEF TypeOK, StoreFits
<1>2. CASE \E p \in Slots : Respond(p)
  <2>1. PICK p \in Slots : Respond(p)
    BY <1>2
  <2>2. Refreshed(p) = inAck[live] /\ live \in Sessions
    BY <2>1, RefreshedAck DEF Respond, PollsFit
  <2>3. reported' = [reported EXCEPT ![live] = inAck[live]]
    BY <2>1, <2>2 DEF Respond
  <2>4. QED
    BY <1>1, <2>2, <2>3
<1>3. CASE reported' = reported
  BY <1>1, <1>3
<1>4. QED
  BY <1>2, <1>3
     DEF QuietStep, PollStep, Authenticate, SessionGone, RefuseFraming, Vanish, UnheardSession,
         EndSession, RenewSession, TakeSessionInvalid, GiveUpPoll, hubVars

\* The steps that move no entry keep the invariant.
LEMMA QuietNext ==
  ASSUME IInv, QuietStep
  PROVE  IInv'
<1>0. /\ TypeOK /\ QueueFits /\ CurrentFits /\ PollsFit
      /\ OursFit /\ TheirsFit /\ AgreeFit /\ StoreFits
  BY DEF IInv
<1>1. /\ UNCHANGED <<outboxVars, inAck, applied>>
      /\ token' = token \/ (token' = None /\ current' = Nobody)
      /\ live' = live \/ live' = None \/ live' = used + 1
      /\ used' \in 0..MaxSessions /\ used' >= used
      /\ current' = current \/ current' = Nobody
      /\ faults' \in 0..MaxFaults
      /\ live' \in 0..used' /\ token' \in 0..used'
  BY <1>0, QuietFrame
<1>2. /\ made' = made /\ queued' = queued /\ seq' = seq /\ nextSeq' = nextSeq
      /\ disk' = disk /\ aside' = aside /\ released' = released /\ persisted' = persisted
      /\ inAck' = inAck /\ applied' = applied
  BY <1>1 DEF outboxVars
<1>3. /\ poll' \in [Slots -> PollType] /\ \A p \in Slots : Kept(p)
      /\ \A p \in Slots : \/ poll'[p] = NoPoll
                          \/ /\ poll'[p].stage # "none" => poll[p].stage # "none"
                             /\ poll'[p].sess # None => poll'[p].ack <= inAck[poll[p].sess]
  BY <1>0, QuietPolls
<1>4. /\ used \in Nat /\ used' \in Nat /\ MaxSessions \in Nat
      /\ reported' \in [Sessions -> Nat] /\ \A s \in Sessions : reported'[s] <= inAck[s]
  BY <1>0, <1>1, Parts, QuietReport
<1>5. TypeOK'
  BY <1>0, <1>1, <1>2, <1>3, <1>4 DEF TypeOK
<1>6. QueueFits'
  BY <1>0, <1>1, <1>2 DEF QueueFits, Numbered
<1>7. PollsFit'
  BY <1>0, <1>1, <1>2, <1>3, <1>4, KeptPolls
<1>8. OursFit'
  <2>1. CASE token' = token
    BY <1>0, <1>2, <1>3, <2>1, KeptOurs
  <2>2. CASE token' = None
    BY <2>2 DEF OursFit, Ours
  <2>3. QED
    BY <1>1, <2>1, <2>2
<1>9. TheirsFit' /\ AgreeFit'
  <2>1. CASE live' = live
    BY <1>0, <1>2, <1>3, <2>1, KeptTheirs, KeptAgree
  <2>2. CASE live' = None \/ live' = used + 1
    BY <1>0, <1>3, <1>4, <2>2, NoTheirs
  <2>3. QED
    BY <1>1, <2>1, <2>2
<1>10. StoreFits'
  BY <1>0, <1>1, <1>2, <1>4 DEF StoreFits, ReleasedMeansApplied, NothingLost, AppliedInOrder, Sessions
<1>11. QED
  BY <1>0, <1>5, <1>6, <1>7, <1>8, <1>9, <1>10, QuietCurrent DEF IInv

-------------------------------------------------------------------------------
(* Appending *)

\* Erase leaves what it does not cover.
LEMMA EraseFrame ==
  ASSUME NEW S, Erase(S), faults \in 0..MaxFaults
  PROVE  disk' \subseteq disk /\ disk \ S \subseteq disk' /\ faults' \in 0..MaxFaults
<1>1. MaxFaults \in Nat
  BY BoundsAssumption
<1>2. QED
  BY <1>1 DEF Erase, DiskFault, Fault

\* The record of a new entry may only take the place of one released.
LEMMA AppendFrame ==
  ASSUME TypeOK, NEW m \in Entries, AppendEntry(m)
  PROVE  /\ m \notin made /\ \A n \in Entries : n < m => n \in made
         /\ made' = made \cup {m} /\ queued' = queued \cup {m}
         /\ nextSeq' = nextSeq + 1 /\ seq' = [seq EXCEPT ![m] = nextSeq + 1]
         /\ disk' \subseteq disk \cup {m} /\ disk \ released \subseteq disk'
         /\ persisted \subseteq persisted' /\ persisted' \subseteq persisted \cup {m}
         /\ m \in persisted' => m \in disk' \/ m \in persisted
         /\ disk' \subseteq persisted'
         /\ faults' \in 0..MaxFaults
<1>1. PICK stale \in SUBSET ((disk \cap released) \ queued) :
        \/ /\ disk' = (disk \ stale) \cup {m}
           /\ persisted' = persisted \cup {m}
           /\ UNCHANGED faults
        \/ /\ disk' = disk \ stale
           /\ DiskFault
           /\ UNCHANGED persisted
  BY DEF AppendEntry
<1>2. disk \subseteq persisted /\ faults \in 0..MaxFaults /\ MaxFaults \in Nat
  BY BoundsAssumption DEF TypeOK
<1>3. /\ disk' \subseteq disk \cup {m} /\ disk \ released \subseteq disk'
      /\ persisted \subseteq persisted' /\ persisted' \subseteq persisted \cup {m}
      /\ m \in persisted' => m \in disk' \/ m \in persisted
      /\ disk' \subseteq persisted'
  BY <1>1, <1>2
<1>4. faults' \in 0..MaxFaults
  BY <1>1, <1>2 DEF DiskFault, Fault
<1>5. QED
  BY <1>3, <1>4 DEF AppendEntry, NextMade

\* A new entry comes behind everything made, under the next number.
LEMMA AppendNext ==
  ASSUME IInv, NEW m \in Entries, AppendEntry(m)
  PROVE  IInv'
<1>0. /\ TypeOK /\ QueueFits /\ CurrentFits /\ PollsFit
      /\ OursFit /\ TheirsFit /\ AgreeFit /\ StoreFits
  BY DEF IInv
<1>1. /\ m \notin made /\ \A n \in Entries : n < m => n \in made
      /\ made' = made \cup {m} /\ queued' = queued \cup {m}
      /\ nextSeq' = nextSeq + 1 /\ seq' = [seq EXCEPT ![m] = nextSeq + 1]
      /\ disk' \subseteq disk \cup {m} /\ disk \ released \subseteq disk'
      /\ persisted \subseteq persisted' /\ persisted' \subseteq persisted \cup {m}
      /\ m \in persisted' => m \in disk' \/ m \in persisted
      /\ disk' \subseteq persisted'
      /\ faults' \in 0..MaxFaults
  BY <1>0, AppendFrame
<1>2. /\ aside' = aside /\ released' = released /\ token' = token /\ current' = current
      /\ poll' = poll /\ live' = live /\ used' = used /\ inAck' = inAck /\ applied' = applied
      /\ reported' = reported
  BY DEF AppendEntry, hubVars
<1>3. /\ seq \in [Entries -> Nat] /\ nextSeq \in Nat /\ queued \subseteq made
      /\ made \subseteq Entries /\ applied \subseteq made /\ persisted \subseteq made
      /\ \A n \in Entries : n \in Nat
  BY <1>0, Parts DEF TypeOK
<1>4. /\ m \notin queued /\ m \notin applied /\ m \notin persisted
      /\ seq'[m] = nextSeq + 1 /\ \A n \in queued : seq'[n] = seq[n] /\ n < m
  <2>1. \A n \in made : n # m /\ ~(m < n)
    BY <1>0, <1>1, <1>3 DEF StoreFits
  <2>2. QED
    BY <1>1, <1>3, <2>1
<1>5. TypeOK'
  BY <1>0, <1>1, <1>2, <1>3 DEF TypeOK
<1>6. QueueFits'
  <2>1. SUFFICES ASSUME token # None PROVE Numbered'
    BY <1>2 DEF QueueFits
  <2>2. Numbered /\ inAck[token] \in Nat
    BY <1>0, <2>1, Parts DEF QueueFits
  <2>3. \A n \in queued' : 0 < seq'[n] /\ seq'[n] <= nextSeq'
    BY <1>1, <1>3, <1>4, <2>2 DEF Numbered
  <2>4. \A x, y \in queued' : x < y => seq'[x] < seq'[y]
    <3>1. \A x \in queued : seq[x] < nextSeq + 1 /\ x \in Nat /\ m \in Nat
      BY <1>3, <2>2 DEF Numbered
    <3>2. QED
      BY <1>1, <1>4, <2>2, <3>1 DEF Numbered
  <2>5. \A v \in (inAck[token] + 1) .. nextSeq' : \E n \in queued' : seq'[n] = v
    <3>1. SUFFICES ASSUME NEW v \in (inAck[token] + 1) .. nextSeq' PROVE \E n \in queued' : seq'[n] = v
      OBVIOUS
    <3>2. CASE v = nextSeq + 1
      BY <1>1, <1>4, <3>2
    <3>3. CASE v # nextSeq + 1
      <4>1. v \in (inAck[token] + 1) .. nextSeq
        BY <1>1, <1>3, <2>2, <3>3
      <4>2. QED
        BY <1>1, <1>4, <2>2, <4>1 DEF Numbered
    <3>4. QED
      BY <3>2, <3>3
  <2>6. inAck[token] <= nextSeq' /\ \A n \in queued' : seq'[n] <= inAck[token] => n \in applied
    BY <1>1, <1>3, <1>4, <2>2 DEF Numbered
  <2>7. QED
    BY <1>2, <2>3, <2>4, <2>5, <2>6 DEF Numbered
<1>7. CurrentFits'
  BY <1>0, <1>1, <1>2 DEF CurrentFits, Cargo
<1>8. PollsFit'
  BY <1>0, <1>1, <1>2 DEF PollsFit, PollFits, Cargo
<1>9. \A p \in Slots : m \notin Cargo(p) /\ \A x \in Cargo(p) : x \in Entries /\ ~(m < x)
  BY <1>0, <1>1, <1>3 DEF PollsFit, PollFits, StoreFits
<1>10. OursFit'
  <2>1. SUFFICES ASSUME NEW p \in Slots, Ours(p) PROVE BatchFits(p)'
    BY <1>2 DEF OursFit, Ours
  <2>2. BatchFits(p) /\ Numbered /\ inAck[token] \in Nat /\ poll[p].batch \in [Entries -> Nat]
    BY <1>0, <2>1, Parts, PollParts DEF OursFit, Ours, QueueFits
  <2>3. ASSUME NEW x \in Cargo(p)
        PROVE  /\ x \in queued' => poll[p].batch[x] = seq'[x]
               /\ x \notin queued' => /\ poll[p].batch[x] <= inAck[token]
                                      /\ \A n \in queued' : poll[p].batch[x] < seq'[n]
               /\ \A n \in queued' : n < x => n \in Cargo(p)
    <3>1. x \in queued' <=> x \in queued
      BY <1>1, <1>9
    <3>2. poll[p].batch[x] <= inAck[token] => poll[p].batch[x] < nextSeq + 1
      BY <1>3, <1>9, <2>2 DEF Numbered
    <3>3. QED
      BY <1>1, <1>4, <1>9, <2>2, <3>1, <3>2 DEF BatchFits
  <2>4. QED
    BY <1>2, <2>3 DEF BatchFits, Cargo
<1>11. TheirsFit'
  <2>1. SUFFICES ASSUME NEW p \in Slots, Theirs(p) PROVE HubFits(p)'
    BY <1>2 DEF TheirsFit, Theirs
  <2>2. HubFits(p)
    BY <1>0, <2>1 DEF TheirsFit
  <2>3. \A n \in Cargo(p), k \in persisted' \ Malformed : k < n => k \in applied \cup Cargo(p)
    BY <1>1, <1>9, <2>2 DEF HubFits
  <2>4. QED
    BY <1>2, <2>2, <2>3 DEF HubFits, Cargo
<1>12. AgreeFit'
  BY <1>0, <1>2 DEF AgreeFit, Theirs, Agree, Cargo
<1>13. StoreFits'
  <2>1. disk' \ queued' \subseteq applied \cup Malformed
    BY <1>0, <1>1 DEF StoreFits
  <2>2. persisted' \subseteq applied \cup disk' \cup aside
    BY <1>0, <1>1 DEF StoreFits, NothingLost, ReleasedMeansApplied
  <2>3. \A n \in applied : \A k \in persisted' \ Malformed : k < n => k \in applied
    <3>1. \A n \in applied : ~(m < n)
      BY <1>0, <1>1, <1>3 DEF StoreFits
    <3>2. QED
      BY <1>0, <1>1, <3>1 DEF StoreFits, AppliedInOrder
  <2>4. \A n \in made', k \in Entries : k < n => k \in made'
    BY <1>0, <1>1 DEF StoreFits
  <2>5. QED
    BY <1>0, <1>2, <2>1, <2>2, <2>3, <2>4
       DEF StoreFits, ReleasedMeansApplied, NothingLost, AppliedInOrder, Sessions
<1>14. QED
  BY <1>5, <1>6, <1>7, <1>8, <1>10, <1>11, <1>12, <1>13 DEF IInv

-------------------------------------------------------------------------------
(* New sessions and restarts *)

\* A new session numbers the queue from 1, and has no polls.
LEMMA NewSessionNext ==
  ASSUME IInv, NewSession
  PROVE  IInv'
<1>0. /\ TypeOK /\ QueueFits /\ CurrentFits /\ PollsFit
      /\ OursFit /\ TheirsFit /\ AgreeFit /\ StoreFits
  BY DEF IInv
<1>1. /\ token = None /\ used < MaxSessions
      /\ used' = used + 1 /\ live' = used + 1 /\ token' = used + 1
      /\ seq' = Renumbered(queued) /\ nextSeq' = Cardinality(queued)
      /\ made' = made /\ queued' = queued /\ disk' = disk /\ aside' = aside
      /\ released' = released /\ persisted' = persisted /\ current' = current
      /\ inAck' = inAck /\ applied' = applied /\ reported' = reported
      /\ poll' = poll /\ faults' = faults
  BY DEF NewSession
<1>2. /\ used \in Nat /\ MaxSessions \in Nat /\ queued \in SUBSET Entries
      /\ queued \in SUBSET Nat /\ IsFiniteSet(queued)
  BY <1>0, Parts, EntriesAssumption, FS_Subset
<1>3. Cardinality(queued) \in Nat
  BY <1>2, FS_CardinalityType
<1>4. /\ \A m \in queued : seq'[m] = Rank(queued, m) /\ seq'[m] \in 1..Cardinality(queued)
      /\ seq' \in [Entries -> Nat]
  <2>1. \A m \in queued : Rank(queued, m) \in 1..Cardinality(queued)
    BY <1>2, RankBounds
  <2>2. \A m \in queued : seq'[m] = Rank(queued, m)
    BY <1>1, <1>2 DEF Renumbered, Rank
  <2>3. \A m \in Entries : m \in queued \/ seq'[m] = 0
    BY <1>1 DEF Renumbered
  <2>4. DOMAIN seq' = Entries /\ seq' = [m \in Entries |-> seq'[m]]
    BY <1>1 DEF Renumbered
  <2>5. QED
    BY <1>3, <2>1, <2>2, <2>3, <2>4
<1>5. TypeOK'
  BY <1>0, <1>1, <1>2, <1>3, <1>4 DEF TypeOK
<1>6. QueueFits'
  <2>1. inAck[used + 1] = 0
    BY <1>0, <1>1, <1>2 DEF StoreFits, Sessions
  <2>2. \A m \in queued : 0 < seq'[m] /\ seq'[m] <= Cardinality(queued) /\ ~(seq'[m] <= 0)
    BY <1>3, <1>4
  <2>3. \A m, n \in queued : m < n => seq'[m] < seq'[n]
    BY <1>2, <1>4, RankGrows
  <2>4. \A v \in 1..Cardinality(queued) : \E n \in queued : seq'[n] = v
    BY <1>2, <1>4, RankReaches
  <2>5. QED
    BY <1>1, <1>3, <2>1, <2>2, <2>3, <2>4 DEF QueueFits, Numbered
<1>7. CurrentFits'
  BY <1>0, <1>1 DEF CurrentFits
<1>8. PollsFit'
  <2>1. SUFFICES ASSUME NEW p \in Slots PROVE PollFits(p)'
    BY DEF PollsFit
  <2>2. poll[p].sess \in Nat /\ PollFits(p)
    BY <1>0, PollParts DEF PollsFit
  <2>3. QED
    BY <1>1, <1>2, <2>2 DEF PollFits, Cargo
<1>9. OursFit' /\ TheirsFit' /\ AgreeFit'
  <2>1. ASSUME NEW p \in Slots PROVE poll'[p].sess # used + 1
    BY <1>0, <1>1, <1>2, PollParts DEF PollsFit, PollFits
  <2>2. QED
    BY <1>1, <2>1 DEF OursFit, TheirsFit, AgreeFit, Ours, Theirs
<1>10. StoreFits'
  BY <1>0, <1>1, <1>2 DEF StoreFits, ReleasedMeansApplied, NothingLost, AppliedInOrder, Sessions
<1>11. QED
  BY <1>5, <1>6, <1>7, <1>8, <1>9, <1>10 DEF IInv

\* A restart queues what is on disk, with no session to number it in.
LEMMA CrashNext ==
  ASSUME IInv, Crash
  PROVE  IInv'
<1>0. /\ TypeOK /\ QueueFits /\ CurrentFits /\ PollsFit
      /\ OursFit /\ TheirsFit /\ AgreeFit /\ StoreFits
  BY DEF IInv
<1>1. /\ queued' = disk /\ seq' = [m \in Entries |-> 0] /\ nextSeq' = 0
      /\ token' = None /\ current' = Nobody /\ made' = made /\ disk' = disk /\ aside' = aside
      /\ released' = released /\ persisted' = persisted /\ poll' = poll
      /\ live' = live /\ used' = used /\ inAck' = inAck /\ applied' = applied
      /\ reported' = reported
  BY DEF Crash, hubVars
<1>2. faults' \in 0..MaxFaults
  BY <1>0, BoundsAssumption DEF Crash, Fault, TypeOK
<1>3. used \in Nat
  BY <1>0, Parts
<1>4. TypeOK'
  BY <1>0, <1>1, <1>2, <1>3 DEF TypeOK, None
<1>5. QueueFits' /\ CurrentFits' /\ OursFit'
  BY <1>1 DEF QueueFits, CurrentFits, OursFit, Ours
<1>6. PollsFit' /\ TheirsFit' /\ AgreeFit'
  BY <1>0, <1>1 DEF PollsFit, PollFits, TheirsFit, Theirs, HubFits, AgreeFit, Agree, Cargo
<1>7. StoreFits'
  BY <1>0, <1>1 DEF StoreFits, ReleasedMeansApplied, NothingLost, AppliedInOrder, Sessions
<1>8. QED
  BY <1>4, <1>5, <1>6, <1>7 DEF IInv

-------------------------------------------------------------------------------
(* Framing a poll *)

\* A poll takes the leading entries of the queue.
LEMMA LeadingFacts ==
  ASSUME TypeOK, NEW k \in Nat
  PROVE  /\ Leading(k) \subseteq queued
         /\ \A x \in Leading(k), m \in queued : m < x => m \in Leading(k)
<1>1. queued \in SUBSET Nat /\ IsFiniteSet(queued)
  BY Parts, EntriesAssumption, FS_Subset
<1>2. ASSUME NEW x \in Leading(k), NEW m \in queued, m < x PROVE m \in Leading(k)
  <2>1. x \in queued /\ Rank(queued, x) <= k
    BY DEF Leading, Rank
  <2>2. Rank(queued, m) < Rank(queued, x)
    BY <1>1, <1>2, <2>1, RankGrows
  <2>3. Rank(queued, m) \in Nat /\ Rank(queued, x) \in Nat
    BY <1>1, <2>1, FS_Subset, FS_CardinalityType DEF Rank
  <2>4. QED
    BY <2>1, <2>2, <2>3 DEF Leading, Rank
<1>3. QED
  BY <1>2 DEF Leading

\* It agrees with the queue, and with every other poll the hub may apply.
LEMMA SendPollNext ==
  ASSUME IInv, NEW p \in Slots, SendPoll(p)
  PROVE  IInv'
<1>0. /\ TypeOK /\ QueueFits /\ CurrentFits /\ PollsFit
      /\ OursFit /\ TheirsFit /\ AgreeFit /\ StoreFits
  BY DEF IInv
<1>1. PICK k \in 1..BatchLimit :
        poll' = [poll EXCEPT ![p] =
          [stage |-> "sent", sess |-> token, ack |-> 0,
           batch |-> [m \in Entries |-> IF m \in Leading(k) THEN seq[m] ELSE 0]]]
  BY DEF SendPoll
<1>2. /\ token # None /\ current = Nobody /\ current' = p
      /\ made' = made /\ queued' = queued /\ seq' = seq /\ nextSeq' = nextSeq
      /\ disk' = disk /\ aside' = aside /\ released' = released /\ persisted' = persisted
      /\ token' = token /\ live' = live /\ used' = used /\ inAck' = inAck /\ applied' = applied
      /\ reported' = reported
      /\ faults' = faults
  BY DEF SendPoll, outboxVars, hubVars
<1>3. /\ Numbered /\ inAck[token] \in Nat /\ token \in Nat /\ token <= used /\ used <= MaxSessions
      /\ used \in Nat /\ MaxSessions \in Nat
      /\ seq \in [Entries -> Nat] /\ queued \subseteq Entries /\ queued \subseteq made
      /\ \A m \in queued : m \in Nat /\ seq[m] \in Nat
  BY <1>0, <1>2, Parts DEF QueueFits, TypeOK
<1>4. k \in Nat
  BY <1>1, BoundsAssumption
<1>5. /\ Leading(k) \subseteq queued
      /\ \A x \in Leading(k), m \in queued : m < x => m \in Leading(k)
  BY <1>0, <1>4, LeadingFacts
<1>6. /\ \A q \in Slots : q # p => poll'[q] = poll[q]
      /\ poll'[p].sess = token /\ poll'[p].ack = 0 /\ poll'[p].stage = "sent"
      /\ poll'[p].batch = [m \in Entries |-> IF m \in Leading(k) THEN seq[m] ELSE 0]
      /\ poll' \in [Slots -> PollType]
  <2>1. poll \in [Slots -> PollType]
    BY <1>0 DEF TypeOK
  <2>2. [m \in Entries |-> IF m \in Leading(k) THEN seq[m] ELSE 0] \in [Entries -> Nat]
    BY <1>3
  <2>3. [stage |-> "sent", sess |-> token, ack |-> 0,
         batch |-> [m \in Entries |-> IF m \in Leading(k) THEN seq[m] ELSE 0]] \in PollType
    BY <1>3, <2>2 DEF PollType, Stages
  <2>4. QED
    BY <1>1, <2>1, <2>3
<1>7. Cargo(p)' = Leading(k) /\ \A m \in Leading(k) : poll'[p].batch[m] = seq[m]
  <2>1. \A m \in Leading(k) : m \in Entries /\ seq[m] # 0
    BY <1>3, <1>5 DEF Numbered
  <2>2. QED
    BY <1>6, <2>1 DEF Cargo, Carried
<1>8. TypeOK'
  BY <1>0, <1>2, <1>6 DEF TypeOK
<1>9. QueueFits'
  BY <1>0, <1>2 DEF QueueFits, Numbered
<1>10. CurrentFits'
  BY <1>2, <1>5, <1>6, <1>7 DEF CurrentFits, Cargo
<1>11. ASSUME NEW q \in Slots, q # p
       PROVE  /\ PollFits(q)' /\ Cargo(q)' = Cargo(q)
              /\ Ours(q)' <=> Ours(q)
              /\ Theirs(q)' <=> Theirs(q)
  BY <1>0, <1>2, <1>6, <1>11 DEF PollsFit, PollFits, Cargo, Ours, Theirs
<1>12. PollsFit'
  <2>1. PollFits(p)'
    BY <1>2, <1>3, <1>5, <1>6, <1>7 DEF PollFits
  <2>2. QED
    BY <1>11, <2>1 DEF PollsFit
<1>13. OursFit'
  <2>1. BatchFits(p)'
    BY <1>2, <1>5, <1>7 DEF BatchFits
  <2>2. ASSUME NEW q \in Slots, q # p, Ours(q)' PROVE BatchFits(q)'
    BY <1>0, <1>2, <1>6, <1>11, <2>2 DEF OursFit, BatchFits
  <2>3. QED
    BY <2>1, <2>2 DEF OursFit
<1>14. TheirsFit'
  <2>1. ASSUME Theirs(p)' PROVE HubFits(p)'
    <3>1. live = token
      BY <1>2, <1>6, <2>1 DEF Theirs
    <3>2. \A x \in Leading(k) : seq[x] <= inAck[live] => x \in applied
      BY <1>3, <1>5, <3>1 DEF Numbered
    <3>3. \A x, y \in Leading(k) : x < y => seq[x] < seq[y]
      BY <1>3, <1>5 DEF Numbered
    <3>4. ASSUME NEW n \in Leading(k), NEW m \in persisted \ Malformed, m < n
          PROVE  m \in applied \cup Leading(k)
      BY <1>0, <1>5, <3>4 DEF StoreFits, NothingLost, TypeOK
    <3>5. QED
      BY <1>2, <1>7, <3>2, <3>3, <3>4 DEF HubFits
  <2>2. ASSUME NEW q \in Slots, q # p, Theirs(q)' PROVE HubFits(q)'
    BY <1>0, <1>2, <1>6, <1>11, <2>2 DEF TheirsFit, HubFits
  <2>3. QED
    BY <2>1, <2>2 DEF TheirsFit
<1>15. AgreeFit'
  <2>1. ASSUME Theirs(p)', NEW q \in Slots, q # p, Theirs(q)', NEW x \in Leading(k), NEW y \in Cargo(q),
               seq[x] = poll[q].batch[y]
        PROVE  x = y
    <3>1. Ours(q) /\ BatchFits(q)
      BY <1>0, <1>2, <1>6, <2>1 DEF Theirs, Ours, OursFit
    <3>2. y \in queued
      BY <1>3, <1>5, <2>1, <3>1 DEF BatchFits
    <3>3. seq[x] = seq[y] /\ x \in queued
      BY <1>5, <2>1, <3>1, <3>2 DEF BatchFits
    <3>4. ~(x < y) /\ ~(y < x)
      BY <1>3, <3>2, <3>3 DEF Numbered
    <3>5. QED
      BY <1>3, <3>2, <3>3, <3>4
  <2>2. \A x, y \in Leading(k) : seq[x] = seq[y] => x = y
    <3>1. SUFFICES ASSUME NEW x \in Leading(k), NEW y \in Leading(k), seq[x] = seq[y] PROVE x = y
      OBVIOUS
    <3>2. ~(x < y) /\ ~(y < x)
      BY <1>3, <1>5, <3>1 DEF Numbered
    <3>3. QED
      BY <1>3, <1>5, <3>2
  <2>3. ASSUME NEW q \in Slots, NEW r \in Slots, Theirs(q)', Theirs(r)' PROVE Agree(q, r)'
    <3>1. CASE q = p /\ r = p
      BY <1>7, <2>2, <3>1 DEF Agree
    <3>2. CASE q = p /\ r # p
      BY <1>6, <1>7, <1>11, <2>1, <2>3, <3>2 DEF Agree
    <3>3. CASE q # p /\ r = p
      BY <1>6, <1>7, <1>11, <2>1, <2>3, <3>3 DEF Agree
    <3>4. CASE q # p /\ r # p
      BY <1>0, <1>6, <1>11, <2>3, <3>4 DEF AgreeFit, Agree
    <3>5. QED
      BY <3>1, <3>2, <3>3, <3>4
  <2>4. QED
    BY <2>3 DEF AgreeFit
<1>16. StoreFits'
  BY <1>0, <1>2 DEF StoreFits, ReleasedMeansApplied, NothingLost, AppliedInOrder, Sessions
<1>17. QED
  BY <1>8, <1>9, <1>10, <1>12, <1>13, <1>14, <1>15, <1>16 DEF IInv

-------------------------------------------------------------------------------
(* Applying *)

\* The hub applies the entries whose numbers follow its ack, and no other poll
\* or queue knows those numbers by another entry.
LEMMA ApplyNext ==
  ASSUME IInv, NEW p \in Slots, ApplyInbound(p)
  PROVE  IInv'
<1>0. /\ TypeOK /\ QueueFits /\ CurrentFits /\ PollsFit
      /\ OursFit /\ TheirsFit /\ AgreeFit /\ StoreFits
  BY DEF IInv
<1> DEFINE ack == inAck[live]
           batch == poll[p].batch
<1>1. PICK A \in SUBSET Cargo(p) :
        /\ Accepts(ack, batch, A)
        /\ inAck' = [inAck EXCEPT ![live] = @ + Cardinality(A)]
        /\ applied' = applied \cup A
  BY DEF ApplyInbound, Cargo
<1>2. /\ made' = made /\ queued' = queued /\ seq' = seq /\ nextSeq' = nextSeq
      /\ disk' = disk /\ aside' = aside /\ released' = released /\ persisted' = persisted
      /\ token' = token /\ live' = live /\ used' = used /\ current' = current /\ faults' = faults
      /\ poll[p].stage = "admitted" /\ poll[p].sess = live /\ Unusable(batch) = {}
      /\ poll' = [poll EXCEPT ![p] = [poll[p] EXCEPT !.stage = "applied", !.ack = inAck'[live]]]
      /\ reported' = reported
  BY DEF ApplyInbound, outboxVars
<1>3. /\ live # None /\ live \in Sessions /\ ack \in Nat /\ live \in Nat /\ live <= used
      /\ inAck \in [Sessions -> Nat] /\ batch \in [Entries -> Nat]
      /\ used \in Nat /\ nextSeq \in Nat /\ token \in Nat /\ queued \subseteq Entries
      /\ applied \subseteq Entries /\ persisted \subseteq Entries
      /\ \A m \in Entries : m \in Nat /\ seq[m] \in Nat
  BY <1>0, <1>2, Parts, PollParts DEF PollsFit, PollFits, TypeOK
<1>4. Theirs(p) /\ HubFits(p)
  BY <1>0, <1>2, <1>3 DEF Theirs, TheirsFit
<1> DEFINE K == Cardinality(A)
<1>5. /\ K \in Nat
      /\ \A m \in A : batch[m] \in (ack + 1) .. (ack + K)
      /\ \A v \in (ack + 1) .. (ack + K) : \E m \in A : batch[m] = v
  BY <1>1, <1>3, AcceptedNumbers DEF Cargo
<1>6. /\ inAck' \in [Sessions -> Nat] /\ inAck'[live] = ack + K
      /\ \A s \in Sessions : inAck'[s] >= inAck[s] /\ inAck[s] \in Nat /\ inAck'[s] \in Nat
      /\ \A s \in Sessions : s # live => inAck'[s] = inAck[s]
  <2> HIDE DEF K
  <2>1. inAck' = [inAck EXCEPT ![live] = inAck[live] + K]
    BY <1>1 DEF K
  <2>2. QED
    BY <1>3, <1>5, <2>1
<1> HIDE DEF ack, batch, K
<1>7. /\ poll' \in [Slots -> PollType]
      /\ \A q \in Slots : /\ poll'[q].batch = poll[q].batch /\ poll'[q].sess = poll[q].sess
                          /\ poll'[q].ack = IF q = p THEN inAck'[live] ELSE poll[q].ack
                          /\ poll'[q].stage # "none" => poll[q].stage # "none"
  <2>1. poll \in [Slots -> PollType] /\ poll[p] \in PollType
    BY <1>0 DEF TypeOK
  <2>2. /\ poll'[p] = [poll[p] EXCEPT !.stage = "applied", !.ack = inAck'[live]]
        /\ \A q \in Slots : q # p => poll'[q] = poll[q]
    BY <1>2, <2>1
  <2>3. poll'[p] \in PollType
    BY <1>3, <1>6, <2>1, <2>2 DEF PollType, Stages
  <2>4. poll' \in [Slots -> PollType]
    BY <1>2, <2>1, <2>2, <2>3
  <2>5. QED
    BY <1>2, <2>1, <2>2, <2>4 DEF PollType
<1>8. Cargo(p) \subseteq made /\ \A q \in Slots : Cargo(q)' = Cargo(q)
  BY <1>0, <1>7 DEF PollsFit, PollFits, Cargo
<1>9. TypeOK'
  BY <1>0, <1>1, <1>2, <1>6, <1>7, <1>8 DEF TypeOK
<1>10. QueueFits'
  <2>1. SUFFICES ASSUME token # None PROVE Numbered'
    BY <1>2 DEF QueueFits
  <2>2. Numbered /\ token \in Sessions /\ inAck[token] \in Nat
    BY <1>0, <2>1, Parts DEF QueueFits
  <2>3. CASE token # live
    BY <1>1, <1>2, <1>6, <2>2, <2>3 DEF Numbered
  <2>4. CASE token = live
    <3>1. BatchFits(p)
      BY <1>0, <1>2, <2>1, <2>4 DEF OursFit, Ours, batch
    <3>2. ASSUME NEW m \in A PROVE m \in queued /\ seq[m] = batch[m]
      <4>1. ~(batch[m] <= ack)
        BY <1>3, <1>5
      <4>2. QED
        BY <1>1, <2>4, <3>1, <4>1 DEF BatchFits, ack, batch
    <3>3. ack + K <= nextSeq
      <4>1. CASE K = 0
        BY <1>3, <2>2, <2>4, <4>1 DEF Numbered, ack
      <4>2. CASE K # 0
        <5>1. ack + K \in (ack + 1) .. (ack + K)
          BY <1>3, <1>5, <4>2
        <5>2. PICK m \in A : batch[m] = ack + K
          BY <1>5, <5>1
        <5>3. QED
          BY <2>2, <3>2, <5>2 DEF Numbered
      <4>3. QED
        BY <4>1, <4>2
    <3>4. ASSUME NEW m \in queued, seq[m] <= ack + K PROVE m \in applied'
      <4>1. CASE seq[m] <= ack
        BY <1>1, <2>2, <2>4, <4>1 DEF Numbered, ack
      <4>2. CASE ~(seq[m] <= ack)
        <5>1. seq[m] \in (ack + 1) .. (ack + K)
          BY <1>3, <1>5, <3>4, <4>2
        <5>2. PICK n \in A : batch[n] = seq[m]
          BY <1>5, <5>1
        <5>3. n \in queued /\ seq[n] = seq[m] /\ n \in Nat /\ m \in Nat
          BY <1>3, <3>2, <5>2
        <5>4. ~(m < n) /\ ~(n < m)
          BY <1>3, <2>2, <5>3 DEF Numbered
        <5>5. QED
          BY <1>1, <5>3, <5>4
      <4>3. QED
        BY <4>1, <4>2
    <3>5. \A v \in (ack + K + 1) .. nextSeq : \E n \in queued : seq[n] = v
      <4>1. \A v \in (ack + K + 1) .. nextSeq : v \in (ack + 1) .. nextSeq
        BY <1>3, <1>5
      <4>2. QED
        BY <2>2, <2>4, <4>1 DEF Numbered, ack
    <3>6. QED
      BY <1>2, <1>6, <2>2, <2>4, <3>3, <3>4, <3>5 DEF Numbered
  <2>5. QED
    BY <2>3, <2>4
<1>11. CurrentFits'
  <2>1. current \in Slots \cup {Nobody}
    BY <1>0 DEF TypeOK
  <2>2. QED
    BY <1>0, <1>2, <1>7, <1>8, <2>1 DEF CurrentFits
<1>12. PollsFit'
  <2>1. SUFFICES ASSUME NEW q \in Slots PROVE PollFits(q)'
    BY DEF PollsFit
  <2>2. /\ PollFits(q) /\ poll[q].sess \in Nat /\ poll[q].ack \in Nat
        /\ poll[q].sess # None => poll[q].sess \in Sessions
    BY <1>0, BoundsAssumption, PollParts DEF PollsFit, Sessions, None
  <2>3. /\ poll[q].sess # None => poll[q].ack <= inAck'[poll[q].sess]
        /\ poll[p].sess = live /\ inAck'[live] <= inAck'[poll[p].sess]
    BY <1>2, <1>3, <1>6, <2>2 DEF PollFits
  <2>4. QED
    BY <1>2, <1>7, <1>8, <2>2, <2>3 DEF PollFits
<1>13. OursFit'
  <2>1. SUFFICES ASSUME NEW q \in Slots, Ours(q) PROVE BatchFits(q)'
    BY <1>2, <1>7 DEF OursFit, Ours
  <2>2. /\ BatchFits(q) /\ token \in Sessions
        /\ \A m \in Cargo(q) : poll[q].batch[m] \in Nat
    BY <1>0, <2>1, Parts, PollParts DEF OursFit, Ours
  <2>3. \A x \in Cargo(q) : poll[q].batch[x] <= inAck[token] => poll[q].batch[x] <= inAck'[token]
    BY <1>6, <2>2
  <2>4. QED
    BY <1>2, <1>7, <1>8, <2>2, <2>3 DEF BatchFits
<1>14. TheirsFit'
  <2>1. SUFFICES ASSUME NEW q \in Slots, Theirs(q) PROVE HubFits(q)'
    BY <1>2, <1>7 DEF TheirsFit, Theirs
  <2>2. /\ HubFits(q) /\ Agree(p, q)
        /\ \A m \in Cargo(q) : poll[q].batch[m] \in Nat
    BY <1>0, <1>4, <2>1, PollParts DEF TheirsFit, AgreeFit
  <2>3. ASSUME NEW x \in Cargo(q), poll[q].batch[x] <= ack + K PROVE x \in applied'
    <3>1. CASE poll[q].batch[x] <= ack
      BY <1>1, <2>2, <3>1 DEF HubFits, ack
    <3>2. CASE ~(poll[q].batch[x] <= ack)
      <4>1. poll[q].batch[x] \in (ack + 1) .. (ack + K)
        BY <1>3, <1>5, <2>2, <2>3, <3>2
      <4>2. PICK y \in A : batch[y] = poll[q].batch[x]
        BY <1>5, <4>1
      <4>3. QED
        BY <1>1, <2>2, <4>2 DEF Agree, batch
    <3>3. QED
      BY <3>1, <3>2
  <2>4. QED
    BY <1>1, <1>2, <1>6, <1>7, <1>8, <2>2, <2>3 DEF HubFits
<1>15. AgreeFit'
  BY <1>0, <1>2, <1>7, <1>8 DEF AgreeFit, Theirs, Agree
<1>16. StoreFits'
  <2>1. A \cap Malformed = {}
    BY <1>1, <1>2 DEF Unusable, Cargo, batch
  <2>2. ASSUME NEW n \in A, NEW m \in persisted \ Malformed, m < n PROVE m \in applied'
    <3>1. CASE m \in applied
      BY <1>1, <3>1
    <3>2. CASE m \in Cargo(p)
      <4>1. batch[m] < batch[n] /\ batch[m] \in Nat /\ m \in Entries
        BY <1>1, <1>3, <1>4, <2>2, <3>2 DEF HubFits, batch
      <4>2. CASE batch[m] <= ack
        BY <1>1, <1>4, <3>2, <4>2 DEF HubFits, batch, ack
      <4>3. CASE ~(batch[m] <= ack)
        <5>1. batch[m] \in (ack + 1) .. (ack + K)
          BY <1>3, <1>5, <4>1, <4>3
        <5>2. PICK y \in A : batch[y] = batch[m]
          BY <1>5, <5>1
        <5>3. y \in Cargo(p) /\ ~(y < m) /\ ~(m < y)
          BY <1>1, <1>4, <3>2, <4>1, <5>2 DEF HubFits, batch
        <5>4. y \in Nat /\ m \in Nat
          BY <1>0, <1>3, <4>1, <5>3, PollParts
        <5>5. QED
          BY <1>1, <5>3, <5>4
      <4>4. QED
        BY <4>2, <4>3
    <3>3. QED
      BY <1>1, <1>4, <2>2, <3>1, <3>2 DEF HubFits
  <2>3. AppliedInOrder'
    BY <1>0, <1>1, <1>2, <2>2 DEF AppliedInOrder, StoreFits
  <2>4. \A s \in Sessions : s > used => inAck'[s] = 0
    <3>1. \A s \in Sessions : s > used => s # live
      BY <1>3
    <3>2. QED
      BY <1>0, <1>6, <3>1 DEF StoreFits
  <2>5. \A s \in Sessions : reported'[s] <= inAck'[s]
    <3>1. \A s \in Sessions : reported[s] \in Nat /\ reported[s] <= inAck[s]
      BY <1>0 DEF StoreFits, TypeOK
    <3>2. QED
      BY <1>2, <1>6, <3>1
  <2>6. QED
    BY <1>0, <1>1, <1>2, <2>1, <2>3, <2>4, <2>5
       DEF StoreFits, ReleasedMeansApplied, NothingLost, Sessions
<1>17. QED
  BY <1>9, <1>10, <1>11, <1>12, <1>13, <1>14, <1>15, <1>16 DEF IInv

-------------------------------------------------------------------------------
(* Answers *)

\* What the ending of the awaited poll leaves of the others.
LEMMA EndPollKeeps ==
  ASSUME TypeOK, PollsFit, TheirsFit, AgreeFit, current # Nobody, EndPoll,
         made' = made, persisted' = persisted, UNCHANGED <<hubVars>>
  PROVE  /\ \A p \in Slots : Kept(p)
         /\ CurrentFits' /\ PollsFit' /\ TheirsFit' /\ AgreeFit'
         /\ poll' \in [Slots -> PollType]
<1>1. /\ poll' \in [Slots -> PollType] /\ current' = Nobody
      /\ \A p \in Slots : poll'[p] = NoPoll \/ poll'[p] = poll[p]
  BY EndPollFrame
<1>2. \A p \in Slots : Kept(p)
  BY <1>1 DEF Kept
<1>3. /\ live' = live /\ used' = used /\ inAck' = inAck /\ applied' = applied
      /\ reported' = reported /\ used \in Nat
  BY Parts DEF hubVars
<1>4. \A p \in Slots : \/ poll'[p] = NoPoll
                       \/ /\ poll'[p].stage # "none" => poll[p].stage # "none"
                          /\ poll'[p].sess # None => poll'[p].ack <= inAck[poll[p].sess]
  BY <1>1 DEF PollsFit, PollFits
<1>5. PollsFit'
  BY <1>2, <1>3, <1>4, KeptPolls
<1>6. TheirsFit' /\ AgreeFit'
  BY <1>2, <1>3, KeptTheirs, KeptAgree
<1>7. QED
  BY <1>1, <1>2, <1>5, <1>6 DEF CurrentFits

\* The outbox drops what the ack covers, all of it applied.
LEMMA TakeAnswerNext ==
  ASSUME IInv, TakeAnswer
  PROVE  IInv'
<1>0. /\ TypeOK /\ QueueFits /\ CurrentFits /\ PollsFit
      /\ OursFit /\ TheirsFit /\ AgreeFit /\ StoreFits
  BY DEF IInv
<1> DEFINE a == poll[current].ack
           gone == Acked(a)
<1>1. /\ current # Nobody /\ current \in Slots /\ EndPoll
      /\ queued' = queued \ gone /\ released' = released \cup gone /\ Erase(gone)
      /\ made' = made /\ seq' = seq /\ nextSeq' = nextSeq /\ aside' = aside
      /\ persisted' = persisted /\ token' = token
      /\ live' = live /\ used' = used /\ inAck' = inAck /\ applied' = applied
      /\ reported' = reported
  BY <1>0 DEF TakeAnswer, Ack, hubVars, TypeOK
<1>2. /\ token # None /\ Numbered /\ token \in Sessions /\ inAck[token] \in Nat
      /\ a \in Nat /\ a <= inAck[token] /\ token \in Nat
      /\ seq \in [Entries -> Nat] /\ queued \subseteq Entries /\ nextSeq \in Nat
  BY <1>0, <1>1, Parts, PollParts DEF CurrentFits, QueueFits, PollsFit, PollFits, TypeOK
<1>3. UNCHANGED <<hubVars>>
  BY <1>1 DEF hubVars
<1>4. /\ \A p \in Slots : Kept(p)
      /\ CurrentFits' /\ PollsFit' /\ TheirsFit' /\ AgreeFit'
      /\ poll' \in [Slots -> PollType] /\ current' = Nobody
  BY <1>0, <1>1, <1>3, EndPollKeeps DEF EndPoll
<1> HIDE DEF a
<1>5. /\ gone \subseteq queued
      /\ \A m \in gone : seq[m] <= a /\ m \in applied
      /\ \A m \in queued : m \notin gone => a < seq[m]
  <2>1. \A m \in queued : seq[m] \in Nat /\ 0 < seq[m]
    BY <1>2 DEF Numbered
  <2>2. \A m \in queued : seq[m] <= a => m \in applied
    BY <1>2, <2>1 DEF Numbered
  <2>3. QED
    BY <1>2, <2>1, <2>2 DEF Acked
<1>6. disk' \subseteq disk /\ disk \ gone \subseteq disk' /\ faults' \in 0..MaxFaults
  BY <1>0, <1>1, EraseFrame DEF TypeOK
<1> HIDE DEF gone
<1>7. TypeOK'
  BY <1>0, <1>1, <1>4, <1>5, <1>6 DEF TypeOK
<1>8. QueueFits'
  <2>1. \A v \in (inAck[token] + 1) .. nextSeq : \E n \in queued' : seq[n] = v
    <3>1. SUFFICES ASSUME NEW v \in (inAck[token] + 1) .. nextSeq PROVE \E n \in queued' : seq[n] = v
      OBVIOUS
    <3>2. PICK n \in queued : seq[n] = v
      BY <1>2 DEF Numbered
    <3>3. n \notin gone
      BY <1>2, <1>5, <3>2
    <3>4. QED
      BY <1>1, <3>2, <3>3
  <2>2. QED
    BY <1>1, <1>2, <2>1 DEF QueueFits, Numbered
<1>9. OursFit'
  <2>1. SUFFICES ASSUME NEW p \in Slots, Ours(p)' PROVE BatchFits(p)'
    BY DEF OursFit
  <2>2. poll'[p] # NoPoll
    BY <2>1, NoPollFacts DEF Ours
  <2>3. poll'[p].batch = poll[p].batch /\ poll'[p].sess = poll[p].sess /\ Cargo(p)' = Cargo(p)
    BY <1>4, <2>2 DEF Kept, Cargo
  <2>4. BatchFits(p)
    BY <1>0, <1>1, <2>1, <2>3 DEF OursFit, Ours
  <2>5. ASSUME NEW x \in Cargo(p), x \notin queued'
        PROVE  poll[p].batch[x] <= inAck[token] /\ \A m \in queued' : poll[p].batch[x] < seq[m]
    <3>1. CASE x \notin queued
      BY <1>1, <2>4, <3>1 DEF BatchFits
    <3>2. CASE x \in gone
      <4>1. poll[p].batch[x] = seq[x] /\ seq[x] <= a /\ seq[x] \in Nat
        BY <1>2, <1>5, <2>4, <3>2 DEF BatchFits
      <4>2. \A m \in queued' : a < seq[m] /\ seq[m] \in Nat
        BY <1>1, <1>2, <1>5
      <4>3. QED
        BY <1>2, <4>1, <4>2
    <3>3. QED
      BY <1>1, <2>5, <3>1, <3>2
  <2>6. QED
    BY <1>1, <2>3, <2>4, <2>5 DEF BatchFits
<1>10. StoreFits'
  <2>1. disk' \ queued' \subseteq applied \cup Malformed
    BY <1>0, <1>1, <1>5, <1>6 DEF StoreFits
  <2>2. released' \subseteq applied /\ persisted \subseteq applied \cup disk' \cup aside
    BY <1>0, <1>1, <1>5, <1>6 DEF StoreFits, ReleasedMeansApplied, NothingLost
  <2>3. QED
    BY <1>0, <1>1, <2>1, <2>2
       DEF StoreFits, ReleasedMeansApplied, NothingLost, AppliedInOrder, Sessions
<1>11. QED
  BY <1>4, <1>7, <1>8, <1>9, <1>10 DEF IInv

\* A refused entry leaves the queue and those behind it move down; no poll the
\* hub may still apply reaches as far.
LEMMA TakeEnvelopeInvalidNext ==
  ASSUME IInv, TakeEnvelopeInvalid
  PROVE  IInv'
<1>0. /\ TypeOK /\ QueueFits /\ CurrentFits /\ PollsFit
      /\ OursFit /\ TheirsFit /\ AgreeFit /\ StoreFits
  BY DEF IInv
<1>1. PICK m \in Unusable(poll[current].batch) : Quarantine(m)
  BY DEF TakeEnvelopeInvalid
<1>2. /\ current # Nobody /\ current \in Slots /\ EndPoll
      /\ queued' = queued \ {m} /\ seq' = MovedDown(m) /\ nextSeq' = nextSeq - 1
      /\ made' = made /\ released' = released /\ persisted' = persisted /\ token' = token
      /\ live' = live /\ used' = used /\ inAck' = inAck /\ applied' = applied
      /\ reported' = reported
  BY <1>0, <1>1 DEF TakeEnvelopeInvalid, Quarantine, hubVars, TypeOK
<1>3. /\ token # None /\ Numbered /\ token \in Sessions /\ inAck[token] \in Nat /\ token \in Nat
      /\ m \in queued /\ m \in Malformed /\ m \in Entries
      /\ seq \in [Entries -> Nat] /\ queued \subseteq Entries /\ nextSeq \in Nat
      /\ \A n \in Entries : n \in Nat
  BY <1>0, <1>1, <1>2, Parts DEF CurrentFits, QueueFits, TypeOK, Unusable, Cargo
<1>4. UNCHANGED <<hubVars>>
  BY <1>2 DEF hubVars
<1>5. /\ \A p \in Slots : Kept(p)
      /\ CurrentFits' /\ PollsFit' /\ TheirsFit' /\ AgreeFit'
      /\ poll' \in [Slots -> PollType] /\ current' = Nobody
  BY <1>0, <1>2, <1>4, EndPollKeeps DEF EndPoll
<1>6. /\ disk' \subseteq disk /\ faults' \in 0..MaxFaults
      /\ aside \subseteq aside' /\ aside' \subseteq aside \cup {m}
      /\ disk \ {m} \subseteq disk'
      /\ m \in disk => m \in disk' \/ m \in aside'
  <2>1. faults \in 0..MaxFaults /\ MaxFaults \in Nat
    BY <1>0, BoundsAssumption DEF TypeOK
  <2>2. CASE aside' = aside \cup {m} /\ Erase({m})
    BY <2>1, <2>2, EraseFrame
  <2>3. CASE DiskFault /\ UNCHANGED <<aside, disk>>
    BY <2>1, <2>3 DEF DiskFault, Fault
  <2>4. QED
    BY <1>1, <2>2, <2>3 DEF Quarantine
<1>7. inAck[token] < seq[m] /\ seq[m] <= nextSeq /\ seq[m] \in Nat
  <2>1. m \notin applied /\ seq[m] \in Nat
    BY <1>0, <1>3 DEF StoreFits
  <2>2. QED
    BY <1>3, <2>1 DEF Numbered
<1>8. /\ seq' \in [Entries -> Nat]
      /\ \A n \in queued : n < m => seq'[n] = seq[n] /\ seq[n] < seq[m]
      /\ \A n \in queued : m < n => seq'[n] = seq[n] - 1 /\ seq[m] < seq[n]
      /\ \A n \in queued' : n < m \/ m < n
      /\ \A n \in queued : seq[n] \in Nat
  <2>1. \A n \in queued : /\ seq[n] \in Nat
                          /\ n < m => seq[n] < seq[m]
                          /\ m < n => seq[m] < seq[n]
    BY <1>3 DEF Numbered
  <2>2. \A n \in queued : n # m => n < m \/ m < n
    BY <1>3
  <2>3. \A n \in queued : seq'[n] = IF seq[n] > seq[m] THEN seq[n] - 1 ELSE seq[n]
    BY <1>2, <1>3 DEF MovedDown
  <2>4. seq' \in [Entries -> Nat]
    <3>1. ASSUME NEW n \in Entries
          PROVE  (IF n \in queued /\ seq[n] > seq[m] THEN seq[n] - 1 ELSE seq[n]) \in Nat
      BY <1>3, <1>7
    <3>2. QED
      BY <1>2, <3>1 DEF MovedDown
  <2>5. QED
    BY <1>2, <1>7, <2>1, <2>2, <2>3, <2>4
<1>9. nextSeq' \in Nat
  BY <1>2, <1>3, <1>7
<1>10. TypeOK'
  BY <1>0, <1>2, <1>3, <1>5, <1>6, <1>8, <1>9 DEF TypeOK
<1>11. QueueFits'
  <2>1. \A n \in queued' : 0 < seq'[n] /\ seq'[n] <= nextSeq'
    <3>1. SUFFICES ASSUME NEW n \in queued' PROVE 0 < seq'[n] /\ seq'[n] <= nextSeq'
      OBVIOUS
    <3>2. n \in queued /\ seq[n] \in Nat /\ 0 < seq[n] /\ seq[n] <= nextSeq
      BY <1>2, <1>3, <1>8 DEF Numbered
    <3>3. QED
      BY <1>2, <1>3, <1>7, <1>8, <3>2
  <2>2. \A x, y \in queued' : x < y => seq'[x] < seq'[y]
    <3>1. SUFFICES ASSUME NEW x \in queued', NEW y \in queued', x < y PROVE seq'[x] < seq'[y]
      OBVIOUS
    <3>2. /\ x \in queued /\ y \in queued /\ seq[x] \in Nat /\ seq[y] \in Nat /\ seq[x] < seq[y]
          /\ x \in Nat /\ y \in Nat /\ m \in Nat
      BY <1>2, <1>3, <1>8, <3>1 DEF Numbered
    <3>3. QED
      BY <1>7, <1>8, <3>1, <3>2
  <2>3. inAck[token] <= nextSeq'
    BY <1>2, <1>3, <1>7
  <2>4. \A v \in (inAck[token] + 1) .. nextSeq' : \E n \in queued' : seq'[n] = v
    <3>1. SUFFICES ASSUME NEW v \in (inAck[token] + 1) .. nextSeq' PROVE \E n \in queued' : seq'[n] = v
      OBVIOUS
    <3>2. CASE v < seq[m]
      <4>1. v \in (inAck[token] + 1) .. nextSeq
        BY <1>2, <1>3
      <4>2. PICK n \in queued : seq[n] = v
        BY <1>3, <4>1 DEF Numbered
      <4>3. n # m /\ ~(m < n)
        BY <1>7, <1>8, <3>2, <4>2
      <4>4. QED
        BY <1>2, <1>8, <4>2, <4>3
    <3>3. CASE ~(v < seq[m])
      <4>1. v + 1 \in (inAck[token] + 1) .. nextSeq
        BY <1>2, <1>3
      <4>2. PICK n \in queued : seq[n] = v + 1
        BY <1>3, <4>1 DEF Numbered
      <4>3. n # m /\ ~(n < m)
        BY <1>7, <1>8, <3>3, <4>2
      <4>4. seq'[n] = v
        BY <1>2, <1>3, <1>8, <4>2, <4>3
      <4>5. QED
        BY <1>2, <4>2, <4>3, <4>4
    <3>4. QED
      BY <3>2, <3>3
  <2>5. ASSUME NEW n \in queued', seq'[n] <= inAck[token] PROVE n \in applied
    <3>1. n \in queued /\ seq[n] \in Nat
      BY <1>2, <1>8
    <3>2. ~(m < n)
      BY <1>3, <1>7, <1>8, <2>5, <3>1
    <3>3. QED
      BY <1>3, <1>8, <2>5, <3>1, <3>2 DEF Numbered
  <2>6. QED
    BY <1>2, <2>1, <2>2, <2>3, <2>4, <2>5 DEF QueueFits, Numbered
<1>12. OursFit'
  <2>1. SUFFICES ASSUME NEW p \in Slots, Ours(p)' PROVE BatchFits(p)'
    BY DEF OursFit
  <2>2. poll'[p] # NoPoll
    BY <2>1, NoPollFacts DEF Ours
  <2>3. poll'[p].batch = poll[p].batch /\ poll'[p].sess = poll[p].sess /\ Cargo(p)' = Cargo(p)
    BY <1>5, <2>2 DEF Kept, Cargo
  <2>4. Ours(p) /\ BatchFits(p) /\ m \notin Cargo(p)
    BY <1>0, <1>2, <1>3, <2>1, <2>3 DEF OursFit, Ours, Unusable, Cargo
  <2>5. \A x \in Cargo(p) : ~(m < x) /\ x \in Nat /\ poll[p].batch[x] \in Nat
    BY <1>0, <1>3, <2>4, PollParts DEF BatchFits
  <2>6. ASSUME NEW x \in Cargo(p)
        PROVE  /\ x \in queued' => poll[p].batch[x] = seq'[x]
               /\ x \notin queued' => /\ poll[p].batch[x] <= inAck[token]
                                      /\ \A n \in queued' : poll[p].batch[x] < seq'[n]
               /\ \A n \in queued' : n < x => n \in Cargo(p)
    <3>1. x # m /\ (x \in queued' <=> x \in queued)
      BY <1>2, <2>4
    <3>2. CASE x \in queued
      BY <1>2, <1>8, <2>4, <2>5, <3>1, <3>2 DEF BatchFits
    <3>3. CASE x \notin queued
      <4>1. poll[p].batch[x] <= inAck[token] /\ poll[p].batch[x] < seq[m]
        BY <1>3, <2>4, <3>3 DEF BatchFits
      <4>2. ASSUME NEW n \in queued' PROVE poll[p].batch[x] < seq'[n]
        <5>1. n \in queued /\ poll[p].batch[x] < seq[n]
          BY <1>2, <2>4, <3>3 DEF BatchFits
        <5>2. QED
          BY <1>7, <1>8, <2>5, <4>1, <5>1
      <4>3. QED
        BY <1>2, <2>4, <3>1, <3>3, <4>1, <4>2 DEF BatchFits
    <3>4. QED
      BY <3>2, <3>3
  <2>7. QED
    BY <1>2, <2>3, <2>6 DEF BatchFits
<1>13. StoreFits'
  <2>1. disk' \ queued' \subseteq applied \cup Malformed
    BY <1>0, <1>2, <1>3, <1>6 DEF StoreFits
  <2>2. persisted \subseteq applied \cup disk' \cup aside'
    BY <1>0, <1>6 DEF StoreFits, NothingLost
  <2>3. QED
    BY <1>0, <1>2, <2>1, <2>2
       DEF StoreFits, ReleasedMeansApplied, NothingLost, AppliedInOrder, Sessions
<1>14. QED
  BY <1>5, <1>10, <1>11, <1>12, <1>13 DEF IInv

-------------------------------------------------------------------------------
(* The theorems *)

LEMMA IInvNext == IInv /\ [Next]_vars => IInv'
<1> SUFFICES ASSUME IInv, [Next]_vars PROVE IInv'
  OBVIOUS
<1>1. CASE UNCHANGED vars
  <2>1. /\ UNCHANGED <<made, queued, seq, nextSeq, disk, aside, token, current, live, used, inAck>>
        /\ UNCHANGED <<applied, reported, poll, released, persisted, faults>>
    BY <1>1 DEF vars, outboxVars, hubVars
  <2>2. TypeOK'
    BY <2>1 DEF IInv, TypeOK
  <2>3. QueueFits' /\ CurrentFits' /\ PollsFit'
    BY <2>1 DEF IInv, QueueFits, Numbered, CurrentFits, PollsFit, PollFits, Cargo
  <2>4. OursFit' /\ TheirsFit' /\ AgreeFit'
    BY <2>1 DEF IInv, OursFit, Ours, BatchFits, TheirsFit, Theirs, HubFits, AgreeFit, Agree, Cargo
  <2>5. StoreFits'
    BY <2>1 DEF IInv, StoreFits, ReleasedMeansApplied, NothingLost, AppliedInOrder, Sessions
  <2>6. QED
    BY <2>2, <2>3, <2>4, <2>5 DEF IInv
<1>2. CASE \E m \in Entries : AppendEntry(m)
  BY <1>2, AppendNext
<1>3. CASE NewSession
  BY <1>3, NewSessionNext
<1>4. ASSUME NEW p \in Slots, SendPoll(p) \/ HubStep(p) \/ Vanish(p) PROVE IInv'
  BY <1>4, SendPollNext, ApplyNext, QuietNext DEF HubStep, PollStep, QuietStep
<1>5. CASE UnheardSession \/ EndSession \/ RenewSession \/ GiveUpPoll
  BY <1>5, QuietNext DEF QuietStep
<1>6. CASE Callback
  BY <1>6, TakeAnswerNext, TakeEnvelopeInvalidNext, QuietNext DEF Callback, QuietStep
<1>7. CASE Crash
  BY <1>7, CrashNext
<1>8. QED
  BY <1>1, <1>2, <1>3, <1>4, <1>5, <1>6, <1>7 DEF Next

LEMMA Invariance == Spec => []IInv
  BY IInvInit, IInvNext, PTL DEF Spec

\* The outbox, the sessions and the polls keep their types in every reachable
\* state (VyshkaOutbox.c, hub/store/envelopes.go).
THEOREM TypeCorrect == Spec => []TypeOK
<1>1. IInv => TypeOK
  BY DEF IInv
<1>2. QED
  BY <1>1, Invariance, PTL

\* Whatever was renumbered, quarantined, retransmitted or crashed in between,
\* an entry the outbox drops on an ack was applied (Ack of VyshkaOutbox.c,
\* applyInbound of hub/store/envelopes.go).
THEOREM AcksAreKept == Spec => []ReleasedMeansApplied
<1>1. IInv => ReleasedMeansApplied
  BY DEF IInv, StoreFits
<1>2. QED
  BY <1>1, Invariance, PTL

\* No crash, refusal, failed delete or renumbering loses an entry on disk.
THEOREM EntriesSurvive == Spec => []NothingLost
<1>1. IInv => NothingLost
  BY DEF IInv, StoreFits
<1>2. QED
  BY <1>1, Invariance, PTL

\* The hub applies in creation order, across sessions, lost answers and late
\* polls (classifyInbound, Renumber).
THEOREM OrderIsKept == Spec => []AppliedInOrder
<1>1. IInv => AppliedInOrder
  BY DEF IInv, StoreFits
<1>2. QED
  BY <1>1, Invariance, PTL

\* The numbers of a session mean the same entry at both ends.
THEOREM NumbersAgree == Spec => []SpacesAgree
<1>1. ASSUME IInv, token # None, token = live, NEW m \in queued
      PROVE  /\ seq[m] <= inAck[live] => m \in applied
             /\ (\A n \in queued : m <= n) => seq[m] <= inAck[live] + 1
  <2>1. /\ Numbered /\ inAck[token] \in Nat /\ nextSeq \in Nat /\ seq[m] \in Nat /\ m \in Nat
        /\ \A n \in queued : n \in Nat /\ seq[n] \in Nat
    BY <1>1, Parts DEF IInv, QueueFits
  <2>2. ASSUME \A n \in queued : m <= n PROVE seq[m] <= inAck[token] + 1
    <3>1. SUFFICES ASSUME inAck[token] + 1 < seq[m] PROVE FALSE
      BY <2>1
    <3>2. inAck[token] + 1 \in (inAck[token] + 1) .. nextSeq
      BY <2>1, <3>1 DEF Numbered
    <3>3. PICK n \in queued : seq[n] = inAck[token] + 1
      BY <2>1, <3>2 DEF Numbered
    <3>4. n # m /\ ~(m < n)
      BY <2>1, <3>1, <3>3 DEF Numbered
    <3>5. QED
      BY <2>1, <2>2, <3>4
  <2>3. QED
    BY <1>1, <2>1, <2>2 DEF Numbered
<1>2. IInv => SpacesAgree
  BY <1>1 DEF SpacesAgree, None
<1>3. QED
  BY <1>2, Invariance, PTL

\* No answer lowers an ack the hub has reported on the session: an answer is
\* read from what is committed, and that only grows (holdPoll, section 9.1).
THEOREM AcksNeverFall == Spec => AckNeverLowered
<1>1. ASSUME IInv, [Next]_vars, NEW s \in Sessions PROVE reported'[s] >= reported[s]
  <2>1. reported[s] \in Nat
    BY <1>1 DEF IInv, TypeOK
  <2>2. CASE QuietStep
    BY <1>1, <2>2, QuietReport, <2>1 DEF IInv, TypeOK
  <2>3. CASE reported' = reported
    BY <2>1, <2>3
  <2>4. QED
    BY <1>1, <2>2, <2>3
       DEF Next, HubStep, QuietStep, PollStep, Callback, AppendEntry, NewSession, SendPoll,
           ApplyInbound, TakeAnswer, TakeEnvelopeInvalid, Crash, vars, hubVars
<1>2. IInv /\ [Next]_vars => [\A s \in Sessions : reported'[s] >= reported[s]]_vars
  BY <1>1
<1>3. QED
  BY <1>2, Invariance, PTL DEF Spec, AckNeverLowered

-------------------------------------------------------------------------------
(* The outbox implements the delivery contract *)

\* The stations of all entries: the refinement mapping as one function.
stations == [m \in Entries |-> Station(m)]

\* What is applied was made, what is released was applied, and only what was
\* made is in hand; so the cases of Station exclude each other.
StationFits(m) ==
  /\ m \in released => m \in applied
  /\ m \in applied => m \in made
  /\ InHand(m) => m \in made
  /\ Station(m) = IF m \in released THEN "settled" ELSE
                  IF m \in applied THEN "taken" ELSE
                  IF InHand(m) THEN "queued" ELSE
                  IF m \in made THEN "retired" ELSE "absent"

LEMMA StationIs ==
  ASSUME IInv, NEW m \in Entries
  PROVE  StationFits(m)
<1>1. released \subseteq applied /\ applied \subseteq made /\ queued \cup disk \subseteq made
  BY DEF IInv, TypeOK, StoreFits, ReleasedMeansApplied
<1>2. \A p \in Slots : Carried(poll[p].batch) \subseteq made
  BY DEF IInv, PollsFit, PollFits, Cargo
<1>3. InHand(m) => m \in made
  BY <1>1, <1>2 DEF InHand
<1>4. QED
  BY <1>1, <1>3 DEF StationFits, Station

\* The same of the state after a step.
LEMMA StationBecomes ==
  ASSUME IInv', NEW m \in Entries
  PROVE  StationFits(m)'
<1>1. released' \subseteq applied' /\ applied' \subseteq made' /\ queued' \cup disk' \subseteq made'
  BY DEF IInv, TypeOK, StoreFits, ReleasedMeansApplied
<1>2. \A p \in Slots : Carried(poll[p].batch)' \subseteq made'
  BY DEF IInv, PollsFit, PollFits, Cargo
<1>3. InHand(m)' => m \in made'
  BY <1>1, <1>2 DEF InHand
<1>4. QED
  BY <1>1, <1>3 DEF StationFits, Station

\* A step that gives every member of S another station, and nobody else.
LEMMA StationMove ==
  ASSUME NEW S \in SUBSET Entries, S # {}, NEW x, NEW y,
         \A m \in S : Station(m) = x /\ Station(m)' = y,
         \A m \in Entries \ S : Station(m)' = Station(m)
  PROVE  Contract!Move(S, x, y)
<1>1. \A m \in S : stations[m] = x
  BY DEF stations
<1>2. stations' = [m \in Entries |-> IF m \in S THEN y ELSE stations[m]]
  BY DEF stations
<1>3. QED
  BY <1>1, <1>2 DEF Contract!Move, stations

\* A step that applies and releases nothing can only let go of what is in hand.
LEMMA LetGo ==
  ASSUME IInv, IInv', released' = released, applied' = applied, made' = made,
         \A m \in Entries : InHand(m)' => InHand(m)
  PROVE  Contract!Next \/ stations' = stations
<1> DEFINE S == {m \in Entries : m \notin applied /\ InHand(m) /\ ~InHand(m)'}
<1>1. \A m \in S : Station(m) = "queued" /\ Station(m)' = "retired"
  <2>1. SUFFICES ASSUME NEW m \in S PROVE Station(m) = "queued" /\ Station(m)' = "retired"
    OBVIOUS
  <2>2. Station(m) = "queued" /\ m \in made
    BY StationIs, StationBecomes DEF StationFits
  <2>3. Station(m)' = "retired"
    BY <2>2, StationIs, StationBecomes DEF StationFits
  <2>4. QED
    BY <2>2, <2>3
<1>2. \A m \in Entries \ S : Station(m)' = Station(m)
  <2>1. SUFFICES ASSUME NEW m \in Entries \ S PROVE Station(m)' = Station(m)
    OBVIOUS
  <2>2. m \in applied \/ (InHand(m)' <=> InHand(m))
    OBVIOUS
  <2>3. QED
    BY <2>2, StationIs, StationBecomes DEF StationFits
<1>3. S \in SUBSET Entries
  OBVIOUS
<1> HIDE DEF S
<1>4. CASE S = {}
  BY <1>2, <1>4 DEF stations
<1>5. CASE S # {}
  <2>1. Contract!Move(S, "queued", "retired")
    BY <1>1, <1>2, <1>3, <1>5, StationMove
  <2>2. QED
    BY <1>3, <2>1 DEF Contract!Next, Contract!Retire
<1>6. QED
  BY <1>4, <1>5

\* A new entry is accepted into the queue.
LEMMA AppendAccepts ==
  ASSUME IInv, IInv', NEW m \in Entries, AppendEntry(m)
  PROVE  Contract!Next
<1>1. /\ m \notin made /\ made' = made \cup {m} /\ queued' = queued \cup {m}
      /\ disk' \subseteq disk \cup {m} /\ disk \ released \subseteq disk'
  BY AppendFrame DEF IInv
<1>2. released' = released /\ applied' = applied /\ poll' = poll
  BY DEF AppendEntry, hubVars
<1>3. Station(m) = "absent" /\ Station(m)' = "queued"
  <2>1. m \notin released /\ m \notin applied /\ ~InHand(m)
    BY <1>1, StationIs, StationBecomes DEF StationFits
  <2>2. InHand(m)'
    BY <1>1 DEF InHand
  <2>3. QED
    BY <1>1, <1>2, <2>1, <2>2, StationIs, StationBecomes DEF StationFits
<1>4. ASSUME NEW n \in Entries \ {m} PROVE Station(n)' = Station(n)
  <2>1. n \in released \/ (InHand(n)' <=> InHand(n))
    BY <1>1, <1>2 DEF InHand
  <2>2. QED
    BY <1>1, <1>2, <2>1, StationIs, StationBecomes DEF StationFits
<1>5. Contract!Move({m}, "absent", "queued")
  BY <1>3, <1>4, StationMove
<1>6. QED
  BY <1>5 DEF Contract!Next, Contract!Accept

\* What the hub applies for the first time is taken.
LEMMA ApplyTakes ==
  ASSUME IInv, IInv', NEW p \in Slots, ApplyInbound(p)
  PROVE  Contract!Next \/ stations' = stations
<1>1. PICK A \in SUBSET Carried(poll[p].batch) : applied' = applied \cup A
  BY DEF ApplyInbound
<1>2. /\ released' = released /\ made' = made /\ queued' = queued /\ disk' = disk
      /\ poll' = [poll EXCEPT ![p] = [poll[p] EXCEPT !.stage = "applied",
                                                    !.ack = inAck'[poll[p].sess]]]
  BY DEF ApplyInbound, outboxVars
<1>3. poll[p] \in PollType /\ poll \in [Slots -> PollType]
  BY DEF IInv, TypeOK
<1>4. \A q \in Slots : poll'[q].batch = poll[q].batch
  <2>1. /\ poll'[p] = [poll[p] EXCEPT !.stage = "applied", !.ack = inAck'[poll[p].sess]]
        /\ \A q \in Slots : q # p => poll'[q] = poll[q]
    BY <1>2, <1>3
  <2>2. QED
    BY <1>3, <2>1 DEF PollType
<1>5. \A m \in Entries : InHand(m)' <=> InHand(m)
  BY <1>2, <1>4 DEF InHand
<1> DEFINE S == A \ applied
<1>6. \A m \in S : m \in Entries /\ InHand(m)
  BY DEF InHand, Carried
<1>7. \A m \in S : Station(m) = "queued" /\ Station(m)' = "taken"
  <2>1. SUFFICES ASSUME NEW m \in S PROVE Station(m) = "queued" /\ Station(m)' = "taken"
    OBVIOUS
  <2>2. m \in Entries /\ InHand(m) /\ m \in applied' /\ m \notin applied /\ m \notin released
    BY <1>1, <1>6, StationIs, StationBecomes DEF StationFits
  <2>3. Station(m) = "queued"
    BY <2>2, StationIs, StationBecomes DEF StationFits
  <2>4. Station(m)' = "taken"
    BY <1>2, <2>2, StationIs, StationBecomes DEF StationFits
  <2>5. QED
    BY <2>3, <2>4
<1>8. \A m \in Entries \ S : Station(m)' = Station(m)
  <2>1. SUFFICES ASSUME NEW m \in Entries \ S PROVE Station(m)' = Station(m)
    OBVIOUS
  <2>2. m \in applied' <=> m \in applied
    BY <1>1
  <2>3. QED
    BY <1>2, <1>5, <2>2, StationIs, StationBecomes DEF StationFits
<1>9. S \in SUBSET Entries
  BY <1>6
<1> HIDE DEF S
<1>10. CASE S = {}
  BY <1>8, <1>10 DEF stations
<1>11. CASE S # {}
  <2>1. Contract!Move(S, "queued", "taken")
    BY <1>7, <1>8, <1>9, <1>11, StationMove
  <2>2. QED
    BY <1>9, <2>1 DEF Contract!Next, Contract!Take
<1>12. QED
  BY <1>10, <1>11

\* What an ack covers is settled, and the rest of the poll's cargo is queued.
LEMMA AnswerSettles ==
  ASSUME IInv, IInv', TakeAnswer
  PROVE  Contract!Next \/ stations' = stations
<1> DEFINE gone == Acked(poll[current].ack)
           S == gone \ released
<1>1. /\ queued' = queued \ gone /\ released' = released \cup gone /\ Erase(gone)
      /\ made' = made /\ applied' = applied /\ current # Nobody /\ EndPoll
  BY DEF TakeAnswer, Ack, hubVars
<1>2. gone \subseteq queued /\ queued \subseteq Entries /\ gone \subseteq applied
  <2>1. released' \subseteq applied'
    BY DEF IInv, StoreFits, ReleasedMeansApplied
  <2>2. gone \subseteq queued
    BY DEF Acked
  <2>3. QED
    BY <1>1, <2>1, <2>2 DEF IInv, TypeOK
<1>3. disk' \subseteq disk /\ disk \ gone \subseteq disk'
  BY <1>1, EraseFrame DEF IInv, TypeOK
<1>4. /\ current \in Slots /\ \A p \in Slots : poll'[p] = NoPoll \/ poll'[p] = poll[p]
      /\ \A p \in Slots : p # current => poll'[p] = poll[p]
      /\ Carried(poll[current].batch) \subseteq queued
  <2>1. poll \in [Slots -> PollType] /\ TypeOK /\ CurrentFits
    BY DEF IInv, TypeOK
  <2>2. QED
    BY <1>1, <2>1, EndPollFrame DEF EndPoll, CurrentFits, Cargo
<1>5. ASSUME NEW m \in Entries PROVE m \in applied \/ (InHand(m)' <=> InHand(m))
  <2>1. SUFFICES ASSUME m \notin applied PROVE InHand(m)' <=> InHand(m)
    OBVIOUS
  <2>2. m \notin gone
    BY <1>2, <2>1
  <2>3. m \in queued' \cup disk' <=> m \in queued \cup disk
    BY <1>1, <1>3, <2>2
  <2>4. \A p \in Slots : m \in Carried(poll'[p].batch) => m \in Carried(poll[p].batch)
    BY <1>4 DEF NoPoll, NoBatch, Carried
  <2>5. \A p \in Slots : m \in Carried(poll[p].batch) => m \in Carried(poll'[p].batch) \/ m \in queued
    BY <1>4
  <2>6. QED
    BY <2>3, <2>4, <2>5 DEF InHand
<1> HIDE DEF gone
<1>6. \A m \in S : Station(m) = "taken" /\ Station(m)' = "settled"
  <2>1. SUFFICES ASSUME NEW m \in S PROVE Station(m) = "taken" /\ Station(m)' = "settled"
    OBVIOUS
  <2>2. m \in Entries /\ m \in applied /\ m \notin released /\ m \in released'
    BY <1>1, <1>2
  <2>3. QED
    BY <2>2, StationIs, StationBecomes DEF StationFits
<1>7. \A m \in Entries \ S : Station(m)' = Station(m)
  <2>1. SUFFICES ASSUME NEW m \in Entries \ S PROVE Station(m)' = Station(m)
    OBVIOUS
  <2>2. m \in released' <=> m \in released
    BY <1>1
  <2>3. QED
    BY <1>1, <1>5, <2>2, StationIs, StationBecomes DEF StationFits
<1>8. S \in SUBSET Entries
  BY <1>2
<1> HIDE DEF S
<1>9. CASE S = {}
  BY <1>7, <1>9 DEF stations
<1>10. CASE S # {}
  <2>1. Contract!Move(S, "taken", "settled")
    BY <1>6, <1>7, <1>8, <1>10, StationMove
  <2>2. QED
    BY <1>8, <2>1 DEF Contract!Next, Contract!Settle
<1>11. QED
  BY <1>9, <1>10

\* Every other step lets go of entries at most.
LEMMA OthersLetGo ==
  ASSUME IInv, IInv',
         \/ NewSession \/ QuietStep \/ TakeEnvelopeInvalid \/ Crash \/ UNCHANGED vars
         \/ \E p \in Slots : SendPoll(p)
  PROVE  Contract!Next \/ stations' = stations
<1>0. TypeOK /\ CurrentFits /\ PollsFit
  BY DEF IInv
<1>1. SUFFICES /\ released' = released /\ applied' = applied /\ made' = made
               /\ \A m \in Entries : InHand(m)' => InHand(m)
  BY LetGo
<1>2. ASSUME queued' \subseteq queued \cup disk, disk' \subseteq disk,
             \A p \in Slots : Cargo(p)' \subseteq Cargo(p) \cup queued, NEW m \in Entries, InHand(m)'
      PROVE  InHand(m)
  BY <1>2 DEF InHand, Cargo
<1>3. ASSUME \A p \in Slots : Kept(p), NEW p \in Slots PROVE Cargo(p)' \subseteq Cargo(p) \cup queued
  BY <1>3, NoPollFacts DEF Kept, Cargo
<1>4. CASE NewSession \/ Crash \/ UNCHANGED vars
  <2>1. /\ released' = released /\ applied' = applied /\ made' = made
        /\ queued' = queued \/ queued' = disk
        /\ disk' = disk /\ poll' = poll
    BY <1>4 DEF NewSession, Crash, vars, outboxVars, hubVars
  <2>2. QED
    BY <1>2, <2>1 DEF Cargo
<1>5. CASE QuietStep
  <2>1. UNCHANGED <<outboxVars, inAck, applied>> /\ \A p \in Slots : Kept(p)
    BY <1>0, <1>5, QuietFrame, QuietPolls
  <2>2. QED
    BY <1>2, <1>3, <2>1 DEF outboxVars
<1>6. CASE TakeEnvelopeInvalid
  <2>1. PICK m \in Unusable(poll[current].batch) : Quarantine(m)
    BY <1>6 DEF TakeEnvelopeInvalid
  <2>2. /\ released' = released /\ applied' = applied /\ made' = made
        /\ queued' = queued \ {m} /\ current # Nobody /\ EndPoll
    BY <1>6, <2>1 DEF TakeEnvelopeInvalid, Quarantine, hubVars
  <2>3. disk' \subseteq disk
    BY <1>0, <2>1, EraseFrame DEF Quarantine, TypeOK
  <2>4. \A p \in Slots : Kept(p)
    BY <1>0, <2>2, EndPollFrame DEF Kept
  <2>5. QED
    BY <1>2, <1>3, <2>2, <2>3, <2>4
<1>7. ASSUME NEW p \in Slots, SendPoll(p)
      PROVE  /\ released' = released /\ applied' = applied /\ made' = made
             /\ \A m \in Entries : InHand(m)' => InHand(m)
  <2>1. PICK k \in 1..BatchLimit :
          poll' = [poll EXCEPT ![p] =
            [stage |-> "sent", sess |-> token, ack |-> 0,
             batch |-> [m \in Entries |-> IF m \in Leading(k) THEN seq[m] ELSE 0]]]
    BY <1>7 DEF SendPoll
  <2>2. /\ released' = released /\ applied' = applied /\ made' = made
        /\ queued' = queued /\ disk' = disk
    BY <1>7 DEF SendPoll, outboxVars, hubVars
  <2>3. poll \in [Slots -> PollType] /\ Leading(k) \subseteq queued
    BY <1>0 DEF TypeOK, Leading
  <2>4. ASSUME NEW q \in Slots PROVE Cargo(q)' \subseteq Cargo(q) \cup queued
    <3>1. CASE q # p
      BY <2>1, <2>3, <3>1 DEF Cargo
    <3>2. CASE q = p
      BY <2>1, <2>3, <3>2 DEF Cargo, Carried
    <3>3. QED
      BY <3>1, <3>2
  <2>5. QED
    BY <1>2, <2>2, <2>4
<1>8. QED
  BY <1>4, <1>5, <1>6, <1>7

\* The outbox, its sessions, its polls and the hub keep the delivery contract,
\* this time with the plugin as the sender.
THEOREM OutboxKeepsContract == Spec => ContractSpec
<1>1. Init => Contract!Init
  <2>1. SUFFICES ASSUME Init PROVE \A m \in Entries : Station(m) = "absent"
    BY DEF Contract!Init
  <2>2. \A m \in Entries : ~InHand(m) /\ m \notin released /\ m \notin applied /\ m \notin made
    BY <2>1 DEF Init, InHand, NoPoll, NoBatch, Carried
  <2>3. QED
    BY <2>2 DEF Station
<1>2. ASSUME IInv, IInv', [Next]_vars PROVE Contract!Next \/ stations' = stations
  BY <1>2, AppendAccepts, ApplyTakes, AnswerSettles, OthersLetGo
     DEF Next, HubStep, PollStep, QuietStep, Callback
<1>3. IInv /\ IInv' /\ [Next]_vars => [Contract!Next]_[m \in Entries |-> Station(m)]
  BY <1>2 DEF stations
<1>4. QED
  BY <1>1, <1>3, Invariance, PTL DEF Spec, ContractSpec, Contract!Spec
===============================================================================
