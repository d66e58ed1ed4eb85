------------------------------ MODULE PluginToHub ------------------------------
(***************************************************************************)
(* The plugin-to-hub half of the link: the plugin's durable outbox         *)
(* (VyshkaOutbox.c), the polls that carry it, and the hub that applies     *)
(* what arrives against the session's contiguous ack (hub/envelope.go,     *)
(* hub/poll.go, applyInbound in hub/store/envelopes.go).                   *)
(*                                                                         *)
(* An entry is its place in the order of creation, which is the order of   *)
(* m_Ordinal; how records are named on disk is left out.  A poll outlives  *)
(* the plugin's interest in it, so several may be inside the hub at once,  *)
(* some of them framed before a session change or a quarantine.            *)
(***************************************************************************)
EXTENDS Integers, FiniteSets, FiniteSetsExt

CONSTANTS
  Entries,      \* the entries that may ever be appended
  Malformed,    \* those whose framing the hub refuses
  Capacity,     \* CAPACITY (5000)
  BatchLimit,   \* BATCH_LIMIT (200)
  DiskMayFail,  \* TRUE: a write, move or delete of a record can fail
  Slots,        \* the polls the hub may be running at once
  MaxSessions,  \* bound on StartSession
  MaxFaults     \* bound on lost requests, crashes and disk failures

ASSUME EntriesAssumption ==
  /\ Entries \subseteq Nat /\ IsFiniteSet(Entries)
  /\ Malformed \subseteq Entries

ASSUME BoundsAssumption ==
  /\ Capacity \in Nat \ {0} /\ BatchLimit \in Nat \ {0}
  /\ DiskMayFail \in BOOLEAN
  /\ MaxSessions \in Nat /\ MaxFaults \in Nat

Sessions == 1..MaxSessions
None == 0
Nobody == "nobody"
ASSUME SlotsAssumption == Nobody \notin Slots

VARIABLES
  made,       \* every entry ever appended
  queued,     \* m_Entries
  seq,        \* m_Seq of the queued entries
  nextSeq,    \* m_NextSeq
  disk,       \* the records a boot would find under the outbox directory
  aside,      \* the records under rejected/
  token,      \* m_SessionToken
  current,    \* the poll whose callback the plugin still accepts
  live,       \* the one session neither ended nor expired
  used,       \* the sessions ever started are 1..used
  inAck,      \* sessions.inbound_ack
  applied,    \* the envelopes whose effects the hub has committed
  reported,   \* history: the ack in the last answer on each session
  poll,       \* the polls in flight
  released,   \* history: entries the outbox dropped on the hub's ack
  persisted,  \* history: entries whose record was written
  faults      \* faults so far

outboxVars == <<made, queued, seq, nextSeq, disk, aside, released, persisted>>
hubVars == <<live, used, inAck, applied, reported>>
vars == <<outboxVars, token, current, hubVars, poll, faults>>

\* A batch gives each entry it carries a number above 0.
NoBatch == [m \in Entries |-> 0]
Carried(batch) == {m \in Entries : batch[m] # 0}
NoPoll == [stage |-> "none", sess |-> None, ack |-> 0, batch |-> NoBatch]
Stages == {"none", "sent", "admitted", "applied", "answered",
           "envelope_invalid", "session_invalid"}
PollType == [stage: Stages, sess: 0..MaxSessions, ack: Nat, batch: [Entries -> Nat]]

TypeOK ==
  /\ made \subseteq Entries
  /\ queued \subseteq made
  /\ seq \in [Entries -> Nat]
  /\ nextSeq \in Nat
  /\ disk \subseteq persisted
  /\ aside \subseteq Malformed
  /\ used \in 0..MaxSessions
  /\ live \in 0..used
  /\ token \in 0..used
  /\ current \in Slots \cup {Nobody}
  /\ inAck \in [Sessions -> Nat]
  /\ applied \subseteq made
  /\ reported \in [Sessions -> Nat]
  /\ poll \in [Slots -> PollType]
  /\ released \subseteq made
  /\ persisted \subseteq made
  /\ faults \in 0..MaxFaults

Init ==
  /\ made = {} /\ queued = {} /\ disk = {} /\ aside = {}
  /\ seq = [m \in Entries |-> 0] /\ nextSeq = 0
  /\ token = None /\ current = Nobody
  /\ live = None /\ used = 0 /\ inAck = [s \in Sessions |-> 0]
  /\ applied = {} /\ reported = [s \in Sessions |-> 0]
  /\ poll = [p \in Slots |-> NoPoll]
  /\ released = {} /\ persisted = {}
  /\ faults = 0

Fault == faults < MaxFaults /\ faults' = faults + 1
DiskFault == DiskMayFail /\ Fault

-------------------------------------------------------------------------------
(* The outbox *)

NextMade(m) == m \notin made /\ \A n \in Entries : n < m => n \in made

\* Append persists the entry and numbers it into the current session.  The
\* record may take the file name of a released one that failed to go away.  At
\* capacity Append refuses the new entry, which leaves everything as it was.
AppendEntry(m) ==
  /\ NextMade(m)
  /\ Cardinality(queued) < Capacity
  /\ made' = made \cup {m}
  /\ queued' = queued \cup {m}
  /\ nextSeq' = nextSeq + 1
  /\ seq' = [seq EXCEPT ![m] = nextSeq + 1]
  /\ \E stale \in SUBSET ((disk \cap released) \ queued) :
       /\ Cardinality(stale) <= 1
       /\ \/ /\ disk' = (disk \ stale) \cup {m}
             /\ persisted' = persisted \cup {m}
             /\ UNCHANGED faults
          \/ /\ disk' = disk \ stale
             /\ DiskFault
             /\ UNCHANGED persisted
  /\ UNCHANGED <<aside, released, token, current, hubVars, poll>>

\* The records of S are deleted, or some of them fail to go away.
Erase(S) ==
  \/ disk' = disk \ S /\ UNCHANGED faults
  \/ \E stuck \in SUBSET (S \cap disk) \ {{}} :
       disk' = disk \ (S \ stuck) /\ DiskFault

\* Ack drops every numbered entry at or below the hub's ack.
AckedOffByOne(a) == {m \in queued : seq[m] > 0 /\ seq[m] <= a + 1}
Acked(a) == {m \in queued : seq[m] > 0 /\ seq[m] <= a}

Ack(a) ==
  /\ queued' = queued \ Acked(a)
  /\ released' = released \cup Acked(a)
  /\ Erase(Acked(a))
  /\ UNCHANGED <<made, seq, nextSeq, aside, persisted>>

\* Every queued entry behind m moves down one number.
LeftBehind(m) == seq
MovedDown(m) == [n \in Entries |-> IF n \in queued /\ seq[n] > seq[m] THEN seq[n] - 1 ELSE seq[n]]

QuarantineDropping(m) ==
  /\ queued' = queued \ {m}
  /\ seq' = MovedDown(m)
  /\ nextSeq' = nextSeq - 1
  /\ \/ aside' = aside \cup {m} /\ Erase({m})
     \/ DiskFault /\ disk' = disk \ {m} /\ UNCHANGED aside
  /\ UNCHANGED <<made, released, persisted>>

\* Quarantine moves the refused record under rejected/.  When neither the copy
\* nor the move succeeds the record stays for the next boot to try again, and
\* a copy whose original cannot be deleted is sent again by the next boot.
Quarantine(m) ==
  /\ queued' = queued \ {m}
  /\ seq' = MovedDown(m)
  /\ nextSeq' = nextSeq - 1
  /\ \/ aside' = aside \cup {m} /\ Erase({m})
     \/ DiskFault /\ UNCHANGED <<aside, disk>>
  /\ UNCHANGED <<made, released, persisted>>

\* Renumber counts the queue from 1 in creation order.
Renumbered(S) ==
  [m \in Entries |-> IF m \in S THEN Cardinality({n \in S : n <= m}) ELSE 0]

-------------------------------------------------------------------------------
(* Sessions, reduced to what this half of the link sees of them *)

\* The plugin's session request is served and its answer taken: a new sequence
\* space, into which the whole outbox is renumbered.
NewSession ==
  /\ token = None
  /\ used < MaxSessions
  /\ used' = used + 1 /\ live' = used + 1 /\ token' = used + 1
  /\ seq' = Renumbered(queued) /\ nextSeq' = Cardinality(queued)
  /\ UNCHANGED <<made, queued, disk, aside, released, persisted, current, inAck, applied,
                 reported, poll, faults>>

\* A session request is served whose answer never reaches the plugin, at once
\* or long after the plugin gave up on it.
UnheardSession ==
  /\ used < MaxSessions
  /\ Fault
  /\ used' = used + 1 /\ live' = used + 1
  /\ UNCHANGED <<outboxVars, token, current, inAck, applied, reported, poll>>

\* Expiry or revocation at the hub, renewal at the plugin.
EndSession ==
  /\ live # None
  /\ Fault
  /\ live' = None
  /\ UNCHANGED <<outboxVars, token, current, used, inAck, applied, reported, poll>>

RenewSession ==
  /\ token # None /\ current = Nobody
  /\ Fault
  /\ token' = None
  /\ UNCHANGED <<outboxVars, current, hubVars, poll>>

-------------------------------------------------------------------------------
(* Polls *)

\* BatchJson frames the leading entries: as many as the batch limit and the
\* event budget allow, and at least one.
Leading(k) == {m \in queued : Cardinality({n \in queued : n <= m}) <= k}

SendPoll(p) ==
  /\ token # None /\ current = Nobody
  /\ poll[p].stage = "none"
  /\ \E k \in 1..BatchLimit :
       poll' = [poll EXCEPT ![p] =
         [stage |-> "sent", sess |-> token, ack |-> 0,
          batch |-> [m \in Entries |-> IF m \in Leading(k) THEN seq[m] ELSE 0]]]
  /\ current' = p
  /\ UNCHANGED <<outboxVars, token, hubVars, faults>>

MoveTo(p, stage) == poll' = [poll EXCEPT ![p].stage = stage]

\* authenticateSession, and the liveness check of every later transaction.
Authenticate(p) ==
  /\ poll[p].stage = "sent"
  /\ MoveTo(p, IF poll[p].sess = live THEN "admitted" ELSE "session_invalid")
  /\ UNCHANGED <<outboxVars, token, current, hubVars, faults>>

SessionGone(p) ==
  /\ poll[p].stage \in {"admitted", "applied"}
  /\ poll[p].sess # live
  /\ MoveTo(p, "session_invalid")
  /\ UNCHANGED <<outboxVars, token, current, hubVars, faults>>

\* validateInbound: one bad envelope refuses the whole poll.
WholeBatch(batch) == IF Carried(batch) \cap Malformed = {} THEN {} ELSE Carried(batch)
Unusable(batch) == Carried(batch) \cap Malformed

RefuseFraming(p) ==
  /\ poll[p].stage = "admitted"
  /\ Unusable(poll[p].batch) # {}
  /\ MoveTo(p, "envelope_invalid")
  /\ UNCHANGED <<outboxVars, token, current, hubVars, faults>>

\* classifyInbound: A is what the walk over the batch in arrival order accepts,
\* each the next one above the ack as it then stands.
Accepts(ack, batch, A) ==
  \A m \in Carried(batch) :
    m \in A <=> batch[m] = ack + Cardinality({n \in A : n < m}) + 1

\* ApplyInbound: the ack and the effects it covers commit together.
ApplyInbound(p) ==
  LET s == poll[p].sess
  IN  /\ poll[p].stage = "admitted"
      /\ Unusable(poll[p].batch) = {}
      /\ s = live
      /\ \E A \in SUBSET Carried(poll[p].batch) :
           /\ Accepts(inAck[s], poll[p].batch, A)
           /\ inAck' = [inAck EXCEPT ![s] = @ + Cardinality(A)]
           /\ applied' = applied \cup A
      /\ poll' = [poll EXCEPT ![p] = [@ EXCEPT !.stage = "applied", !.ack = inAck'[s]]]
      /\ UNCHANGED <<outboxVars, token, current, live, used, reported, faults>>

\* What holdPoll answers with: the ack its own envelopes were committed with,
\* or the one that stands when it last reads the session.
AsIngested(p) == poll[p].ack
Refreshed(p) == Max({poll[p].ack, inAck[poll[p].sess]})

Respond(p) ==
  /\ poll[p].stage = "applied"
  /\ poll[p].sess = live
  /\ poll' = [poll EXCEPT ![p] = [@ EXCEPT !.stage = "answered", !.ack = Refreshed(p)]]
  /\ reported' = [reported EXCEPT ![live] = Refreshed(p)]
  /\ UNCHANGED <<outboxVars, token, current, live, used, inAck, applied, faults>>

Vanish(p) ==
  /\ poll[p].stage # "none" /\ p # current
  /\ poll' = [poll EXCEPT ![p] = NoPoll]
  /\ UNCHANGED <<outboxVars, token, current, hubVars, faults>>

-------------------------------------------------------------------------------
(* The plugin's callbacks *)

EndPoll == poll' = [poll EXCEPT ![current] = NoPoll] /\ current' = Nobody

TakeAnswer ==
  /\ current # Nobody /\ poll[current].stage = "answered"
  /\ Ack(poll[current].ack)
  /\ EndPoll
  /\ UNCHANGED <<token, hubVars>>

\* envelope_invalid: details.index names the first bad envelope of the batch.
TakeEnvelopeInvalid ==
  /\ current # Nobody /\ poll[current].stage = "envelope_invalid"
  /\ \E m \in Unusable(poll[current].batch) :
       /\ \A n \in Unusable(poll[current].batch) : m <= n
       /\ Quarantine(m)
  /\ EndPoll
  /\ UNCHANGED <<token, hubVars>>

TakeSessionInvalid ==
  /\ current # Nobody /\ poll[current].stage = "session_invalid"
  /\ EndPoll
  /\ token' = None
  /\ UNCHANGED <<outboxVars, hubVars, faults>>

\* No answer in time, a failed one, or one that asks for a retry later.
GiveUpPoll ==
  /\ current # Nobody
  /\ Fault
  /\ current' = Nobody
  /\ UNCHANGED <<outboxVars, token, hubVars, poll>>

\* The server stops at any point and Load restores what is on disk.
Crash ==
  /\ Fault
  /\ queued' = disk
  /\ seq' = [m \in Entries |-> 0] /\ nextSeq' = 0
  /\ token' = None /\ current' = Nobody
  /\ UNCHANGED <<made, disk, aside, released, persisted, hubVars, poll>>

-------------------------------------------------------------------------------
HubStep(p) ==
  Authenticate(p) \/ SessionGone(p) \/ RefuseFraming(p) \/ ApplyInbound(p) \/ Respond(p)

Callback == TakeAnswer \/ TakeEnvelopeInvalid \/ TakeSessionInvalid

Next ==
  \/ \E m \in Entries : AppendEntry(m)
  \/ NewSession \/ UnheardSession \/ EndSession \/ RenewSession
  \/ \E p \in Slots : SendPoll(p) \/ HubStep(p) \/ Vanish(p)
  \/ Callback \/ GiveUpPoll \/ Crash

Spec == Init /\ [][Next]_vars

\* Both ends keep running, as in HubToPlugin; nobody owes the outbox new work.
FairSpec ==
  /\ Spec
  /\ WF_vars(NewSession)
  /\ WF_vars(\E p \in Slots : SendPoll(p))
  /\ \A p \in Slots : WF_vars(HubStep(p)) /\ WF_vars(Vanish(p))
  /\ WF_vars(Callback)

-------------------------------------------------------------------------------
(* Properties *)

\* The outbox never forgets an entry the hub has not applied: dropped on an ack
\* means applied, whatever was renumbered or quarantined in between.
ReleasedMeansApplied == released \subseteq applied

\* An entry that reached the disk is applied, still there, or set aside for the
\* operator: no crash, refusal or renumbering loses it.
NothingLost == persisted \subseteq applied \cup disk \cup aside

\* The hub applies for the first time in creation order: when it has applied an
\* entry, every well-formed one written to disk before it was applied too.
AppliedInOrder ==
  \A n \in applied : \A m \in persisted \ Malformed : m < n => m \in applied

\* While the plugin's session lives, the first entry it would send is the one
\* the hub expects or one it has already applied, and the entries the hub's
\* ack covers are applied: the numbers the two ends use mean the same entry
\* even after a quarantine moved them.
SpacesAgree ==
  token # None /\ token = live =>
    \A m \in queued :
      /\ seq[m] <= inAck[live] => m \in applied
      /\ (\A n \in queued : m <= n) => seq[m] <= inAck[live] + 1

\* An ack the hub has reported on a session is never lowered by a later answer
\* (section 9.1), though the answer may be that of a poll that committed its
\* own envelopes before the ones already reported.
AckNeverLowered == [][\A s \in Sessions : reported'[s] >= reported[s]]_vars

\* The contract of DeliveryContract, this time with the plugin as the sender.
InHand(m) ==
  m \in queued \cup disk \/ \E p \in Slots : m \in Carried(poll[p].batch)
Station(m) ==
  CASE m \in released -> "settled"
    [] m \in applied \ released -> "taken"
    [] m \notin applied /\ InHand(m) -> "queued"
    [] m \in made \ applied /\ ~InHand(m) -> "retired"
    [] OTHER -> "absent"
Contract == INSTANCE DeliveryContract WITH Messages <- Entries,
                                           status <- [m \in Entries |-> Station(m)]
ContractSpec == Contract!Spec

\* Once the losses and restarts stop, every well-formed entry on disk reaches
\* the hub, past malformed ones ahead of it.
EveryEntryLands ==
  \A m \in Entries \ Malformed : (m \in disk) ~> (m \in applied)
===============================================================================
