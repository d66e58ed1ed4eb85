------------------------------ MODULE HubToPlugin ------------------------------
(***************************************************************************)
(* The hub-to-plugin half of the link: one server's durable outbound queue *)
(* (hub/store/envelopes.go), the sessions that number it                   *)
(* (hub/store/servers.go), the polls that carry it (hub/poll.go) and the   *)
(* single-threaded plugin at the other end (VyshkaPlugin.c,                *)
(* VyshkaTransport.c).                                                     *)
(*                                                                         *)
(* An envelope is its place in the queue's ORDER BY created_at, id: the    *)
(* members of Messages are numbers and the hub reads them in increasing    *)
(* order.  A session is the number of its StartSession.  Every action of   *)
(* the hub is one store transaction; the polls of one server overlap,      *)
(* because the plugin's watchdog abandons a request the hub still runs.    *)
(***************************************************************************)
EXTENDS Integers, FiniteSets, Sequences, Functions, SequencesExt

CONSTANTS
  Actions,       \* envelopes carrying an action.dispatch
  Notices,       \* every other envelope: rejections, bans.changed, ...
  Expiring,      \* the actions whose TTL can run out
  BatchLimit,    \* maxOutboundBatch (200)
  QueueLimit,    \* outboundQueueLimit (5000)
  LruCapacity,   \* EXECUTED_LRU_CAPACITY (512)
  InOrder,       \* TRUE: created_at follows the order of insertion
  LogMayFail,    \* TRUE: appending to the executed-action log, or reading it, can fail
  Slots,         \* the polls the hub may be running at once
  MaxSessions,   \* bound on StartSession
  MaxFaults      \* bound on lost requests, crashes, expiries, renewals

ASSUME MessagesAssumption ==
  /\ Actions \subseteq Nat /\ IsFiniteSet(Actions)
  /\ Notices \subseteq Nat /\ IsFiniteSet(Notices)
  /\ Actions \cap Notices = {}
  /\ Expiring \subseteq Actions

ASSUME LimitsAssumption ==
  /\ BatchLimit \in Nat \ {0}
  /\ QueueLimit \in Nat \ {0}
  /\ LruCapacity \in Nat \ {0}
  /\ InOrder \in BOOLEAN /\ LogMayFail \in BOOLEAN
  /\ MaxSessions \in Nat /\ MaxFaults \in Nat

Messages == Actions \cup Notices
Sessions == 1..MaxSessions
None == 0                          \* no session: NULL session_id, no token
Nobody == "nobody"                 \* no poll in flight
ASSUME SlotsAssumption == Nobody \notin Slots

VARIABLES
  phase,      \* outbound_envelopes: does the row exist, is it acked
  home,       \* its session_id
  seq,        \* its seq
  state,      \* actions.state, as far as this half of the link moves it
  overdue,    \* the actions past expires_at
  live,       \* the one session neither ended nor expired
  used,       \* the sessions ever started are 1..used
  outSeq,     \* sessions.outbound_seq
  outAck,     \* sessions.outbound_ack
  poll,       \* the polls in flight
  lateStarts, \* abandoned session requests the hub has not served yet
  link,       \* what the plugin is waiting for or doing
  current,    \* the poll whose callback the plugin still accepts
  offer,      \* the session named by an answer on its way to the plugin
  token,      \* m_SessionToken
  inAck,      \* m_InAck
  polled,     \* m_PolledThisSession
  inbox,      \* the part of a poll response not yet walked
  executed,   \* m_ExecutedOrder, the executed ids in memory
  log,        \* the ids LoadExecuted would restore from the log on disk
  forgotten,  \* history: executed ids not logged, or that a boot could not read
  taken,      \* history: envelopes the plugin took delivery of
  runs,       \* history: how often each action was executed
  faults      \* faults so far

rowVars == <<phase, home, seq, state, overdue>>
sessionVars == <<live, used, outSeq, outAck>>
hubVars == <<rowVars, sessionVars>>
linkVars == <<lateStarts, link, current, offer, token, inAck, polled, inbox>>
ledgerVars == <<executed, log, forgotten, taken, runs>>
vars == <<hubVars, poll, linkVars, ledgerVars, faults>>

\* An answer gives each envelope it carries a number above 0.
NoBatch == [m \in Messages |-> 0]
Carried(batch) == {m \in Messages : batch[m] # 0}
NoPoll == [stage |-> "none", sess |-> None, ack |-> 0, batch |-> NoBatch]
Batches == [Messages -> Nat]
Stages == {"none", "sent", "acked", "batch", "session_invalid", "ack_out_of_range"}
Links == {"idle", "session", "offered", "poll", "inbox"}

TypeOK ==
  /\ phase \in [Messages -> {"unborn", "pending", "acked", "retired"}]
  /\ home \in [Messages -> Sessions \cup {None}]
  /\ seq \in [Messages -> Nat]
  /\ state \in [Actions -> {"none", "queued", "delivered", "expired"}]
  /\ overdue \subseteq Actions
  /\ used \in 0..MaxSessions
  /\ live \in 0..used
  /\ outSeq \in [Sessions -> Nat]
  /\ outAck \in [Sessions -> Nat]
  /\ poll \in [Slots -> [stage: Stages, sess: 0..used, ack: Nat, batch: Batches]]
  /\ lateStarts \in Nat
  /\ link \in Links
  /\ current \in Slots \cup {Nobody} /\ (link = "poll" => current \in Slots)
  /\ offer \in 0..used
  /\ token \in 0..used
  /\ inAck \in Nat
  /\ polled \in BOOLEAN
  /\ inbox \in Batches
  /\ executed \in Seq(Actions) /\ Len(executed) <= LruCapacity
  /\ log \in Seq(Actions) /\ Len(log) <= LruCapacity
  /\ forgotten \subseteq Actions
  /\ taken \subseteq Messages
  /\ runs \in [Actions -> Nat]
  /\ faults \in 0..MaxFaults

Init ==
  /\ phase = [m \in Messages |-> "unborn"]
  /\ home = [m \in Messages |-> None]
  /\ seq = [m \in Messages |-> 0]
  /\ state = [a \in Actions |-> "none"]
  /\ overdue = {}
  /\ live = None /\ used = 0
  /\ outSeq = [s \in Sessions |-> 0]
  /\ outAck = [s \in Sessions |-> 0]
  /\ poll = [p \in Slots |-> NoPoll]
  /\ lateStarts = 0
  /\ link = "idle" /\ current = Nobody /\ offer = None
  /\ token = None /\ inAck = 0 /\ polled = FALSE /\ inbox = NoBatch
  /\ executed = <<>> /\ log = <<>> /\ forgotten = {} /\ taken = {}
  /\ runs = [a \in Actions |-> 0]
  /\ faults = 0

Fault == faults < MaxFaults /\ faults' = faults + 1

-------------------------------------------------------------------------------
(* The outbound queue and the actions it carries *)

Pending == {m \in Messages : phase[m] = "pending"}

\* The refusal of insertOutbound: at the bound new work is turned away, and
\* the transaction it came in is rolled back or goes on without it.
RoomInQueue == Cardinality(Pending) < QueueLimit

\* With a clock that never steps back every row sorts behind its elders.
Insertable(m) ==
  /\ phase[m] = "unborn"
  /\ RoomInQueue
  /\ InOrder => \A n \in Messages : n < m => phase[n] # "unborn"

\* DispatchAction: the action row and its envelope in one transaction.
DispatchAction(a) ==
  /\ Insertable(a)
  /\ phase' = [phase EXCEPT ![a] = "pending"]
  /\ state' = [state EXCEPT ![a] = "queued"]
  /\ UNCHANGED <<home, seq, overdue, sessionVars, poll, linkVars, ledgerVars, faults>>

\* QueueEnvelope, and the notices queued by other transactions.
QueueEnvelope(n) ==
  /\ Insertable(n)
  /\ phase' = [phase EXCEPT ![n] = "pending"]
  /\ UNCHANGED <<home, seq, state, overdue, sessionVars, poll, linkVars, ledgerVars, faults>>

\* Time passes an action's deadline.
PassDeadline(a) ==
  /\ state[a] # "none" /\ a \notin overdue
  /\ overdue' = overdue \cup {a}
  /\ UNCHANGED <<phase, home, seq, state, sessionVars, poll, linkVars, ledgerVars, faults>>

\* ActionByID expires the one action it reads, and not its envelope.
ExpireOnRead(a) ==
  /\ a \in overdue /\ state[a] \in {"queued", "delivered"}
  /\ state' = [state EXCEPT ![a] = "expired"]
  /\ UNCHANGED <<phase, home, seq, overdue, sessionVars, poll, linkVars, ledgerVars, faults>>

\* The rows ExpireActions deletes: never numbered into any session.
RetirableIgnoringSession ==
  {a \in overdue \cap Pending : state[a] \in {"queued", "expired"}}
RetirableQueuedOnly ==
  {a \in overdue \cap Pending : home[a] = None /\ state[a] = "queued"}
Retirable ==
  {a \in overdue \cap Pending : home[a] = None /\ state[a] \in {"queued", "expired"}}

\* ExpireActions: one sweep over every action past its deadline.
ExpireActions ==
  /\ phase' = [m \in Messages |-> IF m \in Retirable THEN "retired" ELSE phase[m]]
  /\ state' = [a \in Actions |->
                 IF a \in overdue /\ state[a] \in {"queued", "delivered"}
                 THEN "expired" ELSE state[a]]
  /\ UNCHANGED <<home, seq, overdue, sessionVars, poll, linkVars, ledgerVars, faults>>

-------------------------------------------------------------------------------
(* Sessions *)

\* liveSessionSeq: the row must exist, be unended and be unexpired, under a
\* lock that keeps it so until the transaction commits.
KnownSession(s) == s \in 1..used
LiveSession(s) == s # None /\ s = live

\* StartSession ends the live session and inserts the next one.
Supersede ==
  /\ used < MaxSessions
  /\ used' = used + 1
  /\ live' = used + 1
  /\ UNCHANGED <<outSeq, outAck>>

\* The hub serves the session request the plugin is waiting on.
StartSession ==
  /\ link = "session"
  /\ Supersede
  /\ link' = "offered" /\ offer' = used + 1
  /\ UNCHANGED <<rowVars, poll, lateStarts, current, token, inAck, polled, inbox,
                 ledgerVars, faults>>

\* The hub serves a session request the plugin has given up on.
StartSessionLate ==
  /\ lateStarts > 0
  /\ Supersede
  /\ lateStarts' = lateStarts - 1
  /\ UNCHANGED <<rowVars, poll, link, current, offer, token, inAck, polled, inbox,
                 ledgerVars, faults>>

\* The live session reaches expires_at, or an operator revokes it.
EndSession ==
  /\ live # None
  /\ Fault
  /\ live' = None
  /\ UNCHANGED <<rowVars, used, outSeq, outAck, poll, linkVars, ledgerVars>>

-------------------------------------------------------------------------------
(* One poll inside the hub: handlePoll and holdPoll *)

Answer(p, stage, batch) ==
  poll' = [poll EXCEPT ![p].stage = stage, ![p].batch = batch]

\* authenticateSession and every liveSessionSeq of the poll answer a session
\* that is gone the same way, and nothing was written before that answer.
RefuseSession(p) ==
  /\ poll[p].stage \in {"sent", "acked"}
  /\ ~LiveSession(poll[p].sess)
  /\ Answer(p, "session_invalid", NoBatch)
  /\ UNCHANGED <<hubVars, linkVars, ledgerVars, faults>>

\* The rows an ack of a in session s covers.
Covered(s, a) == {m \in Messages : home[m] = s /\ seq[m] <= a}

\* An ack below the recorded one, or above anything sent, writes nothing.
AckAdvances(s, a) == a > outAck[s] /\ a <= outSeq[s]

\* AckOutbound with markDelivered, in one transaction.
AckOutbound(p) ==
  LET s == poll[p].sess
      a == poll[p].ack
      hit == IF AckAdvances(s, a) THEN Covered(s, a) ELSE {}
  IN  /\ poll[p].stage = "sent"
      /\ LiveSession(s)
      /\ phase' = [m \in Messages |->
                     IF m \in hit /\ phase[m] = "pending" THEN "acked" ELSE phase[m]]
      /\ state' = [m \in Actions |->
                     IF m \in hit /\ state[m] = "queued" THEN "delivered" ELSE state[m]]
      /\ outAck' = IF AckAdvances(s, a) THEN [outAck EXCEPT ![s] = a] ELSE outAck
      /\ Answer(p, IF a <= outSeq[s] THEN "acked" ELSE "ack_out_of_range", NoBatch)
      /\ UNCHANGED <<home, seq, overdue, live, used, outSeq, linkVars, ledgerVars, faults>>

\* ORDER BY created_at, id LIMIT maxOutboundBatch.
Oldest(S) == {m \in S : Cardinality({n \in S : n < m}) < BatchLimit}

\* The order in which the rows of F receive the next sequence numbers.
Numberings(F) ==
  {f \in Bijection(F, 1..Cardinality(F)) : \A m, n \in F : m < n => f[m] < f[n]}

\* A row numbered in this session keeps its seq; any other is renumbered.
KeepsNoNumber(m, s) == FALSE
KeepsNumber(m, s) == home[m] = s

\* NextOutbound: number what this session has not numbered, record the high
\* water mark, and answer with the batch.
NextOutbound(p) ==
  LET s == poll[p].sess
      batch == Oldest(Pending)
      fresh == {m \in batch : ~KeepsNumber(m, s)}
  IN  /\ poll[p].stage = "acked"
      /\ LiveSession(s)
      /\ batch # {}
      /\ \E f \in Numberings(fresh) :
           LET numbered == [m \in Messages |->
                              IF m \in fresh THEN outSeq[s] + f[m] ELSE seq[m]]
           IN  /\ seq' = numbered
               /\ Answer(p, "batch", [m \in Messages |-> IF m \in batch THEN numbered[m] ELSE 0])
      /\ home' = [m \in Messages |-> IF m \in batch THEN s ELSE home[m]]
      /\ outSeq' = [outSeq EXCEPT ![s] = @ + Cardinality(fresh)]
      /\ UNCHANGED <<phase, state, overdue, live, used, outAck, linkVars, ledgerVars, faults>>

\* The hold ends with nothing to send.  Until then the poll reads again on
\* every wake-up, which changes nothing while the queue is empty.
AnswerEmpty(p) ==
  /\ poll[p].stage = "acked"
  /\ LiveSession(poll[p].sess)
  /\ Pending = {}
  /\ Answer(p, "batch", NoBatch)
  /\ UNCHANGED <<hubVars, linkVars, ledgerVars, faults>>

\* A poll nobody waits for ends: answered to a closed connection, never
\* delivered to the hub, or cut short by a hub restart.
Vanish(p) ==
  /\ poll[p].stage # "none" /\ p # current
  /\ poll' = [poll EXCEPT ![p] = NoPoll]
  /\ UNCHANGED <<hubVars, linkVars, ledgerVars, faults>>

-------------------------------------------------------------------------------
(* The plugin: one thread, one request at a time *)

SendSession ==
  /\ link = "idle" /\ token = None
  /\ link' = "session"
  /\ UNCHANGED <<hubVars, poll, lateStarts, current, offer, token, inAck, polled, inbox,
                 ledgerVars, faults>>

\* Advance: near its expiry a session that has polled is given up for a new
\* one.
RenewSession ==
  /\ link = "idle" /\ token # None /\ polled
  /\ Fault
  /\ token' = None /\ link' = "session"
  /\ UNCHANGED <<hubVars, poll, lateStarts, current, offer, inAck, polled, inbox, ledgerVars>>

\* No answer within the budget, or a failed one.  The generation check drops
\* the answer if it comes after all; the hub may still serve the request.
GiveUpSession ==
  /\ link \in {"session", "offered"}
  /\ Fault
  /\ lateStarts' = lateStarts + (IF link = "session" THEN 1 ELSE 0)
  /\ link' = "idle" /\ offer' = None
  /\ UNCHANGED <<hubVars, poll, current, token, inAck, polled, inbox, ledgerVars>>

\* OnSessionResponse: a new sequence space, counted from the start.
FirstAck == 0
KeepAck == inAck
AckAtStart == FirstAck

TakeSession ==
  /\ link = "offered"
  /\ token' = offer /\ inAck' = AckAtStart /\ polled' = FALSE
  /\ link' = "idle" /\ offer' = None
  /\ UNCHANGED <<hubVars, poll, lateStarts, current, inbox, ledgerVars, faults>>

SendPoll(p) ==
  /\ link = "idle" /\ token # None
  /\ poll[p].stage = "none"
  /\ poll' = [poll EXCEPT ![p] =
                [stage |-> "sent", sess |-> token, ack |-> inAck, batch |-> NoBatch]]
  /\ current' = p /\ link' = "poll"
  /\ UNCHANGED <<hubVars, lateStarts, offer, token, inAck, polled, inbox, ledgerVars, faults>>

GiveUpPoll ==
  /\ link = "poll"
  /\ Fault
  /\ current' = Nobody /\ link' = "idle"
  /\ UNCHANGED <<hubVars, poll, lateStarts, offer, token, inAck, polled, inbox, ledgerVars>>

\* OnPollRefused: either refusal costs the session, never the queue.
TakeRefusal ==
  /\ link = "poll"
  /\ poll[current].stage \in {"session_invalid", "ack_out_of_range"}
  /\ poll' = [poll EXCEPT ![current] = NoPoll]
  /\ token' = None /\ link' = "idle" /\ current' = Nobody
  /\ UNCHANGED <<hubVars, lateStarts, offer, inAck, polled, inbox, ledgerVars, faults>>

\* OnPollResponse, up to its loop over the envelopes.
TakeAnswer ==
  /\ link = "poll"
  /\ poll[current].stage = "batch"
  /\ poll' = [poll EXCEPT ![current] = NoPoll]
  /\ inbox' = poll[current].batch
  /\ link' = "inbox" /\ current' = Nobody
  /\ UNCHANGED <<hubVars, lateStarts, offer, token, inAck, polled, ledgerVars, faults>>

\* The loop walks the envelopes in arrival order and takes only the one next
\* in sequence.
InArrivalOrder(m) ==
  /\ link = "inbox"
  /\ m \in Carried(inbox) /\ \A n \in Carried(inbox) : m <= n
AnyAbove(n) == n > inAck
NextInSeq(n) == n = inAck + 1

Walk(m) == inbox' = [inbox EXCEPT ![m] = 0]

SkipEnvelope(m) ==
  /\ InArrivalOrder(m)
  /\ ~NextInSeq(inbox[m])
  /\ Walk(m)
  /\ UNCHANGED <<hubVars, poll, lateStarts, link, current, offer, token, inAck, polled,
                 ledgerVars, faults>>

Deliver(m) ==
  /\ InArrivalOrder(m)
  /\ NextInSeq(inbox[m])
  /\ Walk(m)
  /\ inAck' = inbox[m]
  /\ taken' = taken \cup {m}
  /\ UNCHANGED <<hubVars, poll, lateStarts, link, current, offer, token, polled>>

\* Everything but a dispatch may be handled again after a session change.
TakeNotice(n) ==
  /\ n \in Notices
  /\ Deliver(n)
  /\ UNCHANGED <<executed, log, forgotten, runs, faults>>

Known(a) == \E i \in 1..Len(executed) : executed[i] = a

\* HandleDispatch of an id in the executed record: acknowledged, nothing else.
TakeRepeat(a) ==
  /\ a \in Actions /\ Known(a)
  /\ Deliver(a)
  /\ UNCHANGED <<executed, log, forgotten, runs, faults>>

\* A record of executed ids, oldest first, each once, gains its newest: what
\* MarkExecuted does to the memory, and to what LoadExecuted will find on disk.
Without(record, a) ==
  IF \E i \in 1..Len(record) : record[i] = a
  THEN RemoveAt(record, CHOOSE i \in 1..Len(record) : record[i] = a)
  ELSE record

Recorded(record, a) ==
  LET rest == Without(record, a)
  IN  Append(IF Len(rest) >= LruCapacity THEN Tail(rest) ELSE rest, a)

\* The log is appended to before the action runs, and the action runs even if
\* that failed.
LogExecuted(a) ==
  \/ log' = Recorded(log, a) /\ UNCHANGED <<forgotten, faults>>
  \/ LogMayFail /\ Fault /\ forgotten' = forgotten \cup {a} /\ UNCHANGED log

\* HandleDispatch of an id not on record: executed, unless the deadline in
\* its body has passed on the plugin's clock, and the outcome reported.
TakeDispatch(a) ==
  /\ a \in Actions /\ ~Known(a)
  /\ Deliver(a)
  /\ executed' = Recorded(executed, a)
  /\ LogExecuted(a)
  /\ \E ran \in {0, 1} : runs' = [runs EXCEPT ![a] = @ + ran]

\* The outbox cannot hold the ack and result of one more dispatch: the rest
\* of the batch is left for the hub to send again.
DeferRest ==
  /\ \E m \in Messages : InArrivalOrder(m) /\ NextInSeq(inbox[m])
  /\ Fault
  /\ inbox' = NoBatch
  /\ UNCHANGED <<hubVars, poll, lateStarts, link, current, offer, token, inAck, polled,
                 ledgerVars>>

EndOfBatch ==
  /\ link = "inbox" /\ inbox = NoBatch
  /\ link' = "idle" /\ polled' = TRUE
  /\ UNCHANGED <<hubVars, poll, lateStarts, current, offer, token, inAck, inbox,
                 ledgerVars, faults>>

\* LoadExecuted: the newest records of the log, up to the capacity.
ForgottenLog(record) == <<>>
LoadedLog(record) == record

\* But a boot goes on with what it could read.  A log that cannot be opened
\* lacks everything, or with a whole staging copy of its last compaction what
\* was appended since; one that a compaction had truncated lacks the rest of
\* the staging copy, if that cannot be opened.  (Ids older than the capacity
\* that such a boot may find besides are left out.)
Restore(record) ==
  \/ executed' = LoadedLog(record) /\ UNCHANGED forgotten
  \/ /\ LogMayFail
     /\ \E i, j \in 0..Len(record) :
          /\ i < j
          /\ executed' = SubSeq(record, 1, i) \o SubSeq(record, j + 1, Len(record))
          /\ forgotten' = forgotten \cup {record[k] : k \in (i + 1)..j}

\* The game server stops, at any point of the plugin's work, and boots again:
\* the link starts over and only the log remembers what was executed.
Reboot ==
  /\ Fault
  /\ lateStarts' = lateStarts + (IF link = "session" THEN 1 ELSE 0)
  /\ link' = "idle" /\ current' = Nobody /\ offer' = None
  /\ token' = None /\ inAck' = 0 /\ polled' = FALSE /\ inbox' = NoBatch
  /\ UNCHANGED <<hubVars, poll>>

Crash ==
  /\ Reboot
  /\ Restore(log)
  /\ UNCHANGED <<log, taken, runs>>

\* A crash between MarkExecuted and the action it marks.
CrashInDispatch(a) ==
  /\ a \in Actions /\ ~Known(a)
  /\ InArrivalOrder(a) /\ NextInSeq(inbox[a])
  /\ Reboot
  /\ log' = Recorded(log, a)
  /\ Restore(Recorded(log, a))
  /\ taken' = taken \cup {a}
  /\ UNCHANGED runs

-------------------------------------------------------------------------------
(* The specification *)

HubStep(p) == RefuseSession(p) \/ AckOutbound(p) \/ NextOutbound(p) \/ AnswerEmpty(p)

WalkStep ==
  \/ \E m \in Messages : SkipEnvelope(m)
  \/ \E n \in Notices : TakeNotice(n)
  \/ \E a \in Actions : TakeRepeat(a)
  \/ \E a \in Actions : TakeDispatch(a)
  \/ EndOfBatch

Next ==
  \/ \E a \in Actions : DispatchAction(a) \/ ExpireOnRead(a) \/ CrashInDispatch(a)
  \/ \E n \in Notices : QueueEnvelope(n)
  \/ \E a \in Expiring : PassDeadline(a)
  \/ ExpireActions
  \/ StartSession \/ StartSessionLate \/ EndSession
  \/ \E p \in Slots : HubStep(p) \/ Vanish(p) \/ SendPoll(p)
  \/ SendSession \/ RenewSession \/ GiveUpSession \/ TakeSession
  \/ GiveUpPoll \/ TakeRefusal \/ TakeAnswer
  \/ WalkStep \/ DeferRest \/ Crash

Spec == Init /\ [][Next]_vars

\* The maintenance ticker of the hub runs the sweep whatever the plugin does.
SweepSpec == Spec /\ WF_vars(ExpireActions)

\* And both ends keep running: the plugin's tick sends whatever the link needs
\* next and its callbacks run to the end, the hub serves every request it
\* accepted and drops the ones whose client is gone.
Running ==
  /\ WF_vars(SendSession) /\ WF_vars(StartSession) /\ WF_vars(TakeSession)
  /\ WF_vars(\E p \in Slots : SendPoll(p))
  /\ \A p \in Slots : WF_vars(HubStep(p)) /\ WF_vars(Vanish(p))
  /\ WF_vars(TakeRefusal) /\ WF_vars(TakeAnswer) /\ WF_vars(WalkStep)

-------------------------------------------------------------------------------
(* Properties *)

\* The hub never records an envelope as acknowledged that the plugin did not
\* take delivery of: no interleaving of late polls, superseded sessions and
\* restarts lets an ack of one sequence space settle a row of another.
AckedMeansTaken == \A m \in Messages : phase[m] = "acked" => m \in taken

\* An action is reported delivered only when the plugin took its dispatch.
DeliveredMeansTaken == \A a \in Actions : state[a] = "delivered" => a \in taken

\* Every number the live session has spent above its recorded ack is carried
\* by a row still in the queue, so the plugin's contiguous ack can always go on
\* (the hole NextOutbound's row locks and liveSessionSeq exist to prevent).
NoGap ==
  live # None =>
    \A n \in (outAck[live] + 1)..outSeq[live] :
      \E m \in Pending : home[m] = live /\ seq[m] = n

\* No poll the plugin sends is ever told that its ack is above anything sent:
\* the recovery path for ack_out_of_range is a defence, not a route.
NeverOutOfRange == \A p \in Slots : poll[p].stage # "ack_out_of_range"

\* An action runs at most once whatever is redelivered, across sessions and
\* restarts, unless the plugin failed to log that it was about to run it or a
\* boot could not read that record.
AtMostOnce == \A a \in Actions : runs[a] > 1 => a \in forgotten

\* A row the live session has numbered is sent again under the same number for
\* as long as that session lives (section 9.1, the retransmission rule).
RetransmittedUnchanged ==
  [][\A m \in Messages :
       live # None /\ live' = live /\ home[m] = live
         => home'[m] = home[m] /\ seq'[m] = seq[m]]_vars

\* The queue, its sessions and its polls keep the contract of DeliveryContract.
Station(m) ==
  CASE phase[m] = "unborn" -> "absent"
    [] phase[m] = "pending" /\ m \notin taken -> "queued"
    [] phase[m] = "acked" -> "settled"
    [] phase[m] = "retired" /\ m \notin taken -> "retired"
    [] OTHER -> "taken"
Contract == INSTANCE DeliveryContract WITH status <- [m \in Messages |-> Station(m)]
ContractSpec == Contract!Spec

\* The strengthening the proofs use.  A row that has a number has one its
\* session issued, and only such a row is ever handed to the plugin.
Numbered ==
  /\ \A m \in Messages : home[m] # None =>
       /\ home[m] <= used /\ seq[m] \in 1..outSeq[home[m]]
       /\ phase[m] \in {"pending", "acked"}
  /\ \A m \in Messages : home[m] = None =>
       /\ m \notin taken /\ m \notin Carried(inbox)
       /\ \A p \in Slots : m \notin Carried(poll[p].batch)

\* No two rows share a number of one session.
Unique ==
  \A m, n \in Messages :
    home[m] # None /\ home[m] = home[n] /\ seq[m] = seq[n] => m = n

\* A session not yet started has issued and recorded nothing.
Unstarted == \A s \in Sessions : s > used => outSeq[s] = 0 /\ outAck[s] = 0

\* An ack of a in session s is within what s issued, and everything it covers
\* was taken.
Earned(s, a) ==
  /\ a <= outSeq[s]
  /\ \A m \in Messages : home[m] = s /\ seq[m] <= a => m \in taken

\* Every number in a batch of session s names the row it was read from.
Sound(s, batch) ==
  \A m \in Carried(batch) :
    /\ batch[m] <= outSeq[s]
    /\ \A n \in Messages : home[n] = s /\ seq[n] = batch[m] => n = m

\* What the plugin would ack and every ack on its way to the hub are earned,
\* and every batch on its way to the plugin is sound.
AcksEarned ==
  /\ token # None => Earned(token, inAck)
  /\ \A p \in Slots : poll[p].stage # "none" =>
       /\ poll[p].sess # None
       /\ Earned(poll[p].sess, poll[p].ack)
       /\ Sound(poll[p].sess, poll[p].batch)
  /\ link = "inbox" => Sound(token, inbox)

\* What the plugin waits for fits what it holds.
LinkShape ==
  /\ link = "offered" => offer # None
  /\ link \in {"poll", "inbox"} => token # None
  /\ link = "poll" =>
       poll[current].stage # "none" /\ poll[current].sess = token

\* The inductive invariant behind the safety properties of the link.
Inductive ==
  /\ Numbered /\ Unique /\ Unstarted /\ AcksEarned /\ LinkShape
  /\ AckedMeansTaken /\ DeliveredMeansTaken /\ NoGap /\ NeverOutOfRange

\* Once the losses, restarts and expiries stop and both ends keep running, every
\* accepted envelope leaves the queue: acknowledged by the plugin, or retired
\* by the sweep.  This is about rows in clock order.  With a full batch of rows
\* that sort ahead of a numbered one, NextOutbound would not list that row, and
\* the plugin's ack would stand until the next session numbers them all anew.
EveryEnvelopeLeaves ==
  Running => \A m \in Messages : (phase[m] = "pending") ~> (phase[m] # "pending")

\* Overdue work of a plugin that never calls does not stay in the queue: it is
\* retired unless some session has numbered it, even when a read flipped the
\* action to expired before the sweep came.
OverdueWorkIsRetired ==
  \A a \in Actions :
    (a \in overdue /\ phase[a] = "pending") ~> (phase[a] # "pending" \/ home[a] # None)
===============================================================================
