# Vyshka in TLA+

Vyshka connects game servers to a hub. A plugin inside the game server polls the hub
over HTTP; what operators ask of a server travels back as envelopes in the poll answers,
and what the plugin reports travels up in the poll requests. The hub keeps what it is told
(events, state, results), serves shared records (bans, a key-value store) and exports
notifications to webhooks. Neither side may lose, repeat or mix up what matters while polls
time out, answers are lost, sessions are superseded, either process restarts, and other
requests commit in between.

These modules model that machinery, check it with TLC on small instances, and prove the
safety of all eight component models with TLAPS for every value of their constants.

All paths below are relative to the repository root; `Vyshka*.c` files are in
`plugins/dayz/mod/scripts/3_Game/Vyshka/`. Section numbers of the protocol are those of
`spec/protocol.md`.

## 1. The system

### 1.1 Components

| Component | Code | State it keeps | Operations | Correct when |
|---|---|---|---|---|
| Outbound queue and hub-to-plugin delivery | `hub/store/envelopes.go`, `hub/poll.go`; `VyshkaPlugin.c`, `VyshkaTransport.c` | rows of `outbound_envelopes` (session, seq, acked), the counters of a session; the plugin's token, contiguous ack, executed-action record and its log | `DispatchAction`, `QueueEnvelope`, `NextOutbound`, `AckOutbound`, `ExpireActions`; the walk over a batch | nothing is settled that the plugin did not take; numbers have no hole; an action runs at most once; every envelope leaves |
| Actions | `hub/action.go`, `hub/store/actions.go`, `hub/store/manifests.go` | rows of `actions`, idempotency keys, the stored manifest; what the plugin is working on | dispatch (look-up, validation, insert, replay), receipts, acks, results, lazy and swept expiry | one action per key; answers stay true; only approved work is stored; terminal states are final; every action ends |
| Plugin outbox and plugin-to-hub delivery | `VyshkaOutbox.c`, `VyshkaPlugin.c`; `hub/envelope.go`, `hub/store/envelopes.go` | numbered entries, their records on disk, rejected records; the hub's contiguous inbound ack | append, frame, ack, quarantine, renumber, boot; validate, classify, apply | nothing on disk is lost; an entry is dropped only when applied; applied in order; a well-formed entry lands |
| Sessions, enrollment, credentials | `hub/store/servers.go`, `hub/plugin.go`; `VyshkaPlugin.c`, `VyshkaFiles.c` | enrollment tokens, secret, revocation, sessions; stored credentials, session token | issue, enroll, authenticate, start, supersede, revoke, call | a token enrolls once; one live session; revocation is immediate; the plugin can get back in |
| Installation ban list | `hub/bans.go`, `hub/store/bans.go`; `VyshkaInstallationBans.c`, `VyshkaFiles.c` | bans with listed and delisted revisions, the register of revisions, notices; the plugin's walk, its list in force and the file that holds it | create, lift, expire, notify, page, walk, apply, boot | a server enforces one revision whole; a list in force survives outages; changes reach it |
| Webhooks | `hub/webhooks.go`, `hub/store/webhooks.go`, `hub/internal/webhook` | registrations, notifications, delivery rows and attempts | register, edit, delete, replay, fan out, attempt, record, prune | nothing is exported on an authority that does not cover it; a pending row ends by its own attempt; every delivery ends |
| Events and state snapshots | `hub/events.go`, `hub/state.go`, `hub/store/events.go`, `hub/store/state.go` | event rows, dedup marks with their lifetime, snapshot history | ingest within a budget, trim, prune | a batch applied twice is stored once; a refusal is honest; the latest snapshot does not regress |
| Key-value store and its client | `hub/kv.go`, `hub/store/kv.go`; `VyshkaStore.c`, `4_World/Vyshka/VyshkaFlags.c` | one record with a revision and TTL; the client's request, retries and deadlines; the admin flags kept through it | get, guarded set, delete, lapse, prune; read, merge, write back, look up | no update is lost; the game follows the store |
| Plugin files | `VyshkaFiles.c` | a file and its staging copy | replace, recover, read, delete | a crash, a failed write or a copy that cannot be opened leaves the old or the new content on the disk |
| Held polls | `hub/poll.go`, `hub/waiters.go` | registered waiters, the count of holds | register, notify, hold, give up | a hold ends |
| Players, admin tokens, audit, telemetry, validators, CLI, panel, conformance suite | see `PROJECT.json` | | | |

### 1.2 How they interact

* **Calls.** The plugin has at most one request in flight per transport
  (`VyshkaTransport.Post`). Its watchdog abandons a request that the hub may still be
  running, and bumps a generation so that a late answer is ignored. So the *hub* may run
  several polls of one server at once, of one session or several.
* **Transactions.** A handler is several store transactions. Each is atomic; what one read
  may be gone in the next. Session-scoped ones re-check that the session is live
  (`liveSessionSeq`) and hold its row lock. Two kinds hold a lock over several statements
  that other components can see: a change of the ban list (`lockBanList`, also taken by a
  manifest that declares the capability) and a guarded set of a key.
* **Shared rows.** Dispatch, the maintenance ticker (`runMaintenance`), reads of expired
  actions, the ban list and the polls all insert into, number or delete rows of one queue.
  A finished action and a stored event are also rows of the webhook outbox.
* **Callbacks.** The plugin is single-threaded. `Tick` sends, a callback handles the whole
  answer. The game server can stop at any point of either.
* **Persistence.** Hub: one database (SQLite or Postgres), which may be restored from a
  backup. Plugin: the outbox directory, the executed-action log, the credentials file, the
  file of installation bans.

### 1.3 What is hard

Overlapping transactions of late polls; an ack in the wrong sequence space after a session
change; the sweep deleting a row that is being numbered; a retry racing the original; a
manifest replaced between validation and insert; quarantine renumbering entries that are
already in flight; disk operations that fail one at a time; credentials that change between
a check and its use; a walk over a list that changes under it; an edit authorized on a
snapshot; a mark that is pruned while the batch it remembers is on its way again; a write
that lands after its client gave up. `PROJECT.json` lists every such hazard with its line
and the properties that would catch it; three have none and say why: a lost wake-up of a held poll,
the slots of the outbox, and the count that bounds the queue, which is taken under the lock that
covers the insert, so that over the models' one step a bound could only repeat its guard.

## 2. The modules

| Module | Models |
|---|---|
| `DeliveryContract` | what either end of the link promises about an accepted envelope, with no session, number or network |
| `HubToPlugin` | outbound queue, sessions, polls, the plugin's walk and executed record; refines `DeliveryContract` |
| `PluginToHub` | outbox, disk, polls, contiguous application; refines `DeliveryContract` |
| `ActionLifecycle` | dispatch requests, manifests, action states, expiry, the plugin's work; the link at its contract |
| `Credentials` | tokens, secrets, sessions, calls, revocation, the stored credentials of game servers |
| `Bans` | the list, its revisions and notices, the server's walk and its copy; uses `ReplacedFile` |
| `ReplacedFile` | the outcomes of replacing, recovering and reading a file: finished, failed or cut short by a crash |
| `Webhooks` | registrations, edits, replays, fan-out, attempts, retention |
| `Intake` | event batches and snapshots, their marks, the budget and the retention sweep |
| `KeyValue` | one key, the clients that write it, the plugin's request, change and lookup |
| `MC*` | definitions and symmetries for TLC |
| `*Proofs` | theorems and proofs |

`DeliveryContract` is the composition point. `HubToPlugin` and `PluginToHub` each implement
it, with the hub or the plugin as the sender; the other modules use only what it promises:
`ActionLifecycle` (a dispatch is acked only if it was taken, a report may arrive any number
of times), `Intake` (an envelope arrives in order, and again, renumbered, until it is known
acked) and `Bans` (a notice is sent again to the next session until it is acked).

### 2.1 HubToPlugin

An envelope is a number, its place in the queue's `ORDER BY created_at, id`. With `InOrder`
rows are inserted in that order; without it a stepped clock or two ids of one millisecond
may put a new row ahead of older ones. A session is the number of its `StartSession`. Rows are
`phase`, `home` (session_id) and `seq`; sessions `live`, `used`, `outSeq`, `outAck`.

Each hub action is one transaction. `DispatchAction` and `QueueEnvelope` insert under the
queue bound; `HubStep(p)` takes the poll `p` through refusal, `AckOutbound`, `NextOutbound`
(which numbers what has no number in this session, in batch order) and the answer;
`ExpireActions`, `ExpireOnRead` and `PassDeadline` are the ways an action expires;
`StartSession`, `StartSessionLate` and `EndSession` change the session under polls that are
already running. On the other side `SendPoll` to `EndOfBatch` are the plugin's `Advance` and
`OnPollResponse`: the walk over the batch is one action per envelope because the server can
stop between two (`Crash`, `CrashInDispatch`). A dispatch that the plugin leaves for later
because its outbox is full is `DeferRest`. A boot reads the executed-action log back (`Restore`): the whole
of it, or, when the log or the staging copy of its last compaction cannot be opened, what is left
without the part that could not be read. `forgotten` is history: the ids whose append failed and
those that a boot could not read.

Abstractions: "running" and later states count as delivered (`ActionLifecycle` has them);
the hold of an empty poll is one step; log compaction is not seen; payloads are not
modelled; the fallback for an answer whose body could not be read is the loss of the answer.

### 2.2 PluginToHub

An entry is its place in the order of creation. A poll carries any leading part of the
outbox up to `BatchLimit`, which covers the event budget and `ShrinkBatch`. `Malformed`
entries are those whose framing the hub refuses. Every disk operation may fail on its own
(`DiskMayFail`): a record not written, a released record not deleted, a refused one neither
copied nor moved. `Crash` restores what the disk holds. An answer's ack is read when the answer is
formed (`Refreshed`, after `poll.go:419`), not when its batch was committed, and `reported` is
history: the ack in the last answer on each session. Starting a session that the plugin
hears of is one action; one that is served late, or whose answer is lost, is
`UnheardSession`. At capacity `Append` refuses and changes nothing. The ring of file names
and the slots reserved for results are not modelled.

### 2.3 ActionLifecycle

An action is named after the request that stored it. A request walks through the stations of
`handleDispatchAction`: look-up of the key, validation against the manifest read then, the
storing transaction (recheck of the revision, insert, envelope), replay of the action a key
is bound to, the answer. `ApplyManifest` publishes any later revision at any time. On the
other side `HandleDispatch`, `AppendResult` and `PluginRestart` are the plugin; its clock
differs from the hub's, so it may discard any dispatch as expired. `HubRestart` loses the
handlers in flight and keeps what was committed. Validity of params is part of `Declares`.
`OtherTraffic` fills the queue. Which state the answer to a replay reports is not modelled.

### 2.4 Credentials

A secret is named after the enroll request it was minted for. `ReadToken` precedes the
server row's lock and `Install` follows it. A session request is `MatchSecret`,
`CheckRevoked`, `StartSession`; a call is `FindSession`, `Admit`, `Serve`; between any two of
them another request may commit. Those are the interleavings of Postgres at READ COMMITTED;
SQLite's single connection allows a subset. A plugin boots with any token ever issued in its
config (`Boot`), drops credentials that came from another token, enrolls, and keeps using
credentials it could not save. Two plugins may be configured for one record. Not modelled:
the game name check, session expiry and renewal (`HubToPlugin` has them), plugin info.

### 2.5 Bans and ReplacedFile

A change of the list (`CreateBan`, `LiftBan`, `SweepExpiredBans`) is two steps: `Begin` takes
the list's lock, delists what has lapsed, mints the revision and chooses whom to notify;
`CommitChange` makes it visible and queues the notices, skipping a server whose queue is
full. A manifest is applied under the same lock. `Restore` takes the list and the register
of revisions back to the backup while clock, sessions and plugins stay as they are, which is
why `nextBanRevision` looks at the clock. On the link side a session response and a notice
carry a revision; notices refresh in place until they are sent, and are sent again to a new
session. On the plugin's side `RequestPage`, the two reads of `handlePluginBans` (`Admission`
of the request, then the entries of the page), `TakePage`, `TakeLastPage` and the refusals
are `VyshkaBanSync`'s walk; `known`, `told`, `due`, `rev`, `after` are its fields. What a
server enforces is written through `ReplacedFile`, whose operators give the set of disks each
operation may leave: `Replaced` when it succeeds, `NotReplaced` when it fails, `Crashed`
when the process dies within it. `Reads` and `Misreads` are what a boot may find, with the disk it
leaves: `Misreads` when a copy cannot be opened, so that a whole staging copy stays and the file
behind it is taken, even one cut short, or nothing is. `Boot` and `BootUnread` put that in force.

### 2.6 Webhooks

A notification is named by its kind (event, finished action, audit record), a delivery by
its webhook and notification, a filter by the kinds it admits and a token by the kinds its
grants cover. `CheckEdit` authorizes an edit on a snapshot; `UpdateWebhook` locks the row and
decides again on what it finds there, the bodies that wait included when the address moves;
replay is likewise a check and a transaction. One pass of the dispatcher is three fan-outs,
the selection of due rows and the attempts, which begin (`BeginDeliveryAttempt`), end and are
booked as separate steps, so pauses, edits, deletions and replays fall in between; a row's
generation tells the attempts before a replay from those after it. `ChoosePrune` and `Prune`
are the two statements of the retention sweep. `vouch` is history: who last decided where a
waiting body goes; `owed` holds the rows created or replayed and not attempted since.

### 2.7 Intake

An envelope is named after its place in the plugin's outbox; the link is taken at its
contract. `handlePoll` reads which batches are known, `Stamp` begins the transaction with its
clock reading, `ApplyInbound` commits it: refusals over the event budget, new rows, marks,
snapshot history, rows in the order of their `seq`, trimmed to its depth. `Rollback` ends it without effect. The retention sweep
is `PruneEvents` and `PruneMarks` (and the two of snapshots) with one clock reading, takes no
lock, and may fail between the two (`SweepFails`). `Tick` may pass between stamp and commit.

### 2.8 KeyValue

One key with its record: content, revision, TTL and who wrote it. `BeginKVSet` takes the
key's lock and reads, `CommitKVSet` writes; other clients write and delete through the Admin
API; `Lapse`, `PickExpired` and `PruneKV` are the TTL and its sweep. The store client runs one
request (`attempt`), retries, gives up at its deadline, and reports what it knows. Any request
can time out, be lost or die with its server (`LoseAttempt`, `Crash`), and the next one may be sent
at once: after an engine timeout or in a new process nothing keeps the context busy, and the
wait after the watchdog is a guess at how long the hub may still run what was sent. A set given
up so moves to a slot of its own (`GiveUp`) and commits, is refused or never lands
(`NeverLands`) at any later time, before or after the lookup that asks for the record again. A
change of flags (`VyshkaFlagsChange`) reads, merges, writes back guarded by the revision, and
starts over at a mismatch; `DropRead` is its silent end when its dispatch is no longer pending.
The lookup follows, and `known` is what the game applies. `ver` numbers contents where `rev`
restarts after a delete. `missed` is history: the servers where a write of their own came too late
to be heard of, until the hub answers their next lookup or write.

## 3. What TLC checks

State counts are distinct states. No run needs more than about 80 seconds on two workers.

| Run | States | Question and answer |
|---|---|---|
| `link_any_order` | 1,341,112 | Two overlapping polls, three sessions, two faults, rows in any order, a queue of two: nothing is settled or reported delivered that was not taken, no gap, no ack out of range, numbers are stable, the contract is implemented. |
| `link_live` | 108,440 | Two actions, failing log appends, boots that cannot read the log whole, a record no longer than a batch: an action runs at most once unless its record could not be written or read; every envelope leaves once faults stop; with the sweep as the only fair action overdue work does not stay in the queue. |
| `outbox_link` | 213,199 | Three entries, one malformed, failing disk, a full outbox: nothing lost, dropped only when applied, applied in order, the numbers of the two ends agree, no reported ack is lowered, the contract is implemented, a well-formed entry lands past the malformed one. |
| `action_lifecycle` | 391,176 | Two requests with one key, different codes and grants; a manifest that drops a code and declares it again; a queue of one; two restarts: one action per key; an accepted answer names an action on record that the request's own token may dispatch, a refused one left none; no unapproved work, no flip-flop, and every action ends. |
| `idempotent_retry` | violation | See finding 1. |
| `credentials` | 411,500 | Two game servers, two tokens, two requests at once, five sessions: a token enrolls once and only the latest one does, one live session, no effect while revoked, stored secrets fit, a server with the installed secret gets the live session. |
| `stale_secret` | violation | See finding 2. |
| `bans` | 324,677 | Three revisions, pages of one entry, one fault of any kind (restore, crash in a replace, lost page, full queue), boots that cannot open a copy: what is enforced is one revision as it was served; the disk never ceases to hold a whole list, and a boot that can open it enforces one; it comes to be the latest. |
| `dropped_notice` | violation | See finding 3. |
| `webhooks` | 168,150 | Two tokens of different reach, an edit, two replays, one fault: every waiting body is covered by who sent it there, a pending row ends only by an attempt begun since, every delivery ends. |
| `intake` | 2,822,262 | Two overlapping polls, three batches, one of them faulty, two snapshots, two sessions, retention within the clock's bound: one copy, honest refusals, the latest snapshot stays the latest. |
| `key_value` | 415,721 | Two changes of one server, another writer, lapse, prune, one fault: a request lost, timed out or given up, or a crash, whose set lands later or never, or a change dropped unread. No update is lost; the game comes to apply the record its server wrote, but for a write in `missed`. |

### 3.1 Bounds

* **Polls.** Two in flight is the smallest number at which a late poll overlaps the current
  one. A third would meet the same rows under the same locks.
* **Sessions.** Three let a late session supersede the one in use and the plugin start its
  own again. Where liveness of the link is checked the bound is 1 + 2 * MaxFaults: each fault
  costs at most two sessions, so no behaviour runs out of them. In `credentials` it is five
  for one fault: two plugins, an overtaken request, and its answer.
* **Faults.** `MaxFaults` counts lost answers, restarts, expiries, revocations, failed disk
  operations, restores. Two combine any pair of these on the link; the other runs allow one,
  or two where the property needs a pair (`dropped_notice`: a full queue and an ended session).
* **Limits of the code.** `BatchLimit` (200), `QueueLimit` (5000), `LruCapacity` (512),
  `Capacity` (5000), `Attempts` (3), `EventBudget`, `HistoryDepth`, `PageLimit`,
  `PendingBound`, `Retries`, `PruneBatch`, `ChangeAttempts` become 1 to 3, small enough to be reached.
* **Snapshots.** With `HistoryDepth` 1 the second snapshot makes the depth trim fire, and the
  retention sweep then never has a snapshot row to delete that is not the latest. With depth 2 it
  has (2,867,091 states, no violation), but two snapshots no longer reach the trim; the run keeps
  the bound at which a trimmed snapshot can come back. `LatestStaysNews` covers any depth.
* **Time.** `MaxClock` is 1 or 2: a clock is only compared with deadlines one or two ticks away.
  `MaxWrites`, `MaxReplays`, `MaxRevision`, `MaxSent` bound what clients do, not what the
  system does in response.
* `link_live` sets `InOrder = TRUE` and `LruCapacity = BatchLimit = 1`. Both matter for
  `AtMostOnce`. What the record has to hold is `2 * BatchLimit - 1` ids (section 4 proves that
  this is enough): with both limits at 2 TLC finds an action that runs twice after a failed log
  append. It finds one, too, with `InOrder = FALSE`: rows inserted ahead of an unacked dispatch
  can push its id out of the record before it is sent again. The code's 512 exceed 399.
* Symmetry is used over polls, batches or snapshots where no action orders them, and never in
  a run with a liveness property.

### 3.2 Deadlock

All runs disable the deadlock check: a state where all work is done, every fault is spent
and every session number used has no successor. Getting stuck with work left is what the
liveness properties exclude.

### 3.3 Fairness

All of it is weak, and is stated per actor so that one cannot excuse another.

* `ExpireActions`: `runMaintenance` in `hub/server.go` calls it on a ticker for as long as the
  hub runs, whatever the plugins do. `SweepSpec` assumes this and nothing else.
* The plugin's sends and callbacks: `Tick` runs on every frame and sends whatever
  `Advance` says is due; callbacks run to their end. A server that died is started again
  (`Bans`); in `KeyValue` and `ActionLifecycle` it need not be.
* `HubStep(p)`: an HTTP handler that was started runs to its end. `Vanish(p)`: the
  request of a client that is gone ends. `CommitChange`: a transaction that holds a lock ends.
* `PassDeadline`, `ComeDue`: time passes.
* The webhook loop has a ticker (`PassStep`) and its workers a timeout per attempt.
* No fairness for faults, new work, operators, manifests, or the plugin in `EveryActionEnds`.

### 3.4 Findings

1. `idempotent_retry`: section 7 of the protocol says a retry of an accepted action "MUST
   answer with the original even when a fresh dispatch would be refused". `DispatchAction`
   rechecks the manifest before the insert that recognises the key. A retry whose look-up ran
   before the original committed, and whose insert comes after a republish without the code,
   is refused.
2. `stale_secret`: section 5.2 says enrolling again invalidates "the previous secret
   and every session derived from it". Authentication and `StartSession` are two
   transactions and the second does not look at the secret again, so a request that
   authenticated with the old secret starts a session after the enrollment that replaced it.
   `OneLiveSession` and `RevokedMeansSilent` hold all the same; the game server with the new
   secret takes over with its own next session request.
3. `dropped_notice`: section 13.3 says of a notice dropped at a full queue that "the next session
   response carries the revision regardless", and `Told` in `VyshkaInstallationBans.c` takes a
   report that arrives during a walk for the fresher one. A notice of revision 2, sent and not
   acked, survives its session; the notice of revision 3 is dropped; the next session response
   carries 3; then notice 2 is sent again during the walk pinned at 2, and the walk ends with
   nothing owed. The server enforces revision 2 until something else tells it. Without a
   dropped notice this cannot happen: that is `ChangesReachServers`.

Smaller differences met on the way, for which there is no run:

* Section 9.1 has a sender send in ascending seq; `NextOutbound` (`hub/store/envelopes.go:191`)
  lists rows by `created_at, id`. A row inserted with an earlier time than one the session has
  already numbered is numbered higher and listed first. The plugin skips what does not follow
  and asks again. Of rows in any order the project shows that no number is lost and that a row keeps
  its number (`NoGap`, `RetransmittedUnchanged`), not that they are delivered in time: with
  `BatchLimit` rows that sort before a numbered one the batch does not list it, and the plugin's
  ack stands before its number until rows leave another way or the next session numbers afresh.
  `EveryEnvelopeLeaves` is checked with rows in clock order only (`link_live`), where
  `NumberedRowsAreRead` proves that a numbered row is in every batch.
* The comment at `VyshkaOutbox.c:75` speaks of dropping the oldest envelope where `Append`
  refuses the newest; `Quarantine` keeps the file slot of a record it could not set aside.
* `PruneEvents` does not ask whether an event was fanned out to the webhooks, which section 11
  reads as if it did; `PromiseKept` and `EveryDeliveryEnds` are about rows that exist.
* A batch refused for the event budget in one poll can be stored when it is replayed in the
  next session, although its `event.reject` said its events are gone (`hub/poll.go:147`).
  `RefusalIsHonest` states what does hold: at the refusal none of its events stands.
* The comment at `VyshkaPlugin.c:597` says the manifest "is queued at session start regardless";
  `QueueManifest` queues it once per boot. A hub restored from a backup that holds a lower revision
  therefore keeps the older manifest until the game server restarts or the revision moves.
* The comment at `VyshkaFlags.c:589` has `Fail` ask the store again because an abandoned write may
  have landed, "and the game follows the store either way". It asks once. An engine timeout sets no
  busy window (`VyshkaStore.c:337` does so for the watchdog only) and a new process has none, so
  the lookup can be answered before the set lands, and nothing tells the game of it until the key is
  next read or written. `GameFollowsStore` excepts these writes by name (`missed`); without the
  exception TLC finds the case in `key_value` with one crash.
* The revision of a key restarts when the key is deleted and made again, as section 12.1 says;
  `NoUpdateLost` makes that exception explicitly.

## 4. What is proved

For every finite set of envelopes, requests, servers, polls, bans, hooks or batches, all
limits, and any number of sessions and faults. All safety properties of the passing runs are
theorems. The only assumptions, the hypotheses of `RunsAtMostOnce` and `NumberedRowsAreRead` apart, are the `ASSUME`s of the
component modules, which TLC evaluates on every run: finite sets, limits that are naturals
(positive where the code's are), names that do not coincide, that a request asks for a code
its token may dispatch, and that a batch whose events are kept has a longest retention.

Each proof has the same shape: the property alone is not inductive, because it says nothing of
what is on its way; the strengthening says what every message, handler or file in flight
must satisfy for the step that consumes it.

**HubToPluginProofs.** `TypeCorrect`, `InductiveInvariant`, from which follow
`ReceiptsAreReal`, `SequenceHasNoGap`, `AckInRange`, `RetransmissionIsStable`
and the refinement `LinkKeepsContract`. "Acked means taken" needs that an
ack still on its way is earned when it arrives: a row's number was issued by its session and
is unique there (`Numbered`, `Unique`), every ack the plugin holds or has sent covers only
rows taken (`Earned`), and every batch on its way names, by its numbers, the rows it was read
from (`Sound`). `Sound` is where late polls are dealt with: a row may have moved to another
session since, but no other row has its number.

`RunsAtMostOnce` has the hypotheses `InOrder` (rows carry ascending times: the clock does not
step back) and `2 * BatchLimit <= LruCapacity + 1`. Its invariant, `OnceInductive`, bounds what can
be recorded between two deliveries of one dispatch. The rows that wait are numbered oldest
first and the numbered ones fit a batch (`Ordered`); polls and acks of an older session cannot
settle what a later one numbered, and what a plugin can still be handed is still waiting or was
taken (`Sessioned`). So behind the id of a waiting dispatch the record holds at most
`BatchLimit - 1` younger ids and as many older ones, and the id is still there, in memory and in
the log, when the dispatch comes again (`Recording`), unless it is in `forgotten`: what a boot
reads of the log is the log without ids that went there. `NumberedRowsAreRead` follows from
`Ordered` under `InOrder` alone: the numbered rows sort before the others and fit a batch.

**PluginToHubProofs.** `TypeCorrect`, `AcksAreKept`, `EntriesSurvive`, `OrderIsKept`,
`NumbersAgree`, `AcksNeverFall` and the refinement `OutboxKeepsContract`. The invariant speaks of two
sessions, the plugin's and the hub's, which differ while a session is unheard of. In the
plugin's, the outbox is numbered in creation order without a gap above the hub's ack
(`QueueFits`), and a poll framed before or after a quarantine still carries the numbers of
what is queued, or numbers the ack has passed (`OursFit`). In the hub's, a poll carries nothing
acked that is not applied and skips nothing older that is not (`TheirsFit`), and two polls give
a number to one entry (`AgreeFit`). Polls of other sessions are refused, and a poll with a
malformed entry applies nothing, so nothing has to be said of them.

**ActionLifecycleProofs.** `ActionTypes`, `ActionInductive`, then `KeysAreHonoured`,
`AnswersStayTrue`, `RunsAreReal`, `StoredMeansApproved`, `ActionsMoveForward` and
`DeadlineIsFinal`. The strengthening is what the station of a handler says of the records
(`HandlersKnow`: a request short of the insert has no row, one that lost the race has a bound
key, one about to insert validated against the revision it remembers) and that reports come
from dispatches that were taken (`RecordsAgree`). `SweepTakesUnseen` adds what an envelope says of
its action (`EnvelopesAgree`): one that waits belongs to an action that is queued or expired, one
that was taken has been numbered. So `ExpireActions` withdraws an envelope only with its
action, and never of an action that a plugin saw, ran or reported on.

**CredentialsProofs.** `CredentialTypes`, `CredentialsInductive`, then `TokensBurnOnce`,
`LatestTokenEnrolls`, `HeldSecretsFit`, `SessionsSupersede` and `RevocationSilences`. The
strengthening: tokens are issued in order and an unused one is the latest; an installed
secret burned its token, and is current or was followed by a later token; whoever holds a
secret holds an installed one; only the last session started may be live; and while the
credentials are revoked, no admitted call is on a live session. The last point carries
`RevocationSilences` over the sessions of finding 2. `SessionsStayOwn` is about the plugins'
side, two game servers configured for one record included: they never hold one secret nor call
on one session, and the session in use was started with the secret held. What is asked carries
the secret or the session of who waits for it, one waits for each request, and a secret being
enrolled is nobody's yet (`Own`).

**BansProofs.** `NoMixture` and `BansStay`. The register (`Register`, `Pending`): revisions are
minted above all before them, also after a restore, where only the clock assures it; the list
never says anything else of a revision that stands recorded. The walk (`Fits`): what it has
gathered is exactly the entries of its pinned revision up to its cursor, for as long as a page
of that revision can still be admitted; the file and its staging copy hold whole lists that
were enforced, or nothing that a boot would take. `BansStay` says of every step that the disk goes
on to store a whole list once it does, and that a server loses the list in force only in a boot
that cannot open a copy: no outcome of a replace, cut short or failed, and no misread leaves the
file cut without a whole staging copy. Two lemmas on finite sets of naturals
(`LeastOf`, `GreatestOf`) give a page its last entry.

`ChangesAreOwed` is `ChangesReachServers` without its fairness: while a server, none of whose
notices was dropped, enforces another list than the one that stands, then it is down, without a
session or not declared yet, or a notice of what stands is still to come, or it owes a walk. The
invariant (`TInv`) keeps, per server: the notices taken are at the front of the queue, only its
last one can be unsent, and that last one says what stands (`Ordered`, `Current`); a session
response on its way is of the live session, and with an empty queue it says what stands
(`Response`); and a plugin that heard of the revision owes a walk that no report taken
for fresher can end early (`Owes`). Finding 3 is what becomes of the last point when a notice
was dropped.

**WebhooksProofs.** `TypeCorrect`, `ExportsAreVouched` and `PromisesAreKept`. For the first: an
enabled webhook's filter is covered by its approver, and a pending row by whoever vouches for
it, so an edit decided again under the lock re-establishes both. For the second: an attempt in
flight carries the generation it began with, and a row replayed since has a higher one.
`CallsRunOut` bounds the calls of a receiver: one, one per delay of the schedule, and one for each
replay and each fault. Between attempts a row that waits is within the schedule
(`AttemptsCounted`), and no attempt outlives its pass (`PassesRest`), so none is begun over
another one's outcome.

**IntakeProofs.** `TypeCorrect`, `EventsStandOnce`, `RefusalsAreHonest` and `LatestStaysNews`. The
invariant of the first: a row
in the feed was cut when the mark of its batch was last set, and expires no later than the mark
does (`RowFits`), so the statement that removes a mark finds no row of its batch; and what a
poll read as known is a superset of the batches with rows, as far as it can still refuse them
(`PollFits`). For the last (`NewsFit`): every snapshot up to any ack, and up to the place of any
row, was stored, so either its mark stands or its time passed; marks go only at the clock of a
sweep, which is never ahead; and the row with the greatest `seq` is the one that both the trim
and the sweep spare. A renumbered replay of an earlier snapshot therefore meets its mark, or
one whose retention is over.

**KeyValueProofs.** `UpdatesAreKept`. A change, and an attempt that carries its write, remembers a
revision and a content number; if the key was not deleted or lapsed since, the key's revision
equals the remembered one only if its content does (`Reading`), and a transaction that holds the
lock has read the row as it still is (`Holding`). `GameIsNotForgotten` is the safety half of
`GameFollowsStore`: whenever an online game shows something else than the record its own server
wrote last, a lookup or a change with a write behind it is under way, or the server is in
`missed`. A transport's request has its change waiting for it with the same flags (`RequestFits`);
a set left behind leaves a lookup or its change, until the server has read or written the key
again, from when on the set is `old` and its landing puts the server in `missed` (`StrayFits`);
and an answer tells what the server wrote, for nobody else writes as it (`AnswerFits`).

**Only model-checked.** Liveness, for the prover has neither fairness nor ENABLED:
`EveryEnvelopeLeaves`, `OverdueWorkIsRetired`, `EveryEntryLands`, `GameFollowsStore`,
`EveryActionEnds`, `ChangesReachServers`, `LinkRecovers` and `EveryDeliveryEnds`. For three of them
the part that is not about fairness is a theorem: `GameIsNotForgotten`, `ChangesAreOwed` and
`CallsRunOut`. The strengthenings were checked by TLC on the instances of section 3 before they
were proved. The findings of section 3.4 are counterexamples, which no theorem needs to state.

## 5. What is not modelled

* **Held polls.** Registration before the read, wake-up and backstop trade latency: a lost
  wake-up costs at most the backstop interval, and no property of the models bounds time. The
  answer of a held poll and a vanished client are in `HubToPlugin`.
* **Manifest reconciliation.** How the plugin picks the revision it publishes: the record with its
  pending mark, the revision the hub reports, the publish left in the outbox. A manifest
  at the hub is replaced by any later revision (`ActionLifecycle`, `Bans`).
* **Outbox ring.** File names, ordinals on disk and the slots reserved for results; they need
  the outbox's own arithmetic and none of the link. A boot that cannot read a record discards it
  and counts it as dropped (`VyshkaOutbox.c:375`): `NothingLost` is about records that stay readable.
* **Ban list.** `bans.applied` reports, the platform filter, the ceilings on pages and restarts of
  a walk, expiry by the plugin's own clock between two lists, revoked servers, the Admin listings.
* **Webhooks.** The link monitor's notifications, rendering, redaction, signing, the HTTP client.
* **Intake.** The feed's queries, validation of a body, the identity index, contexts, inline
  registration.
* **Key-value store.** `kvIncr`, listings, confinement of namespaces, the effect of a flag on a character.
* **Players and identity backfill.** Queries over stored events, and an idempotent walk that
  fills an index from them.
* **Admin tokens, scopes, audit.** A scope check is a function of one request; what a token's
  grants mean for stored state is in `ActionLifecycle` and `Webhooks`.
* **Validators.** The schema and pattern checkers are pure recursive functions over JSON
  documents; only toy documents could be enumerated. They appear as sets (`Declares`,
  `Malformed`, `Faulty`).
* **Telemetry, contexts, map markers, game hooks.** Collection of game state and formatting.
* **Conformance suite, spikes, CLI, clients, panel, deployment.** Test tooling and clients: the
  larger half of the repository's lines, with no state the hub or the plugin relies on.
  They are why the mapped share of the code stays low although every state machine of the
  protocol but the held poll has a model.
