------------------------------- MODULE Webhooks -------------------------------
(***************************************************************************)
(* The webhook pipeline of the hub: registrations and their edits          *)
(* (hub/webhooks.go), the outbox of notifications and the delivery rows    *)
(* (hub/store/webhooks.go), and the dispatcher that fans notifications out *)
(* and attempts what is due (hub/internal/webhook/dispatch.go).            *)
(*                                                                         *)
(* A notification is a stored event, a finished action or an audit record; *)
(* a delivery is named after its webhook and its notification.  A filter   *)
(* is the set of types it admits and a token the set of types its grants   *)
(* cover.  Every transaction that touches a delivery locks its webhook     *)
(* first, so each is one step; the handlers, the dispatcher's passes and   *)
(* the retention sweep are steps apart and interleave.  A row's body never *)
(* changes after the fan-out, so only its type is kept.                    *)
(***************************************************************************)
EXTENDS Integers, FiniteSets

CONSTANTS
  Hooks,         \* webhook ids; an id is never reused
  Notes,         \* notifications
  TypeOf,        \* the type of each notification
  Tokens,        \* Admin API tokens that manage webhooks
  Covers,        \* the types the grants of each token cover
  Filters,       \* the filters a client may register
  Edits,         \* the edits the holder of each token may ask for
  Nothing,       \* an edit without the member
  NoOne,
  Retries,       \* Len(retryDelays)
  PendingBound,  \* pendingDeliveryBound
  NotifyBatch,   \* notifyBatch
  DeliverBatch,  \* deliverBatch
  MaxReplays,    \* bound on replays
  MaxFaults      \* bound on restarts and failed statements

Kinds == {"event", "action", "audit"}
Rows == Hooks \X Notes
NoRow == <<NoOne, NoOne>>

ASSUME TokensAssumption ==
  /\ TypeOf \in [Notes -> Kinds]
  /\ Covers \in [Tokens -> SUBSET Kinds]
  /\ (\A S \in SUBSET Kinds : Nothing # S) /\ (\A b \in BOOLEAN : Nothing # b)
  /\ NoOne \notin Hooks /\ NoOne \notin Tokens

\* WebhookUpdate: whether the edit points the webhook at the caller's own
\* address, the filter it sets, and whether it pauses or resumes.
ASSUME EditsAssumption ==
  /\ Filters \subseteq (SUBSET Kinds) \ {{}}
  /\ Edits \in [Tokens -> SUBSET [move : BOOLEAN, filter : Filters \cup {Nothing},
                                   pause : BOOLEAN \cup {Nothing}]]

ASSUME LimitsAssumption ==
  /\ Retries \in Nat /\ PendingBound \in Nat
  /\ NotifyBatch \in Nat \ {0} /\ DeliverBatch \in Nat \ {0}
  /\ MaxReplays \in Nat /\ MaxFaults \in Nat

VARIABLES
  note,      \* the outbox flag of each notification
  hook,      \* webhooks
  row,       \* webhook_deliveries
  pass,      \* where the dispatcher's loop stands
  work,      \* the attempts of the running pass
  edit,      \* handleUpdateWebhook, between its check and its transaction
  replay,    \* handleReplayWebhookDelivery, between its check and its transaction
  old,       \* the finished rows past the retention cutoff
  doomed,    \* the batch PruneWebhookDeliveries has chosen
  vouch,     \* history: the token that last decided where each body goes
  owed,      \* history: the rows created or replayed and not attempted since
  replays, faults

adminVars == <<edit, replay>>
loopVars == <<pass, work>>
pruneVars == <<old, doomed>>
vars == <<note, hook, row, loopVars, adminVars, pruneVars, vouch, owed, replays, faults>>

NoHook == [stage |-> "unborn", paused |-> FALSE, filter |-> {}, url |-> NoOne,
           approver |-> NoOne, before |-> {}]
NoDelivery == [state |-> "none", gen |-> 0, attempts |-> 0, due |-> FALSE]
Idle == [stage |-> "idle", gen |-> 0]
NoReplay == [by |-> NoOne, row |-> NoRow]
NoEdit == [hook |-> NoOne, change |-> [move |-> FALSE, filter |-> Nothing, pause |-> Nothing]]

Init ==
  /\ note = [n \in Notes |-> "absent"]
  /\ hook = [w \in Hooks |-> NoHook]
  /\ row = [d \in Rows |-> NoDelivery]
  /\ pass = "event" /\ work = [d \in Rows |-> Idle]
  /\ edit = [t \in Tokens |-> NoEdit] /\ replay = NoReplay
  /\ old = {} /\ doomed = {}
  /\ vouch = [d \in Rows |-> NoOne] /\ owed = {}
  /\ replays = 0 /\ faults = 0

Fault == faults < MaxFaults /\ faults' = faults + 1

Here(w) == hook[w].stage = "here"
Pending(w) == {d \in Rows : d[1] = w /\ row[d].state = "pending"}
Finished == {d \in Rows : row[d].state \in {"delivered", "dead"}}

-------------------------------------------------------------------------------
(* The Admin API *)

\* The record a notification is told from is written, its flag not yet set.
Land(n) ==
  /\ note[n] = "absent"
  /\ note' = [note EXCEPT ![n] = "landed"]
  /\ UNCHANGED <<hook, row, loopVars, adminVars, pruneVars, vouch, owed, replays, faults>>

\* subscriptionCoverage and notificationCoverage.
CoversAll(t, types) == types \subseteq Covers[t]

\* What landed before the registration is not told; a tie of the millisecond
\* goes to delivery.
handleCreateWebhook(w, t) ==
  /\ hook[w].stage = "unborn"
  /\ \E filter \in Filters, ties \in SUBSET {n \in Notes : note[n] = "landed"} :
       /\ CoversAll(t, filter)
       /\ hook' = [hook EXCEPT ![w] =
            [stage |-> "here", paused |-> FALSE, filter |-> filter, url |-> t, approver |-> t,
             before |-> {n \in Notes : note[n] = "landed"} \ ties]]
  /\ UNCHANGED <<note, row, loopVars, adminVars, pruneVars, vouch, owed, replays, faults>>

\* The subscription an edit leaves, and the pending bodies it carries along
\* when the address really moves.
Merged(w, change) == IF change.filter = Nothing THEN hook[w].filter ELSE change.filter
Moves(w, t, change) == change.move /\ hook[w].url # t
PendingTypes(w) == {TypeOf[d[2]] : d \in Pending(w)}
Carried(w, t, change) == IF Moves(w, t, change) THEN PendingTypes(w) ELSE {}
Authorized(w, t, change) == CoversAll(t, Merged(w, change) \cup Carried(w, t, change))

\* handleUpdateWebhook decides on a snapshot first.
CheckEdit(w, t, change) ==
  /\ edit[t] = NoEdit /\ Here(w)
  /\ Authorized(w, t, change)
  /\ edit' = [edit EXCEPT ![t] = [hook |-> w, change |-> change]]
  /\ UNCHANGED <<note, hook, row, loopVars, replay, pruneVars, vouch, owed, replays, faults>>

Edited(w, t, change) ==
  [hook[w] EXCEPT !.url = IF change.move THEN t ELSE @,
                  !.filter = Merged(w, change),
                  !.paused = IF change.pause = Nothing THEN @ ELSE change.pause,
                  !.approver = t]

\* UpdateWebhook decides again on the locked row.  The editor answers for
\* what the webhook sends from here on, and for the bodies it carries away.
OnSnapshotOnly(w, t, change) == TRUE
DecidedAgain(w, t, change) == Authorized(w, t, change)
UpdateWebhook(t) ==
  LET w == edit[t].hook
      change == edit[t].change
  IN  /\ edit[t] # NoEdit /\ Here(w)
      /\ DecidedAgain(w, t, change)
      /\ hook' = [hook EXCEPT ![w] = Edited(w, t, change)]
      /\ vouch' = [d \in Rows |-> IF d \in Pending(w) /\ Moves(w, t, change)
                                  THEN t ELSE vouch[d]]
      /\ edit' = [edit EXCEPT ![t] = NoEdit]
      /\ UNCHANGED <<note, row, loopVars, replay, pruneVars, owed, replays, faults>>

\* The webhook is gone, or became what the token does not cover.
RefuseEdit(t) ==
  /\ edit[t] # NoEdit
  /\ Here(edit[t].hook) => ~DecidedAgain(edit[t].hook, t, edit[t].change)
  /\ edit' = [edit EXCEPT ![t] = NoEdit]
  /\ UNCHANGED <<note, hook, row, loopVars, replay, pruneVars, vouch, owed, replays, faults>>

\* The deliveries go with the webhook (ON DELETE CASCADE).
DeleteWebhook(w) ==
  /\ Here(w)
  /\ hook' = [hook EXCEPT ![w] = [NoHook EXCEPT !.stage = "gone"]]
  /\ row' = [d \in Rows |-> IF d[1] = w THEN NoDelivery ELSE row[d]]
  /\ old' = {d \in old : d[1] # w}
  /\ owed' = {d \in owed : d[1] # w}
  /\ vouch' = [d \in Rows |-> IF d[1] = w THEN NoOne ELSE vouch[d]]
  /\ UNCHANGED <<note, loopVars, adminVars, doomed, replays, faults>>

\* handleReplayWebhookDelivery: the type of a delivery never changes, so the
\* coverage of it needs no lock.
CheckReplay(t, d) ==
  /\ replays < MaxReplays
  /\ replay = NoReplay /\ row[d].state # "none"
  /\ CoversAll(t, {TypeOf[d[2]]})
  /\ replay' = [by |-> t, row |-> d]
  /\ UNCHANGED <<note, hook, row, loopVars, edit, pruneVars, vouch, owed, replays, faults>>

\* Pending again and due now, whatever its state and past any bound; the
\* generation moves and the attempt count stays.
Rearmed(d) == [state |-> "pending", gen |-> row[d].gen + 1,
               attempts |-> row[d].attempts, due |-> TRUE]
ReplayWebhookDelivery ==
  LET d == replay.row
  IN  /\ replay # NoReplay /\ row[d].state # "none"
      /\ row' = [row EXCEPT ![d] = Rearmed(d)]
      /\ old' = old \ {d}
      /\ vouch' = [vouch EXCEPT ![d] = replay.by]
      /\ owed' = owed \cup {d}
      /\ replay' = NoReplay
      /\ replays' = replays + 1
      /\ UNCHANGED <<note, hook, loopVars, edit, doomed, faults>>

\* The row was pruned or went with its webhook: 404.
ReplayNothing ==
  /\ replay # NoReplay /\ row[replay.row].state = "none"
  /\ replay' = NoReplay
  /\ UNCHANGED <<note, hook, row, loopVars, edit, pruneVars, vouch, owed, replays, faults>>

-------------------------------------------------------------------------------
(* The dispatcher: one loop, one pass at a time *)

Stages == Kinds \cup {"due", "attempts"}
Following == [event |-> "action", action |-> "audit", audit |-> "due"]

Flagged(kind) == {n \in Notes : note[n] = "landed" /\ TypeOf[n] = kind}
Batches(S, limit) ==
  {B \in SUBSET S : Cardinality(B) = IF Cardinality(S) < limit THEN Cardinality(S) ELSE limit}

\* webhookMatches and the registration boundary.
Matches(batch) ==
  {d \in Hooks \X batch : /\ Here(d[1])
                          /\ TypeOf[d[2]] \in hook[d[1]].filter
                          /\ d[2] \notin hook[d[1]].before}

\* What the pending bound leaves room for; the rest is dead on arrival.
Room(w) == IF Cardinality(Pending(w)) < PendingBound
           THEN PendingBound - Cardinality(Pending(w)) ELSE 0
Admitted(new) ==
  {live \in SUBSET new :
     \A w \in Hooks : {d \in live : d[1] = w} \in Batches({d \in new : d[1] = w}, Room(w))}

\* NotifyEvents, NotifyFinishedActions and NotifyAudit: the flags and the
\* deliveries commit together, against the webhooks locked there.
Notify(batch, live) ==
  /\ note' = [n \in Notes |-> IF n \in batch THEN "notified" ELSE note[n]]
  /\ row' = [d \in Rows |->
       IF d \notin Matches(batch) THEN row[d]
       ELSE [state |-> IF d \in live THEN "pending" ELSE "dead",
             gen |-> 0, attempts |-> 0, due |-> d \in live]]
  /\ vouch' = [d \in Rows |-> IF d \in live THEN hook[d[1]].approver ELSE vouch[d]]
  /\ hook' = [w \in Hooks |-> [hook[w] EXCEPT !.before = @ \ batch]]
  /\ owed' = owed \cup live

FanOut(kind) ==
  /\ pass = kind /\ pass' = Following[kind]
  /\ \E batch \in Batches(Flagged(kind), NotifyBatch) :
       \E live \in Admitted(Matches(batch)) : Notify(batch, live)
  /\ UNCHANGED <<work, adminVars, pruneVars, replays, faults>>

\* A statement of the fan-out fails: the rest of the pass is not run.
FanOutFails ==
  /\ Fault /\ pass \in Kinds
  /\ pass' = "event"
  /\ UNCHANGED <<note, hook, row, work, adminVars, pruneVars, vouch, owed, replays>>

\* DueWebhookDeliveries: a paused webhook's deliveries are never due.
FirstAttempts ==
  {d \in Rows : row[d].state = "pending" /\ row[d].attempts = 0 /\ ~hook[d[1]].paused}
Due == {d \in Rows : row[d].state = "pending" /\ row[d].due /\ ~hook[d[1]].paused}
DueWebhookDeliveries ==
  /\ pass = "due" /\ pass' = "attempts"
  /\ \E batch \in Batches(Due, DeliverBatch) :
       work' = [d \in Rows |-> IF d \in batch THEN [stage |-> "selected", gen |-> row[d].gen]
                               ELSE Idle]
  /\ UNCHANGED <<note, hook, row, adminVars, pruneVars, vouch, owed, replays, faults>>

\* The row still is what the pass selected, or what the attempt began under.
AnyPendingRow(d) == row[d].state = "pending"
SameRow(d) == row[d].state = "pending" /\ row[d].gen = work[d].gen

BeginDeliveryAttempt(d) ==
  /\ work[d].stage = "selected"
  /\ SameRow(d) /\ ~hook[d[1]].paused
  /\ row' = [row EXCEPT ![d].attempts = @ + 1]
  /\ work' = [work EXCEPT ![d].stage = "sending"]
  /\ owed' = owed \ {d}
  /\ UNCHANGED <<note, hook, pass, adminVars, pruneVars, vouch, replays, faults>>

Done(d) == work' = [work EXCEPT ![d] = Idle]

\* ErrWebhookPaused and ErrStaleAttempt: nothing booked, nothing sent.
SkipAttempt(d) ==
  /\ work[d].stage = "selected"
  /\ ~SameRow(d) \/ hook[d[1]].paused
  /\ Done(d)
  /\ UNCHANGED <<note, hook, row, pass, adminVars, pruneVars, vouch, owed, replays, faults>>

\* The outcome is booked against the generation the attempt began under.
Counts(d) == SameRow(d)
Book(d, state) ==
  /\ row' = [row EXCEPT ![d] = [state |-> state, gen |-> row[d].gen,
                                attempts |-> row[d].attempts, due |-> FALSE]]
  /\ vouch' = IF state = "pending" THEN vouch ELSE [vouch EXCEPT ![d] = NoOne]
RecordDeliverySuccess(d) ==
  /\ work[d].stage = "sending" /\ Counts(d)
  /\ Book(d, "delivered")
  /\ Done(d)
  /\ UNCHANGED <<note, hook, pass, adminVars, pruneVars, owed, replays, faults>>

\* recordFailure: attempt N failing takes delay N, past the end the row is
\* dead.  Nobody else books an attempt of the row meanwhile, so its count is
\* the number of this one.
Exhausted(d) == row[d].attempts > Retries
RecordDeliveryFailure(d) ==
  /\ work[d].stage = "sending" /\ Counts(d)
  /\ Book(d, IF Exhausted(d) THEN "dead" ELSE "pending")
  /\ Done(d)
  /\ UNCHANGED <<note, hook, pass, adminVars, pruneVars, owed, replays, faults>>

\* The row was replayed, pruned or deleted since: the outcome is discarded.
DiscardOutcome(d) ==
  /\ work[d].stage = "sending" /\ ~Counts(d)
  /\ Done(d)
  /\ UNCHANGED <<note, hook, row, pass, adminVars, pruneVars, vouch, owed, replays, faults>>

\* The booking of a start or of an outcome fails: the row stays as it is, and
\* due.
BookingFails(d) ==
  /\ Fault /\ work[d].stage # "idle"
  /\ Done(d)
  /\ UNCHANGED <<note, hook, row, pass, adminVars, pruneVars, vouch, owed, replays>>

\* deliverDue waits for the workers; a nudge or the ticker starts the next
\* pass.
EndPass ==
  /\ pass = "attempts" /\ \A d \in Rows : work[d].stage = "idle"
  /\ pass' = "event"
  /\ UNCHANGED <<note, hook, row, work, adminVars, pruneVars, vouch, owed, replays, faults>>

\* The next attempt's time comes.
ComeDue(d) ==
  /\ row[d].state = "pending" /\ ~row[d].due
  /\ row' = [row EXCEPT ![d].due = TRUE]
  /\ UNCHANGED <<note, hook, loopVars, adminVars, pruneVars, vouch, owed, replays, faults>>

\* Close, or a crash: what was not fed or not booked stays pending and due.
Restart ==
  /\ Fault
  /\ pass' = "event" /\ work' = [d \in Rows |-> Idle]
  /\ edit' = [t \in Tokens |-> NoEdit] /\ replay' = NoReplay
  /\ doomed' = {}
  /\ UNCHANGED <<note, hook, row, old, vouch, owed, replays>>

-------------------------------------------------------------------------------
(* Retention *)

\* The terminal instants of the rows finished so far pass the cutoff.
Age ==
  /\ old # Finished /\ old' = Finished
  /\ UNCHANGED <<note, hook, row, loopVars, adminVars, doomed, vouch, owed, replays, faults>>

\* PruneWebhookDeliveries reads its batch without a lock, and deletes what is
\* still eligible once it holds the webhooks.
ChoosePrune ==
  /\ doomed = {} /\ old # {} /\ doomed' = old
  /\ UNCHANGED <<note, hook, row, loopVars, adminVars, old, vouch, owed, replays, faults>>

StillEligible == doomed \cap old
Prune ==
  /\ doomed # {}
  /\ row' = [d \in Rows |-> IF d \in StillEligible THEN NoDelivery ELSE row[d]]
  /\ old' = old \ StillEligible /\ doomed' = {}
  /\ UNCHANGED <<note, hook, loopVars, adminVars, vouch, owed, replays, faults>>

-------------------------------------------------------------------------------
(* The specification *)

AdminStep ==
  \/ \E w \in Hooks : DeleteWebhook(w)
  \/ \E t \in Tokens : \/ \E w \in Hooks : handleCreateWebhook(w, t)
                       \/ \E w \in Hooks, change \in Edits[t] : CheckEdit(w, t, change)
                       \/ UpdateWebhook(t) \/ RefuseEdit(t)
                       \/ \E d \in Rows : CheckReplay(t, d)
  \/ ReplayWebhookDelivery \/ ReplayNothing

FanOutStep == \E kind \in Kinds : FanOut(kind)
AttemptStep(d) ==
  \/ BeginDeliveryAttempt(d) \/ SkipAttempt(d)
  \/ RecordDeliverySuccess(d) \/ RecordDeliveryFailure(d) \/ DiscardOutcome(d)
PassStep == FanOutStep \/ DueWebhookDeliveries \/ EndPass

Next ==
  \/ \E n \in Notes : Land(n)
  \/ AdminStep
  \/ PassStep \/ FanOutFails
  \/ \E d \in Rows : AttemptStep(d) \/ BookingFails(d) \/ ComeDue(d)
  \/ Age \/ ChoosePrune \/ Prune \/ Restart

Spec == Init /\ [][Next]_vars

\* The loop has a ticker, its workers a timeout per attempt, and time passes.
FairSpec == Spec /\ WF_vars(PassStep) /\ \A d \in Rows : WF_vars(AttemptStep(d)) /\ WF_vars(ComeDue(d))

-------------------------------------------------------------------------------
(* Properties *)

HookType == [stage : {"unborn", "here", "gone"}, paused : BOOLEAN, filter : SUBSET Kinds,
             url : Tokens \cup {NoOne}, approver : Tokens \cup {NoOne}, before : SUBSET Notes]
RowType == [state : {"none", "pending", "delivered", "dead"}, gen : Nat, attempts : Nat,
            due : BOOLEAN]
WorkType == [stage : {"idle", "selected", "sending"}, gen : Nat]
ChangeType == [move : BOOLEAN, filter : (SUBSET Kinds) \cup {Nothing},
               pause : BOOLEAN \cup {Nothing}]
EditType == [hook : Hooks \cup {NoOne}, change : ChangeType]
ReplayType == {NoReplay} \cup [by : Tokens, row : Rows]

TypeOK ==
  /\ note \in [Notes -> {"absent", "landed", "notified"}]
  /\ hook \in [Hooks -> HookType]
  /\ row \in [Rows -> RowType]
  /\ pass \in Stages
  /\ work \in [Rows -> WorkType]
  /\ edit \in [Tokens -> EditType]
  /\ replay \in ReplayType
  /\ old \subseteq Rows /\ doomed \subseteq Rows
  /\ vouch \in [Rows -> Tokens \cup {NoOne}]
  /\ owed \subseteq Rows
  /\ replays \in Nat /\ faults \in Nat

\* A webhook exports nothing on an authority that does not reach it: the
\* token that last decided where a waiting body goes - by registering or
\* editing the webhook, by moving its address under the body, or by replaying
\* it - covers the body's type, whatever edits, replays and fan-outs overtook
\* each other.
VouchedExport ==
  \A d \in Rows : row[d].state = "pending" =>
    vouch[d] \in Tokens /\ TypeOf[d[2]] \in Covers[vouch[d]]

\* A pending row is a promise: it ends only with its webhook, or by the outcome
\* of an attempt that began after the row was last created or replayed.  No
\* older attempt settles a replay, and no sweep removes one.
PromiseKept ==
  [][\A d \in Rows :
       row[d].state = "pending" /\ row'[d].state # "pending"
         => hook'[d[1]].stage = "gone" \/ (d \notin owed /\ row'[d].state # "none")]_vars

\* Every notification is fanned out, and every delivery ends unless its
\* webhook is paused: no outcome, lost booking or restart leaves a row that
\* nobody attempts or a schedule that never runs out.
EveryDeliveryEnds ==
  /\ \A n \in Notes : (note[n] = "landed") ~> (note[n] = "notified")
  /\ \A d \in Rows :
       (row[d].state = "pending") ~> (row[d].state # "pending" \/ hook[d[1]].paused)
===============================================================================
