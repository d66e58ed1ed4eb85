----------------------------- MODULE WebhooksProofs -----------------------------
(***************************************************************************)
(* Proofs about Webhooks, for any number of webhooks, notifications,       *)
(* tokens, replays and faults.                                             *)
(***************************************************************************)
EXTENDS Webhooks, TLAPS

-------------------------------------------------------------------------------
(* Type correctness *)

\* An edited webhook is a webhook.
LEMMA EditedFits ==
  ASSUME hook \in [Hooks -> HookType], NEW w \in Hooks, NEW t \in Tokens,
         NEW change \in ChangeType
  PROVE  Edited(w, t, change) \in HookType
<1>1. Merged(w, change) \in SUBSET Kinds
  BY DEF Merged, HookType, ChangeType
<1>2. (IF change.pause = Nothing THEN hook[w].paused ELSE change.pause) \in BOOLEAN
  BY DEF HookType, ChangeType
<1>3. (IF change.move THEN t ELSE hook[w].url) \in Tokens \cup {NoOne}
  BY DEF HookType, ChangeType
<1>4. hook[w] \in HookType
  OBVIOUS
<1>5. QED
  BY <1>1, <1>2, <1>3, <1>4 DEF Edited, HookType

\* The parts of the state no Admin step touches, and those no pass touches.
LEMMA TypeAdmin ==
  ASSUME TypeOK, AdminStep \/ \E n \in Notes : Land(n)
  PROVE  TypeOK'
<1> USE DEF TypeOK, loopVars, adminVars, pruneVars
<1>1. ASSUME NEW w \in Hooks, DeleteWebhook(w) PROVE TypeOK'
  <2>1. [NoHook EXCEPT !.stage = "gone"] \in HookType
    BY DEF NoHook, HookType
  <2>2. hook' \in [Hooks -> HookType]
    BY <1>1, <2>1 DEF DeleteWebhook
  <2>3. row' \in [Rows -> RowType]
    BY <1>1 DEF DeleteWebhook, NoDelivery, RowType
  <2>4. vouch' \in [Rows -> Tokens \cup {NoOne}]
    BY <1>1 DEF DeleteWebhook
  <2>5. QED
    BY <1>1, <2>2, <2>3, <2>4 DEF DeleteWebhook
<1>2. ASSUME NEW w \in Hooks, NEW t \in Tokens, handleCreateWebhook(w, t) PROVE TypeOK'
  <2>1. PICK filter \in Filters, ties \in SUBSET {n \in Notes : note[n] = "landed"} :
          hook' = [hook EXCEPT ![w] =
            [stage |-> "here", paused |-> FALSE, filter |-> filter, url |-> t, approver |-> t,
             before |-> {n \in Notes : note[n] = "landed"} \ ties]]
    BY <1>2 DEF handleCreateWebhook
  <2>2. filter \in SUBSET Kinds
    BY EditsAssumption
  <2>3. hook' \in [Hooks -> HookType]
    BY <2>1, <2>2 DEF HookType
  <2>4. QED
    BY <1>2, <2>3 DEF handleCreateWebhook
<1>3. ASSUME NEW w \in Hooks, NEW t \in Tokens, NEW change \in Edits[t], CheckEdit(w, t, change)
      PROVE  TypeOK'
  <2>1. [hook |-> w, change |-> change] \in EditType
    <3>1. change \in [move : BOOLEAN, filter : Filters \cup {Nothing},
                      pause : BOOLEAN \cup {Nothing}]
      BY EditsAssumption
    <3>2. QED
      BY <3>1, EditsAssumption DEF EditType, ChangeType
  <2>2. QED
    BY <1>3, <2>1 DEF CheckEdit
<1>4. NoEdit \in EditType
  BY DEF EditType, ChangeType, NoEdit
<1>5. ASSUME NEW t \in Tokens, UpdateWebhook(t) PROVE TypeOK'
  <2> DEFINE w == edit[t].hook
             change == edit[t].change
  <2>1. w \in Hooks \cup {NoOne} /\ change \in ChangeType
    BY DEF EditType
  <2>2. hook' = [hook EXCEPT ![w] = Edited(w, t, change)]
    BY <1>5 DEF UpdateWebhook
  <2>3. hook' \in [Hooks -> HookType]
    BY <2>1, <2>2, EditedFits
  <2>4. vouch' \in [Rows -> Tokens \cup {NoOne}]
    BY <1>5 DEF UpdateWebhook
  <2>5. edit' \in [Tokens -> EditType]
    BY <1>5, <1>4 DEF UpdateWebhook
  <2>6. QED
    BY <1>5, <2>3, <2>4, <2>5 DEF UpdateWebhook
<1>6. ASSUME NEW t \in Tokens, RefuseEdit(t) PROVE TypeOK'
  BY <1>4, <1>6 DEF RefuseEdit
<1>7. ASSUME NEW t \in Tokens, NEW d \in Rows, CheckReplay(t, d) PROVE TypeOK'
  <2>1. [by |-> t, row |-> d] \in ReplayType
    BY DEF ReplayType
  <2>2. QED
    BY <1>7, <2>1 DEF CheckReplay
<1>8. NoReplay \in ReplayType
  BY DEF ReplayType
<1>9. CASE ReplayWebhookDelivery
  <2> DEFINE d == replay.row
  <2>1. \A x \in Rows : Rearmed(x) \in RowType
    BY DEF Rearmed, RowType
  <2>2. row' \in [Rows -> RowType]
    BY <1>9, <2>1 DEF ReplayWebhookDelivery
  <2>3. vouch' \in [Rows -> Tokens \cup {NoOne}]
    <3>1. replay.by \in Tokens
      BY <1>9 DEF ReplayWebhookDelivery, ReplayType
    <3>2. vouch' = [vouch EXCEPT ![d] = replay.by]
      BY <1>9 DEF ReplayWebhookDelivery
    <3>3. QED
      BY <3>1, <3>2
  <2>4. owed' \subseteq Rows
    <3>1. replay.row \in Rows
      BY <1>9 DEF ReplayWebhookDelivery, ReplayType
    <3>2. QED
      BY <1>9, <3>1 DEF ReplayWebhookDelivery
  <2>5. QED
    BY <1>8, <1>9, <2>2, <2>3, <2>4 DEF ReplayWebhookDelivery
<1>10. CASE ReplayNothing
  BY <1>8, <1>10 DEF ReplayNothing
<1>11. ASSUME NEW n \in Notes, Land(n) PROVE TypeOK'
  BY <1>11 DEF Land
<1>12. QED
  BY <1>1, <1>2, <1>3, <1>5, <1>6, <1>7, <1>9, <1>10, <1>11 DEF AdminStep

\* The dispatcher's passes keep the types.
LEMMA TypeDispatcher ==
  ASSUME TypeOK, PassStep \/ FanOutFails
  PROVE  TypeOK'
<1> USE DEF TypeOK, loopVars, adminVars, pruneVars, Stages, Kinds
<1>1. ASSUME NEW kind \in Kinds, FanOut(kind) PROVE TypeOK'
  <2>0. PICK batch \in Batches(Flagged(kind), NotifyBatch) :
          \E live \in Admitted(Matches(batch)) : Notify(batch, live)
    BY <1>1 DEF FanOut
  <2>1. PICK live \in Admitted(Matches(batch)) :
          /\ note' = [n \in Notes |-> IF n \in batch THEN "notified" ELSE note[n]]
          /\ row' = [d \in Rows |->
               IF d \notin Matches(batch) THEN row[d]
               ELSE [state |-> IF d \in live THEN "pending" ELSE "dead",
                     gen |-> 0, attempts |-> 0, due |-> d \in live]]
          /\ vouch' = [d \in Rows |-> IF d \in live THEN hook[d[1]].approver ELSE vouch[d]]
          /\ hook' = [w \in Hooks |-> [hook[w] EXCEPT !.before = @ \ batch]]
          /\ owed' = owed \cup live
    BY <2>0 DEF Notify
  <2>2. live \subseteq Rows
    BY DEF Admitted, Matches, Batches, Flagged, Rows
  <2>3. row' \in [Rows -> RowType]
    <3>1. \A d \in Rows : row[d] \in RowType
      OBVIOUS
    <3>2. \A d \in Rows :
            [state |-> IF d \in live THEN "pending" ELSE "dead", gen |-> 0, attempts |-> 0,
             due |-> d \in live] \in RowType
      BY DEF RowType
    <3>3. QED
      BY <2>1, <3>1, <3>2
  <2>4. \A d \in Rows : hook[d[1]].approver \in Tokens \cup {NoOne}
    BY DEF HookType, Rows
  <2>5. vouch' \in [Rows -> Tokens \cup {NoOne}]
    BY <2>1, <2>4
  <2>6. hook' \in [Hooks -> HookType]
    <3>1. ASSUME NEW w \in Hooks PROVE [hook[w] EXCEPT !.before = @ \ batch] \in HookType
      <4>1. hook[w] \in HookType
        OBVIOUS
      <4>2. QED
        BY <4>1 DEF HookType
    <3>2. QED
      BY <2>1, <3>1
  <2>7. note' \in [Notes -> {"absent", "landed", "notified"}]
    BY <2>1
  <2>8. pass' \in Stages
    BY <1>1 DEF FanOut, Following
  <2>9. QED
    BY <1>1, <2>1, <2>2, <2>3, <2>5, <2>6, <2>7, <2>8 DEF FanOut
<1>2. CASE DueWebhookDeliveries
  <2>1. PICK batch \in Batches(Due, DeliverBatch) :
          work' = [d \in Rows |-> IF d \in batch THEN [stage |-> "selected", gen |-> row[d].gen]
                                  ELSE Idle]
    BY <1>2 DEF DueWebhookDeliveries
  <2>2. work' \in [Rows -> WorkType]
    BY <2>1 DEF WorkType, RowType, Idle
  <2>3. QED
    BY <1>2, <2>2 DEF DueWebhookDeliveries
<1>3. CASE EndPass
  BY <1>3 DEF EndPass
<1>4. CASE FanOutFails
  BY <1>4, LimitsAssumption DEF FanOutFails, Fault
<1>5. QED
  BY <1>1, <1>2, <1>3, <1>4 DEF PassStep, FanOutStep

\* The attempts keep the types.
LEMMA TypeAttempts ==
  ASSUME TypeOK, NEW d \in Rows, AttemptStep(d) \/ BookingFails(d) \/ ComeDue(d)
  PROVE  TypeOK'
<1> USE DEF TypeOK, loopVars, adminVars, pruneVars
<1>1. Idle \in WorkType
  BY DEF Idle, WorkType
<1>2. CASE BeginDeliveryAttempt(d)
  <2>1. row' \in [Rows -> RowType]
    <3>1. row[d] \in RowType
      OBVIOUS
    <3>2. [row[d] EXCEPT !.attempts = @ + 1] \in RowType
      BY <3>1 DEF RowType
    <3>3. row' = [row EXCEPT ![d] = [row[d] EXCEPT !.attempts = @ + 1]]
      BY <1>2 DEF BeginDeliveryAttempt
    <3>4. QED
      BY <3>2, <3>3
  <2>2. work' \in [Rows -> WorkType]
    BY <1>2 DEF BeginDeliveryAttempt, WorkType
  <2>3. QED
    BY <1>2, <2>1, <2>2 DEF BeginDeliveryAttempt
<1>3. CASE SkipAttempt(d) \/ DiscardOutcome(d)
  BY <1>1, <1>3 DEF SkipAttempt, DiscardOutcome, Done
<1>4. ASSUME NEW state \in {"pending", "delivered", "dead"}, Book(d, state)
      PROVE  row' \in [Rows -> RowType] /\ vouch' \in [Rows -> Tokens \cup {NoOne}]
  BY <1>4 DEF Book, RowType
<1>5. CASE RecordDeliverySuccess(d)
  BY <1>1, <1>4, <1>5 DEF RecordDeliverySuccess, Done
<1>6. CASE RecordDeliveryFailure(d)
  BY <1>1, <1>4, <1>6 DEF RecordDeliveryFailure, Done
<1>7. CASE BookingFails(d)
  BY <1>1, <1>7, LimitsAssumption DEF BookingFails, Done, Fault
<1>8. CASE ComeDue(d)
  <2>1. row' \in [Rows -> RowType]
    BY <1>8 DEF ComeDue, RowType
  <2>2. QED
    BY <1>8, <2>1 DEF ComeDue
<1>9. QED
  BY <1>2, <1>3, <1>5, <1>6, <1>7, <1>8 DEF AttemptStep

\* Retention and a restart keep the types.
LEMMA TypeRetention ==
  ASSUME TypeOK, Age \/ ChoosePrune \/ Prune \/ Restart
  PROVE  TypeOK'
<1> USE DEF TypeOK, loopVars, adminVars, pruneVars
<1>1. CASE Age
  BY <1>1 DEF Age, Finished
<1>2. CASE ChoosePrune
  BY <1>2 DEF ChoosePrune
<1>3. CASE Prune
  <2>1. NoDelivery \in RowType
    BY DEF NoDelivery, RowType
  <2>2. QED
    BY <1>3, <2>1 DEF Prune
<1>4. CASE Restart
  <2>1. Idle \in WorkType /\ NoEdit \in EditType /\ NoReplay \in ReplayType
    BY DEF Idle, WorkType, NoEdit, EditType, ChangeType, ReplayType
  <2>2. "event" \in Stages
    BY DEF Stages, Kinds
  <2>3. QED
    BY <1>4, <2>1, <2>2, LimitsAssumption DEF Restart, Fault
<1>5. QED
  BY <1>1, <1>2, <1>3, <1>4

\* The initial state has the types.
LEMMA TypeInit == Init => TypeOK
<1> SUFFICES ASSUME Init PROVE TypeOK
  OBVIOUS
<1>1. NoHook \in HookType /\ NoDelivery \in RowType /\ Idle \in WorkType
  BY DEF NoHook, HookType, NoDelivery, RowType, Idle, WorkType
<1>2. NoEdit \in EditType /\ NoReplay \in ReplayType /\ "event" \in Stages
  BY DEF NoEdit, EditType, ChangeType, ReplayType, Stages, Kinds
<1>3. QED
  BY <1>1, <1>2 DEF Init, TypeOK

\* Every step keeps the types.
LEMMA TypeNext == TypeOK /\ [Next]_vars => TypeOK'
<1> SUFFICES ASSUME TypeOK, [Next]_vars PROVE TypeOK'
  OBVIOUS
<1>1. CASE UNCHANGED vars
  BY <1>1 DEF vars, loopVars, adminVars, pruneVars, TypeOK
<1>2. QED
  BY <1>1, TypeAdmin, TypeDispatcher, TypeAttempts, TypeRetention DEF Next

\* Every variable of the webhook pipeline (hub/webhooks.go, hub/store/webhooks.go,
\* the dispatcher) keeps its type in every reachable state.
THEOREM TypeCorrect == Spec => []TypeOK
<1>1. QED
  BY TypeInit, TypeNext, PTL DEF Spec

-------------------------------------------------------------------------------
(* Authority *)

\* A row stands only under a registered webhook, for a notification that was
\* told.
RowsStand ==
  \A d \in Rows : row[d].state # "none" => Here(d[1]) /\ note[d[2]] = "notified"

\* The token that answers for a webhook covers what its filter admits.
ApproverCovers ==
  \A w \in Hooks : Here(w) =>
    hook[w].approver \in Tokens /\ hook[w].filter \subseteq Covers[hook[w].approver]

\* A replay that waits for its transaction was asked for by a token that
\* covers the type of the row.
ReplayCovered ==
  replay # NoReplay => TypeOf[replay.row[2]] \in Covers[replay.by]

\* VouchedExport with what it rests on: bodies enter the queue on the
\* approver's authority, and leave an address on an editor's.
Authority ==
  /\ TypeOK /\ RowsStand /\ ApproverCovers /\ ReplayCovered /\ VouchedExport

\* The Admin API's steps keep the authority of every row.
LEMMA AuthorityAdmin ==
  ASSUME Authority, AdminStep \/ \E n \in Notes : Land(n)
  PROVE  RowsStand' /\ ApproverCovers' /\ ReplayCovered' /\ VouchedExport'
<1> USE DEF Authority, RowsStand, ApproverCovers, ReplayCovered, VouchedExport, Here,
            loopVars, adminVars, pruneVars
<1>0. TypeOK
  OBVIOUS
<1>1. ASSUME NEW n \in Notes, Land(n)
      PROVE  RowsStand' /\ ApproverCovers' /\ ReplayCovered' /\ VouchedExport'
  BY <1>0, <1>1 DEF Land, TypeOK
<1>2. ASSUME NEW w \in Hooks, DeleteWebhook(w)
      PROVE  RowsStand' /\ ApproverCovers' /\ ReplayCovered' /\ VouchedExport'
  <2>1. \A d \in Rows : row'[d] = IF d[1] = w THEN NoDelivery ELSE row[d]
    BY <1>2 DEF DeleteWebhook
  <2>2. \A d \in Rows : row'[d].state # "none" => d[1] # w /\ row'[d] = row[d]
    BY <2>1 DEF NoDelivery
  <2>3. \A x \in Hooks : x # w => hook'[x] = hook[x]
    BY <1>2 DEF DeleteWebhook
  <2>4. hook'[w].stage = "gone"
    BY <1>0, <1>2 DEF DeleteWebhook, TypeOK, NoHook
  <2>5. RowsStand'
    BY <1>2, <2>2, <2>3 DEF DeleteWebhook, Rows
  <2>6. ApproverCovers'
    BY <2>3, <2>4
  <2>7. ReplayCovered'
    BY <1>2 DEF DeleteWebhook
  <2>8. VouchedExport'
    BY <1>2, <2>2 DEF DeleteWebhook
  <2>9. QED
    BY <2>5, <2>6, <2>7, <2>8
<1>3. ASSUME NEW w \in Hooks, NEW t \in Tokens, handleCreateWebhook(w, t)
      PROVE  RowsStand' /\ ApproverCovers' /\ ReplayCovered' /\ VouchedExport'
  <2>1. PICK filter \in Filters, ties \in SUBSET {n \in Notes : note[n] = "landed"} :
          /\ filter \subseteq Covers[t]
          /\ hook' = [hook EXCEPT ![w] =
               [stage |-> "here", paused |-> FALSE, filter |-> filter, url |-> t, approver |-> t,
                before |-> {n \in Notes : note[n] = "landed"} \ ties]]
    BY <1>3 DEF handleCreateWebhook, CoversAll
  <2>2. \A x \in Hooks : x # w => hook'[x] = hook[x]
    BY <2>1, <1>0 DEF TypeOK
  <2>3. hook'[w].stage = "here" /\ hook'[w].approver = t /\ hook'[w].filter = filter
    BY <2>1, <1>0 DEF TypeOK
  <2>4. RowsStand'
    BY <1>3, <2>2, <2>3 DEF handleCreateWebhook, Rows
  <2>5. ApproverCovers'
    BY <2>1, <2>2, <2>3
  <2>6. QED
    BY <1>3, <2>4, <2>5 DEF handleCreateWebhook
<1>4. ASSUME NEW w \in Hooks, NEW t \in Tokens, NEW change \in Edits[t], CheckEdit(w, t, change)
      PROVE  RowsStand' /\ ApproverCovers' /\ ReplayCovered' /\ VouchedExport'
  BY <1>4 DEF CheckEdit
<1>5. ASSUME NEW t \in Tokens, UpdateWebhook(t)
      PROVE  RowsStand' /\ ApproverCovers' /\ ReplayCovered' /\ VouchedExport'
  <2> DEFINE w == edit[t].hook
             change == edit[t].change
  <2>1. /\ Here(w) /\ Authorized(w, t, change)
        /\ hook' = [hook EXCEPT ![w] = Edited(w, t, change)]
        /\ vouch' = [d \in Rows |-> IF d \in Pending(w) /\ Moves(w, t, change)
                                    THEN t ELSE vouch[d]]
        /\ row' = row /\ note' = note /\ replay' = replay
    BY <1>5 DEF UpdateWebhook, DecidedAgain
  <2>2. \A x \in Hooks : x # w => hook'[x] = hook[x]
    BY <2>1, <1>0 DEF TypeOK
  <2>3. w \in Hooks => /\ hook'[w].stage = hook[w].stage
                       /\ hook'[w].approver = t /\ hook'[w].filter = Merged(w, change)
    <3>1. ASSUME w \in Hooks PROVE hook'[w] = Edited(w, t, change) /\ hook[w] \in HookType
      BY <2>1, <3>1, <1>0 DEF TypeOK
    <3>2. QED
      BY <3>1 DEF Edited, HookType
  <2>4. RowsStand'
    BY <2>1, <2>2, <2>3 DEF Rows
  <2>5. ApproverCovers'
    <3>1. Merged(w, change) \subseteq Covers[t]
      BY <2>1 DEF Authorized, CoversAll
    <3>2. QED
      BY <2>1, <2>2, <2>3, <3>1
  <2>6. VouchedExport'
    <3> SUFFICES ASSUME NEW d \in Rows, row[d].state = "pending"
                 PROVE  vouch'[d] \in Tokens /\ TypeOf[d[2]] \in Covers[vouch'[d]]
      BY <2>1
    <3>1. CASE d \in Pending(w) /\ Moves(w, t, change)
      <4>1. TypeOf[d[2]] \in PendingTypes(w)
        BY <3>1 DEF PendingTypes
      <4>2. PendingTypes(w) \subseteq Covers[t]
        BY <2>1, <3>1 DEF Authorized, CoversAll, Carried
      <4>3. QED
        BY <2>1, <3>1, <4>1, <4>2
    <3>2. CASE ~(d \in Pending(w) /\ Moves(w, t, change))
      BY <2>1, <3>2
    <3>3. QED
      BY <3>1, <3>2
  <2>7. QED
    BY <2>1, <2>4, <2>5, <2>6
<1>6. ASSUME NEW t \in Tokens, RefuseEdit(t)
      PROVE  RowsStand' /\ ApproverCovers' /\ ReplayCovered' /\ VouchedExport'
  BY <1>6 DEF RefuseEdit
<1>7. ASSUME NEW t \in Tokens, NEW d \in Rows, CheckReplay(t, d)
      PROVE  RowsStand' /\ ApproverCovers' /\ ReplayCovered' /\ VouchedExport'
  <2>1. ReplayCovered'
    BY <1>7 DEF CheckReplay, CoversAll
  <2>2. QED
    BY <1>7, <2>1 DEF CheckReplay
<1>8. CASE ReplayWebhookDelivery
  <2> DEFINE d == replay.row
  <2>1. d \in Rows /\ replay.by \in Tokens
    BY <1>0, <1>8 DEF ReplayWebhookDelivery, TypeOK, ReplayType
  <2>2. row[d].state # "none" /\ row' = [row EXCEPT ![d] = Rearmed(d)]
    BY <1>8 DEF ReplayWebhookDelivery
  <2>3. \A x \in Rows : x # d => row'[x] = row[x] /\ vouch'[x] = vouch[x]
    BY <1>0, <1>8, <2>2 DEF ReplayWebhookDelivery, TypeOK
  <2>4. vouch'[d] = replay.by
    BY <1>0, <1>8, <2>1 DEF ReplayWebhookDelivery, TypeOK
  <2>5. RowsStand'
    BY <1>8, <2>1, <2>2, <2>3 DEF ReplayWebhookDelivery
  <2>6. VouchedExport'
    BY <1>8, <2>1, <2>3, <2>4 DEF ReplayWebhookDelivery
  <2>7. QED
    BY <1>8, <2>5, <2>6 DEF ReplayWebhookDelivery
<1>9. CASE ReplayNothing
  BY <1>9 DEF ReplayNothing
<1>10. QED
  BY <1>1, <1>2, <1>3, <1>4, <1>5, <1>6, <1>7, <1>8, <1>9 DEF AdminStep

\* A fan-out enters bodies on the approver's authority, and only where no row
\* stands.
LEMMA AuthorityFanOut ==
  ASSUME Authority, NEW kind \in Kinds, FanOut(kind)
  PROVE  RowsStand' /\ ApproverCovers' /\ ReplayCovered' /\ VouchedExport'
<1> USE DEF Authority, RowsStand, ApproverCovers, ReplayCovered, VouchedExport, Here
<1>1. PICK batch \in Batches(Flagged(kind), NotifyBatch) :
        \E live \in Admitted(Matches(batch)) : Notify(batch, live)
  BY DEF FanOut
<1>2. PICK live \in Admitted(Matches(batch)) : Notify(batch, live)
  BY <1>1
<1>3. live \subseteq Matches(batch)
  BY DEF Admitted
<1>4. \A w \in Hooks : /\ hook'[w].stage = hook[w].stage
                       /\ hook'[w].approver = hook[w].approver
                       /\ hook'[w].filter = hook[w].filter
  BY <1>2 DEF Notify, TypeOK, HookType
<1>5. \A d \in Matches(batch) : d \in Rows /\ Here(d[1]) /\ d[2] \in batch
                                /\ TypeOf[d[2]] \in hook[d[1]].filter
  BY DEF Matches, Rows, Batches, Flagged
<1>6. RowsStand'
  <2> SUFFICES ASSUME NEW d \in Rows, row'[d].state # "none"
               PROVE  Here(d[1])' /\ note'[d[2]] = "notified"
    OBVIOUS
  <2>1. CASE d \in Matches(batch)
    BY <1>2, <1>4, <1>5, <2>1 DEF Notify, Rows
  <2>2. CASE d \notin Matches(batch)
    <3>1. row[d].state # "none"
      BY <1>2, <2>2 DEF Notify
    <3>2. QED
      BY <1>2, <1>4, <3>1 DEF Notify, Rows
  <2>3. QED
    BY <2>1, <2>2
<1>7. ApproverCovers'
  BY <1>4
<1>8. ReplayCovered'
  BY DEF FanOut, adminVars
<1>9. VouchedExport'
  <2> SUFFICES ASSUME NEW d \in Rows, row'[d].state = "pending"
               PROVE  vouch'[d] \in Tokens /\ TypeOf[d[2]] \in Covers[vouch'[d]]
    OBVIOUS
  <2>1. CASE d \in live
    <3>1. vouch'[d] = hook[d[1]].approver
      BY <1>2, <2>1 DEF Notify
    <3>2. QED
      BY <1>3, <1>5, <2>1, <3>1 DEF Rows
  <2>2. CASE d \notin live
    <3>1. d \notin Matches(batch)
      BY <1>2, <2>2 DEF Notify
    <3>2. row[d].state = "pending" /\ vouch'[d] = vouch[d]
      BY <1>2, <2>2, <3>1 DEF Notify
    <3>3. QED
      BY <3>2
  <2>3. QED
    BY <2>1, <2>2
<1>10. QED
  BY <1>6, <1>7, <1>8, <1>9

\* Nothing else changes who answers for a row that waits.
LEMMA AuthorityElse ==
  ASSUME Authority,
         \/ DueWebhookDeliveries \/ EndPass \/ FanOutFails
         \/ \E d \in Rows : AttemptStep(d) \/ BookingFails(d) \/ ComeDue(d)
         \/ Age \/ ChoosePrune \/ Prune \/ Restart \/ UNCHANGED vars
  PROVE  RowsStand' /\ ApproverCovers' /\ ReplayCovered' /\ VouchedExport'
<1> USE DEF Authority, loopVars, adminVars, pruneVars
<1>1. ASSUME hook' = hook, note' = note, replay' = replay \/ replay' = NoReplay,
             \A d \in Rows : row'[d].state # "none" => row[d].state # "none",
             \A d \in Rows : row'[d].state = "pending" =>
                               row[d].state = "pending" /\ vouch'[d] = vouch[d]
      PROVE  RowsStand' /\ ApproverCovers' /\ ReplayCovered' /\ VouchedExport'
  BY <1>1 DEF RowsStand, ApproverCovers, ReplayCovered, VouchedExport, Here
<1>2. CASE \/ DueWebhookDeliveries \/ EndPass \/ FanOutFails
           \/ Age \/ ChoosePrune \/ Restart \/ UNCHANGED vars
  <2>1. /\ hook' = hook /\ note' = note /\ row' = row /\ vouch' = vouch
        /\ replay' = replay \/ replay' = NoReplay
    BY <1>2 DEF DueWebhookDeliveries, EndPass, FanOutFails, Age, ChoosePrune, Restart, vars
  <2>2. QED
    BY <1>1, <2>1
<1>3. CASE Prune
  <2>1. \A d \in Rows : row'[d] = row[d] \/ row'[d].state = "none"
    BY <1>3 DEF Prune, NoDelivery
  <2>2. QED
    BY <1>1, <1>3, <2>1 DEF Prune
<1>4. ASSUME NEW d \in Rows, AttemptStep(d) \/ BookingFails(d) \/ ComeDue(d)
      PROVE  RowsStand' /\ ApproverCovers' /\ ReplayCovered' /\ VouchedExport'
  <2>1. hook' = hook /\ note' = note /\ replay' = replay
    BY <1>4 DEF AttemptStep, BeginDeliveryAttempt, SkipAttempt, RecordDeliverySuccess,
                RecordDeliveryFailure, DiscardOutcome, BookingFails, ComeDue
  <2>2. CASE SkipAttempt(d) \/ DiscardOutcome(d) \/ BookingFails(d)
    BY <1>1, <2>1, <2>2 DEF SkipAttempt, DiscardOutcome, BookingFails
  <2>3. CASE BeginDeliveryAttempt(d) \/ ComeDue(d)
    <3>1. vouch' = vouch
      BY <2>3 DEF BeginDeliveryAttempt, ComeDue
    <3>2. row \in [Rows -> RowType]
      BY DEF TypeOK
    <3>3. CASE BeginDeliveryAttempt(d)
      <4>1. row' = [row EXCEPT ![d].attempts = @ + 1]
        BY <3>3 DEF BeginDeliveryAttempt
      <4>2. \A x \in Rows : row'[x].state = row[x].state
        BY <3>2, <4>1 DEF RowType
      <4>3. QED
        BY <1>1, <2>1, <3>1, <4>2
    <3>4. CASE ComeDue(d)
      <4>1. row' = [row EXCEPT ![d].due = TRUE]
        BY <3>4 DEF ComeDue
      <4>2. \A x \in Rows : row'[x].state = row[x].state
        BY <3>2, <4>1 DEF RowType
      <4>3. QED
        BY <1>1, <2>1, <3>1, <4>2
    <3>5. QED
      BY <2>3, <3>3, <3>4
  <2>4. ASSUME NEW state \in {"pending", "delivered", "dead"}, Book(d, state), Counts(d)
        PROVE  \A x \in Rows : /\ row'[x].state # "none" => row[x].state # "none"
                               /\ row'[x].state = "pending" =>
                                    row[x].state = "pending" /\ vouch'[x] = vouch[x]
    <3>1. row[d].state = "pending" /\ row'[d].state = state
      BY <2>4 DEF Book, Counts, SameRow, TypeOK
    <3>2. \A x \in Rows : x # d => row'[x] = row[x] /\ vouch'[x] = vouch[x]
      BY <2>4 DEF Book, TypeOK
    <3>3. state = "pending" => vouch' = vouch
      BY <2>4 DEF Book
    <3>4. QED
      BY <3>1, <3>2, <3>3
  <2>5. CASE RecordDeliverySuccess(d)
    BY <1>1, <2>1, <2>4, <2>5 DEF RecordDeliverySuccess
  <2>6. CASE RecordDeliveryFailure(d)
    BY <1>1, <2>1, <2>4, <2>6 DEF RecordDeliveryFailure
  <2>7. QED
    BY <1>4, <2>2, <2>3, <2>5, <2>6 DEF AttemptStep
<1>5. QED
  BY <1>2, <1>3, <1>4

LEMMA AuthorityInit == Init => Authority
<1> SUFFICES ASSUME Init PROVE Authority
  OBVIOUS
<1>1. TypeOK
  BY TypeInit
<1>2. QED
  BY <1>1 DEF Init, Authority, RowsStand, ApproverCovers, ReplayCovered, VouchedExport, Here,
              NoHook, NoDelivery

LEMMA AuthorityNext == Authority /\ [Next]_vars => Authority'
<1> SUFFICES ASSUME Authority, [Next]_vars PROVE Authority'
  OBVIOUS
<1>1. TypeOK'
  BY TypeNext DEF Authority
<1>2. RowsStand' /\ ApproverCovers' /\ ReplayCovered' /\ VouchedExport'
  BY AuthorityAdmin, AuthorityFanOut, AuthorityElse DEF Next, PassStep, FanOutStep
<1>3. QED
  BY <1>1, <1>2 DEF Authority

\* The token that last decided where a waiting body goes covers its type, for
\* any registrations, edits, replays and fan-outs in any order
\* (handleUpdateWebhook's snapshot check and UpdateWebhook's own).
THEOREM ExportsAreVouched == Spec => []VouchedExport
<1>1. Authority => VouchedExport
  BY DEF Authority
<1>2. QED
  BY AuthorityInit, AuthorityNext, <1>1, PTL DEF Spec

-------------------------------------------------------------------------------
(* Promises *)

\* An attempt runs under a generation no younger than its row's, and a row
\* that was rearmed after the attempt began has a younger one.
AttemptsFollow ==
  \A d \in Rows :
    /\ row[d].state # "none" => work[d].gen <= row[d].gen
    /\ note[d[2]] # "notified" => work[d].gen = 0 /\ work[d].stage = "idle"
    /\ work[d].stage = "sending" /\ SameRow(d) => d \notin owed

\* What retention may take is finished.
OldIsFinished == \A d \in old : row[d].state \in {"delivered", "dead"}

Promises == TypeOK /\ RowsStand /\ AttemptsFollow /\ OldIsFinished

\* A row that waits stops waiting only with its webhook, or on an attempt's
\* outcome that is not owed any more.
Keeps(d) ==
  row[d].state = "pending" /\ row'[d].state # "pending"
    => hook'[d[1]].stage = "gone" \/ (d \notin owed /\ row'[d].state # "none")

\* The Admin API's steps keep the promises.
LEMMA PromisesAdmin ==
  ASSUME Promises, AdminStep \/ \E n \in Notes : Land(n)
  PROVE  AttemptsFollow' /\ OldIsFinished' /\ \A d \in Rows : Keeps(d)
<1> USE DEF Promises, AttemptsFollow, OldIsFinished, Keeps, SameRow, loopVars, pruneVars
<1> DEFINE Kept == AttemptsFollow' /\ OldIsFinished' /\ \A d \in Rows : Keeps(d)
<1>0. ASSUME row' = row, work' = work, old' = old, owed' = owed,
             \A n \in Notes : note'[n] = note[n] \/ note[n] # "notified"
      PROVE  Kept
  BY <1>0 DEF Rows
<1>1. ASSUME NEW n \in Notes, Land(n) PROVE Kept
  <2>1. \A m \in Notes : note'[m] = note[m] \/ note[m] # "notified"
    BY <1>1 DEF Land, TypeOK
  <2>2. QED
    BY <1>0, <1>1, <2>1 DEF Land
<1>2. ASSUME NEW w \in Hooks, NEW t \in Tokens, handleCreateWebhook(w, t) PROVE Kept
  BY <1>0, <1>2 DEF handleCreateWebhook
<1>3. ASSUME NEW w \in Hooks, NEW t \in Tokens, NEW change \in Edits[t], CheckEdit(w, t, change)
      PROVE  Kept
  BY <1>0, <1>3 DEF CheckEdit
<1>4. ASSUME NEW t \in Tokens, UpdateWebhook(t) \/ RefuseEdit(t) PROVE Kept
  BY <1>0, <1>4 DEF UpdateWebhook, RefuseEdit
<1>5. ASSUME NEW t \in Tokens, NEW d \in Rows, CheckReplay(t, d) PROVE Kept
  BY <1>0, <1>5 DEF CheckReplay
<1>6. CASE ReplayNothing
  BY <1>0, <1>6 DEF ReplayNothing
<1>7. ASSUME NEW w \in Hooks, DeleteWebhook(w)
      PROVE  AttemptsFollow' /\ OldIsFinished' /\ \A d \in Rows : Keeps(d)
  <2>1. hook'[w].stage = "gone"
    BY <1>7 DEF DeleteWebhook, TypeOK, NoHook
  <2>2. \A d \in Rows : IF d[1] = w THEN row'[d].state = "none" ELSE row'[d] = row[d]
    BY <1>7 DEF DeleteWebhook, NoDelivery
  <2>3. work' = work /\ note' = note /\ owed' \subseteq owed /\ old' = {d \in old : d[1] # w}
    BY <1>7 DEF DeleteWebhook
  <2>4. old \subseteq Rows
    BY DEF TypeOK
  <2>5. QED
    BY <2>1, <2>2, <2>3, <2>4
<1>8. CASE ReplayWebhookDelivery
  <2> DEFINE d == replay.row
  <2>1. d \in Rows /\ row[d] \in RowType /\ row[d].state # "none"
    BY <1>8 DEF ReplayWebhookDelivery, TypeOK, ReplayType
  <2>2. \A x \in Rows : x # d => row'[x] = row[x]
    BY <1>8 DEF ReplayWebhookDelivery, TypeOK
  <2>3. row'[d].state = "pending" /\ row'[d].gen = row[d].gen + 1
    BY <1>8, <2>1 DEF ReplayWebhookDelivery, TypeOK, Rearmed
  <2>4. work' = work /\ note' = note /\ owed' = owed \cup {d} /\ old' = old \ {d}
    BY <1>8 DEF ReplayWebhookDelivery
  <2>5. work[d].gen <= row[d].gen /\ work[d].gen \in Nat /\ row[d].gen \in Nat
    BY <2>1 DEF TypeOK, RowType, WorkType
  <2>6. work[d].gen <= row'[d].gen /\ work[d].gen # row'[d].gen
    BY <2>3, <2>5
  <2>7. old \subseteq Rows
    BY DEF TypeOK
  <2>8. AttemptsFollow'
    BY <2>2, <2>4, <2>6
  <2>9. QED
    BY <2>2, <2>3, <2>4, <2>7, <2>8
<1>9. QED
  BY <1>1, <1>2, <1>3, <1>4, <1>5, <1>6, <1>7, <1>8 DEF AdminStep

\* A fan-out touches no row that stands.
LEMMA PromisesFanOut ==
  ASSUME Promises, NEW kind \in Kinds, FanOut(kind)
  PROVE  AttemptsFollow' /\ OldIsFinished' /\ \A d \in Rows : Keeps(d)
<1> USE DEF Promises, AttemptsFollow, OldIsFinished, Keeps, SameRow, pruneVars
<1>1. PICK batch \in Batches(Flagged(kind), NotifyBatch) :
        \E live \in Admitted(Matches(batch)) : Notify(batch, live)
  BY DEF FanOut
<1>2. PICK live \in Admitted(Matches(batch)) : Notify(batch, live)
  BY <1>1
<1>3. live \subseteq Matches(batch)
  BY DEF Admitted
<1>4. \A d \in Matches(batch) : d \in Rows /\ note[d[2]] = "landed"
  BY DEF Matches, Rows, Batches, Flagged
<1>5. \A d \in Matches(batch) : row[d].state = "none"
  BY <1>4 DEF RowsStand
<1>6. \A d \in Rows : d \notin Matches(batch) => row'[d] = row[d]
  BY <1>2 DEF Notify
<1>7. \A d \in Matches(batch) : row'[d].gen = 0
  BY <1>2, <1>4 DEF Notify
<1>8. \A n \in Notes : note'[n] # "notified" => note'[n] = note[n]
  BY <1>2 DEF Notify
<1>9. work' = work /\ old' = old /\ owed' = owed \cup live
  BY <1>2 DEF FanOut, Notify
<1>10. AttemptsFollow'
  <2> SUFFICES ASSUME NEW d \in Rows
               PROVE  /\ row'[d].state # "none" => work[d].gen <= row'[d].gen
                      /\ note'[d[2]] # "notified" => work[d].gen = 0 /\ work[d].stage = "idle"
                      /\ work[d].stage = "sending" /\ SameRow(d)' => d \notin owed'
    BY <1>9
  <2>1. note'[d[2]] # "notified" => work[d].gen = 0 /\ work[d].stage = "idle"
    BY <1>8 DEF Rows
  <2>2. CASE d \in Matches(batch)
    <3>1. work[d].gen = 0 /\ work[d].stage = "idle"
      BY <1>4, <2>2
    <3>2. QED
      BY <1>7, <2>1, <2>2, <3>1
  <2>3. CASE d \notin Matches(batch)
    BY <1>3, <1>6, <1>9, <2>1, <2>3
  <2>4. QED
    BY <2>2, <2>3
<1>11. old \subseteq Rows
  BY DEF TypeOK
<1>12. OldIsFinished'
  BY <1>5, <1>6, <1>9, <1>11
<1>13. QED
  BY <1>5, <1>6, <1>10, <1>12

\* An attempt settles its row only while nothing newer is owed.
LEMMA PromisesAttempt ==
  ASSUME Promises, NEW d \in Rows, AttemptStep(d) \/ BookingFails(d) \/ ComeDue(d)
  PROVE  AttemptsFollow' /\ OldIsFinished' /\ \A x \in Rows : Keeps(x)
<1> USE DEF Promises, AttemptsFollow, OldIsFinished, Keeps, SameRow, pruneVars
<1>1. /\ note' = note /\ old' = old /\ old \subseteq Rows
      /\ \A x \in Rows : x # d => row'[x] = row[x] /\ work'[x] = work[x]
    BY DEF TypeOK, AttemptStep, BeginDeliveryAttempt, SkipAttempt, RecordDeliverySuccess,
           RecordDeliveryFailure, DiscardOutcome, BookingFails, ComeDue, Done, Book, loopVars
<1>2. row[d] \in RowType /\ work[d] \in WorkType
  BY DEF TypeOK
<1>3. CASE SkipAttempt(d) \/ DiscardOutcome(d) \/ BookingFails(d)
  <2>1. row' = row /\ owed' = owed
    BY <1>3 DEF SkipAttempt, DiscardOutcome, BookingFails
  <2>2. work'[d] = Idle
    BY <1>3 DEF SkipAttempt, DiscardOutcome, BookingFails, Done, TypeOK
  <2>3. row[d].state # "none" => work'[d].gen <= row[d].gen
    BY <1>2, <2>2 DEF Idle, RowType
  <2>4. QED
    BY <1>1, <2>1, <2>2, <2>3 DEF Idle
<1>4. CASE BeginDeliveryAttempt(d)
  <2>1. row[d].state = "pending" /\ work[d].gen = row[d].gen /\ owed' = owed \ {d}
    BY <1>4 DEF BeginDeliveryAttempt
  <2>2. row'[d].state = row[d].state /\ row'[d].gen = row[d].gen
    BY <1>2, <1>4 DEF BeginDeliveryAttempt, TypeOK, RowType
  <2>3. work'[d].gen = work[d].gen
    BY <1>2, <1>4 DEF BeginDeliveryAttempt, TypeOK, WorkType
  <2>4. note[d[2]] = "notified"
    BY <2>1 DEF RowsStand
  <2>5. d \notin old
    BY <2>1
  <2>6. AttemptsFollow'
    BY <1>1, <1>2, <2>1, <2>2, <2>3, <2>4 DEF RowType
  <2>7. QED
    BY <1>1, <2>1, <2>2, <2>5, <2>6
<1>5. CASE RecordDeliverySuccess(d) \/ RecordDeliveryFailure(d)
  <2>1. /\ work[d].stage = "sending" /\ row[d].state = "pending" /\ d \notin owed
        /\ owed' = owed
    BY <1>5 DEF RecordDeliverySuccess, RecordDeliveryFailure, Counts
  <2>2. work'[d] = Idle
    BY <1>5 DEF RecordDeliverySuccess, RecordDeliveryFailure, Done, TypeOK
  <2>3. PICK state \in {"pending", "delivered", "dead"} : Book(d, state)
    BY <1>5 DEF RecordDeliverySuccess, RecordDeliveryFailure
  <2>4. row'[d].state = state /\ row'[d].gen = row[d].gen
    BY <2>3 DEF Book, TypeOK
  <2>5. d \notin old
    BY <2>1
  <2>6. AttemptsFollow'
    BY <1>1, <1>2, <2>1, <2>2, <2>4 DEF Idle, RowType
  <2>7. QED
    BY <1>1, <2>1, <2>4, <2>5, <2>6
<1>6. CASE ComeDue(d)
  <2>1. row'[d].state = row[d].state /\ row'[d].gen = row[d].gen
    BY <1>2, <1>6 DEF ComeDue, TypeOK, RowType
  <2>2. work' = work /\ owed' = owed
    BY <1>6 DEF ComeDue, loopVars
  <2>3. QED
    BY <1>1, <2>1, <2>2
<1>7. QED
  BY <1>3, <1>4, <1>5, <1>6 DEF AttemptStep

\* Nothing else settles a row.
LEMMA PromisesElse ==
  ASSUME Promises,
         \/ DueWebhookDeliveries \/ EndPass \/ FanOutFails
         \/ Age \/ ChoosePrune \/ Prune \/ Restart \/ UNCHANGED vars
  PROVE  AttemptsFollow' /\ OldIsFinished' /\ \A d \in Rows : Keeps(d)
<1> USE DEF Promises, AttemptsFollow, OldIsFinished, Keeps, SameRow, loopVars, pruneVars
<1>0. old \subseteq Rows
  BY DEF TypeOK
<1>1. CASE EndPass \/ FanOutFails \/ ChoosePrune \/ UNCHANGED vars
  BY <1>1 DEF EndPass, FanOutFails, ChoosePrune, vars
<1>2. CASE Age
  BY <1>2 DEF Age, Finished
<1>3. CASE DueWebhookDeliveries
  <2>1. PICK batch \in Batches(Due, DeliverBatch) :
          work' = [d \in Rows |-> IF d \in batch THEN [stage |-> "selected", gen |-> row[d].gen]
                                  ELSE Idle]
    BY <1>3 DEF DueWebhookDeliveries
  <2>2. \A d \in batch : row[d].state = "pending"
    BY DEF Batches, Due
  <2>3. \A d \in batch \cap Rows : note[d[2]] = "notified"
    BY <2>2 DEF RowsStand
  <2>4. \A d \in Rows : row[d].gen \in Nat
    BY DEF TypeOK, RowType
  <2>5. \A d \in Rows : /\ work'[d].stage # "sending"
                        /\ d \in batch => work'[d].gen = row[d].gen
                        /\ d \notin batch => work'[d].gen = 0 /\ work'[d].stage = "idle"
    BY <2>1 DEF Idle
  <2>6. QED
    BY <1>3, <2>3, <2>4, <2>5 DEF DueWebhookDeliveries
<1>4. CASE Restart
  <2>1. \A d \in Rows : row[d].gen \in Nat
    BY DEF TypeOK, RowType
  <2>2. \A d \in Rows : work'[d].gen = 0 /\ work'[d].stage = "idle"
    BY <1>4 DEF Restart, Idle
  <2>3. QED
    BY <1>4, <2>1, <2>2 DEF Restart
<1>5. CASE Prune
  <2>1. \A d \in Rows : IF d \in old /\ d \notin old' THEN row'[d].state = "none"
                        ELSE row'[d] = row[d]
    BY <1>5 DEF Prune, StillEligible, NoDelivery
  <2>2. work' = work /\ note' = note /\ owed' = owed /\ old' \subseteq old
    BY <1>5 DEF Prune
  <2>3. QED
    BY <1>0, <2>1, <2>2
<1>6. QED
  BY <1>1, <1>2, <1>3, <1>4, <1>5

LEMMA PromisesInit == Init => Promises
<1> SUFFICES ASSUME Init PROVE Promises
  OBVIOUS
<1>1. TypeOK
  BY TypeInit
<1>2. QED
  BY <1>1 DEF Init, Promises, RowsStand, AttemptsFollow, OldIsFinished, NoDelivery, Idle, Here

\* A step under the invariants keeps every promise.
LEMMA PromisesStep ==
  Promises /\ [Next]_vars => AttemptsFollow' /\ OldIsFinished' /\ \A d \in Rows : Keeps(d)
<1> SUFFICES ASSUME Promises, [Next]_vars
             PROVE  AttemptsFollow' /\ OldIsFinished' /\ \A d \in Rows : Keeps(d)
  OBVIOUS
<1>1. QED
  BY PromisesAdmin, PromisesFanOut, PromisesAttempt, PromisesElse DEF Next, PassStep, FanOutStep

\* A pending delivery ends only with its webhook or by an attempt that began
\* after it was last created or replayed, and is not swept
\* (BeginDeliveryAttempt, recordOutcome's generation, PruneWebhookDeliveries).
THEOREM PromisesAreKept == Spec => PromiseKept
<1>1. Init => Authority /\ Promises
  BY AuthorityInit, PromisesInit
<1>2. Authority /\ Promises /\ [Next]_vars => Authority' /\ Promises'
  BY AuthorityNext, PromisesStep DEF Authority, Promises
<1>3. Promises /\ [Next]_vars
        => [\A d \in Rows :
              row[d].state = "pending" /\ row'[d].state # "pending"
                => hook'[d[1]].stage = "gone" \/ (d \notin owed /\ row'[d].state # "none")]_vars
  BY PromisesStep DEF Keeps
<1>4. QED
  BY <1>1, <1>2, <1>3, PTL DEF Spec, PromiseKept

-------------------------------------------------------------------------------
(* The schedule *)

\* What is in flight is the attempt its row was last begun for.
Sending(d) == work[d].stage = "sending" /\ SameRow(d)

\* A receiver is called once, once per delay of the schedule, and once more for
\* each replay of the row and for each fault, which may have lost a booking.
Schedule(d) == Retries + row[d].gen + faults
AttemptsCounted ==
  \A d \in Rows :
    /\ row[d].attempts <= Schedule(d) + 1
    /\ row[d].state = "pending" /\ ~Sending(d) => row[d].attempts <= Schedule(d)

\* No attempt outlives its pass (deliverDue waits for its workers).
PassesRest == pass # "attempts" => \A d \in Rows : work[d].stage = "idle"

AttemptsRunOut == \A d \in Rows : row[d].attempts <= Retries + 1 + row[d].gen + faults

\* A row nobody called is within any schedule.
LEMMA UncalledCounts ==
  ASSUME NEW delays \in Nat, NEW losses \in Nat
  PROVE  0 <= delays + 0 + losses /\ 0 <= delays + 0 + losses + 1
OBVIOUS

\* Rows that are not attempted in this step: each is as it was, or new, or
\* gone, or armed again.
LEMMA CountedElsewhere ==
  ASSUME TypeOK, AttemptsCounted, faults' \in Nat, faults <= faults',
         \A d \in Rows :
           \/ row'[d] = row[d] /\ (Sending(d)' \/ ~Sending(d) \/ faults' > faults)
           \/ row'[d].attempts = 0 /\ row'[d].gen = 0
           \/ row'[d] = Rearmed(d)
  PROVE  AttemptsCounted'
<1> SUFFICES ASSUME NEW d \in Rows
             PROVE  /\ row'[d].attempts <= Retries + row'[d].gen + faults' + 1
                    /\ row'[d].state = "pending" /\ ~Sending(d)'
                         => row'[d].attempts <= Retries + row'[d].gen + faults'
  BY DEF AttemptsCounted, Schedule
<1>1. /\ row[d].attempts \in Nat /\ row[d].gen \in Nat /\ faults \in Nat /\ Retries \in Nat
      /\ row[d].attempts <= Retries + row[d].gen + faults + 1
      /\ row[d].state = "pending" /\ ~Sending(d) => row[d].attempts <= Retries + row[d].gen + faults
  BY LimitsAssumption DEF TypeOK, RowType, AttemptsCounted, Schedule
<1>2. CASE row'[d] = row[d] /\ (Sending(d)' \/ ~Sending(d) \/ faults' > faults)
  <2>1. row'[d].attempts <= Retries + row'[d].gen + faults' + 1
    BY <1>1, <1>2
  <2>2. CASE Sending(d)'
    BY <2>1, <2>2
  <2>3. CASE ~Sending(d)
    BY <1>1, <1>2, <2>1, <2>3
  <2>4. CASE faults' > faults
    BY <1>1, <1>2, <2>1, <2>4
  <2>5. QED
    BY <1>2, <2>2, <2>3, <2>4
<1>3. CASE row'[d].attempts = 0 /\ row'[d].gen = 0
  <2>1. 0 <= Retries + 0 + faults' /\ 0 <= Retries + 0 + faults' + 1
    BY <1>1, UncalledCounts
  <2>2. QED
    BY <1>3, <2>1, Zenon
<1>4. CASE row'[d] = Rearmed(d)
  BY <1>1, <1>4 DEF Rearmed
<1>5. QED
  BY <1>2, <1>3, <1>4

LEMMA CountedAttempt ==
  ASSUME TypeOK, AttemptsCounted, NEW d \in Rows, AttemptStep(d) \/ BookingFails(d) \/ ComeDue(d)
  PROVE  AttemptsCounted'
<1>0. /\ row \in [Rows -> RowType] /\ work \in [Rows -> WorkType] /\ faults \in Nat /\ Retries \in Nat
      /\ row[d].attempts \in Nat /\ row[d].gen \in Nat
  BY LimitsAssumption DEF TypeOK, RowType
<1>1. /\ row[d].attempts <= Retries + row[d].gen + faults + 1
      /\ row[d].state = "pending" /\ ~Sending(d) => row[d].attempts <= Retries + row[d].gen + faults
  BY DEF AttemptsCounted, Schedule
<1>2. \A x \in Rows : x # d => row'[x] = row[x] /\ work'[x] = work[x]
  BY <1>0 DEF AttemptStep, BeginDeliveryAttempt, SkipAttempt, RecordDeliverySuccess,
              RecordDeliveryFailure, DiscardOutcome, BookingFails, ComeDue, Done, Book, loopVars
<1>3. ASSUME faults' = faults \/ faults' = faults + 1,
             row'[d].attempts <= Retries + row'[d].gen + faults' + 1,
             row'[d].state = "pending" /\ ~Sending(d)' => row'[d].attempts <= Retries + row'[d].gen + faults'
      PROVE  AttemptsCounted'
  <2>1. ASSUME NEW x \in Rows, x # d
        PROVE  /\ row'[x].attempts <= Retries + row'[x].gen + faults' + 1
               /\ row'[x].state = "pending" /\ ~Sending(x)' => row'[x].attempts <= Retries + row'[x].gen + faults'
    <3>1. row'[x] = row[x] /\ (Sending(x)' <=> Sending(x))
      BY <1>2, <2>1 DEF Sending, SameRow
    <3>2. /\ row[x].attempts <= Retries + row[x].gen + faults + 1
          /\ row[x].state = "pending" /\ ~Sending(x) => row[x].attempts <= Retries + row[x].gen + faults
          /\ row[x].attempts \in Nat /\ row[x].gen \in Nat
      BY <1>0, <2>1 DEF AttemptsCounted, Schedule, RowType
    <3>3. QED
      BY <1>0, <1>3, <3>1, <3>2
  <2>2. QED
    BY <1>3, <2>1 DEF AttemptsCounted, Schedule
<1>4. CASE BeginDeliveryAttempt(d)
  <2>1. /\ row[d].state = "pending" /\ work[d].gen = row[d].gen /\ ~Sending(d) /\ faults' = faults
    BY <1>4 DEF BeginDeliveryAttempt, SameRow, Sending
  <2>2. /\ row'[d].attempts = row[d].attempts + 1 /\ row'[d].gen = row[d].gen
        /\ row'[d].state = "pending"
    BY <1>0, <1>4, <2>1 DEF BeginDeliveryAttempt, RowType
  <2>3. work'[d].stage = "sending" /\ work'[d].gen = work[d].gen
    BY <1>0, <1>4 DEF BeginDeliveryAttempt, WorkType
  <2>4. Sending(d)'
    BY <2>1, <2>2, <2>3 DEF Sending, SameRow
  <2>5. QED
    BY <1>0, <1>1, <1>3, <2>1, <2>2, <2>4
<1>5. CASE RecordDeliverySuccess(d)
  <2>1. row'[d].attempts = row[d].attempts /\ row'[d].gen = row[d].gen /\ row'[d].state = "delivered"
        /\ faults' = faults
    BY <1>0, <1>5 DEF RecordDeliverySuccess, Book
  <2>2. QED
    BY <1>0, <1>1, <1>3, <2>1
<1>6. CASE RecordDeliveryFailure(d)
  <2>1. /\ row'[d].attempts = row[d].attempts /\ row'[d].gen = row[d].gen /\ faults' = faults
        /\ row'[d].state = "pending" => ~(row[d].attempts > Retries)
    BY <1>0, <1>6 DEF RecordDeliveryFailure, Book, Exhausted
  <2>2. QED
    BY <1>0, <1>1, <1>3, <2>1
<1>7. CASE SkipAttempt(d) \/ DiscardOutcome(d)
  <2>1. row'[d] = row[d] /\ faults' = faults /\ ~Sending(d)
    BY <1>7 DEF SkipAttempt, DiscardOutcome, Counts, Sending, SameRow
  <2>2. QED
    BY <1>0, <1>1, <1>3, <2>1
<1>8. CASE BookingFails(d)
  <2>1. row'[d] = row[d] /\ faults' = faults + 1
    BY <1>8 DEF BookingFails, Fault
  <2>2. QED
    BY <1>0, <1>1, <1>3, <2>1
<1>9. CASE ComeDue(d)
  <2>1. /\ row'[d].attempts = row[d].attempts /\ row'[d].gen = row[d].gen /\ row'[d].state = row[d].state
        /\ work' = work /\ faults' = faults
    BY <1>0, <1>9 DEF ComeDue, RowType, loopVars
  <2>2. Sending(d)' <=> Sending(d)
    BY <2>1 DEF Sending, SameRow
  <2>3. QED
    BY <1>0, <1>1, <1>3, <2>1, <2>2
<1>10. QED
  BY <1>4, <1>5, <1>6, <1>7, <1>8, <1>9 DEF AttemptStep

LEMMA CountedElse ==
  ASSUME TypeOK, AttemptsCounted, PassesRest, [Next]_vars,
         ~\E d \in Rows : AttemptStep(d) \/ BookingFails(d) \/ ComeDue(d)
  PROVE  AttemptsCounted'
<1>0. row \in [Rows -> RowType] /\ faults \in Nat
  BY DEF TypeOK
<1>1. ASSUME row' = row, work' = work, faults' = faults PROVE AttemptsCounted'
  BY <1>1 DEF AttemptsCounted, Schedule, Sending, SameRow
<1>2. CASE UNCHANGED vars \/ \E n \in Notes : Land(n)
  BY <1>1, <1>2 DEF vars, Land, loopVars
<1>3. ASSUME NEW w \in Hooks, DeleteWebhook(w) PROVE AttemptsCounted'
  <2>1. \A d \in Rows : row'[d] = row[d] \/ row'[d] = NoDelivery
    BY <1>3 DEF DeleteWebhook
  <2>2. work' = work /\ faults' = faults
    BY <1>3 DEF DeleteWebhook, loopVars
  <2>3. \A d \in Rows : row'[d] = row[d] => (Sending(d)' <=> Sending(d))
    BY <2>2 DEF Sending, SameRow
  <2>4. QED
    BY <1>0, <2>1, <2>2, <2>3, CountedElsewhere DEF NoDelivery
<1>4. ASSUME NEW t \in Tokens,
             \/ \E w \in Hooks : handleCreateWebhook(w, t)
             \/ \E w \in Hooks, change \in Edits[t] : CheckEdit(w, t, change)
             \/ UpdateWebhook(t) \/ RefuseEdit(t) \/ \E d \in Rows : CheckReplay(t, d)
      PROVE  AttemptsCounted'
  BY <1>1, <1>4 DEF handleCreateWebhook, CheckEdit, UpdateWebhook, RefuseEdit, CheckReplay, loopVars
<1>5. CASE ReplayWebhookDelivery
  <2>1. row' = [row EXCEPT ![replay.row] = Rearmed(replay.row)]
    BY <1>5 DEF ReplayWebhookDelivery
  <2>2. \A d \in Rows : row'[d] = row[d] \/ row'[d] = Rearmed(d)
    BY <1>0, <2>1
  <2>3. work' = work /\ faults' = faults
    BY <1>5 DEF ReplayWebhookDelivery, loopVars
  <2>4. \A d \in Rows : row'[d] = row[d] => (Sending(d)' <=> Sending(d))
    BY <2>3 DEF Sending, SameRow
  <2>5. QED
    BY <1>0, <2>2, <2>3, <2>4, CountedElsewhere
<1>6. CASE ReplayNothing \/ EndPass \/ Age \/ ChoosePrune \/ FanOutFails
  <2>1. row' = row /\ work' = work /\ (faults' = faults \/ faults' = faults + 1)
    BY <1>6 DEF ReplayNothing, EndPass, Age, ChoosePrune, FanOutFails, Fault, loopVars
  <2>2. \A d \in Rows : Sending(d)' <=> Sending(d)
    BY <2>1 DEF Sending, SameRow
  <2>3. QED
    BY <1>0, <2>1, <2>2, CountedElsewhere
<1>7. ASSUME NEW kind \in Kinds, FanOut(kind) PROVE AttemptsCounted'
  <2>0. PICK batch \in Batches(Flagged(kind), NotifyBatch) :
          \E live \in Admitted(Matches(batch)) : Notify(batch, live)
    BY <1>7 DEF FanOut
  <2>1. PICK live \in Admitted(Matches(batch)) :
          row' = [d \in Rows |->
               IF d \notin Matches(batch) THEN row[d]
               ELSE [state |-> IF d \in live THEN "pending" ELSE "dead",
                     gen |-> 0, attempts |-> 0, due |-> d \in live]]
    BY <2>0 DEF Notify
  <2>2. \A d \in Rows : row'[d] = row[d] \/ (row'[d].attempts = 0 /\ row'[d].gen = 0)
    BY <2>1
  <2>3. work' = work /\ faults' = faults
    BY <1>7 DEF FanOut
  <2>4. \A d \in Rows : row'[d] = row[d] => (Sending(d)' <=> Sending(d))
    BY <2>3 DEF Sending, SameRow
  <2>5. QED
    BY <1>0, <2>2, <2>3, <2>4, CountedElsewhere
<1>8. CASE Prune
  <2>1. \A d \in Rows : row'[d] = row[d] \/ row'[d] = NoDelivery
    BY <1>8 DEF Prune
  <2>2. work' = work /\ faults' = faults
    BY <1>8 DEF Prune, loopVars
  <2>3. \A d \in Rows : row'[d] = row[d] => (Sending(d)' <=> Sending(d))
    BY <2>2 DEF Sending, SameRow
  <2>4. QED
    BY <1>0, <2>1, <2>2, <2>3, CountedElsewhere DEF NoDelivery
<1>9. CASE Restart
  BY <1>0, <1>9, CountedElsewhere DEF Restart, Fault
<1>10. CASE DueWebhookDeliveries
  <2>1. row' = row /\ faults' = faults
    BY <1>10 DEF DueWebhookDeliveries
  <2>2. \A d \in Rows : ~Sending(d)
    BY <1>10 DEF DueWebhookDeliveries, PassesRest, Sending
  <2>3. QED
    BY <1>0, <2>1, <2>2, CountedElsewhere
<1>11. QED
  BY <1>2, <1>3, <1>4, <1>5, <1>6, <1>7, <1>8, <1>9, <1>10 DEF Next, AdminStep, PassStep, FanOutStep

LEMMA PassesRestNext ==
  ASSUME TypeOK, PassesRest, [Next]_vars
  PROVE  PassesRest'
<1> USE DEF PassesRest
<1>0. work \in [Rows -> WorkType]
  BY DEF TypeOK
<1>1. ASSUME UNCHANGED loopVars PROVE PassesRest'
  BY <1>1 DEF loopVars
<1>2. CASE AdminStep \/ \E n \in Notes : Land(n)
  BY <1>1, <1>2 DEF AdminStep, DeleteWebhook, handleCreateWebhook, CheckEdit, UpdateWebhook,
                    RefuseEdit, CheckReplay, ReplayWebhookDelivery, ReplayNothing, Land
<1>3. CASE Age \/ ChoosePrune \/ Prune \/ \E d \in Rows : ComeDue(d)
  BY <1>1, <1>3 DEF Age, ChoosePrune, Prune, ComeDue
<1>4. ASSUME NEW kind \in Kinds, FanOut(kind) PROVE PassesRest'
  <2>1. pass # "attempts" /\ work' = work
    BY <1>4 DEF FanOut, Kinds
  <2>2. QED
    BY <2>1
<1>5. CASE FanOutFails \/ EndPass
  <2>1. (\A d \in Rows : work[d].stage = "idle") /\ work' = work
    BY <1>5 DEF FanOutFails, EndPass, Kinds
  <2>2. QED
    BY <2>1
<1>6. CASE DueWebhookDeliveries
  BY <1>6 DEF DueWebhookDeliveries
<1>7. CASE Restart
  BY <1>7 DEF Restart, Idle
<1>8. ASSUME NEW d \in Rows, AttemptStep(d) \/ BookingFails(d) PROVE PassesRest'
  <2>1. pass' = pass /\ work[d].stage # "idle"
    BY <1>8 DEF AttemptStep, BeginDeliveryAttempt, SkipAttempt, RecordDeliverySuccess,
                RecordDeliveryFailure, DiscardOutcome, BookingFails
  <2>2. QED
    BY <2>1
<1>9. CASE UNCHANGED vars
  BY <1>1, <1>9 DEF vars
<1>10. QED
  BY <1>2, <1>3, <1>4, <1>5, <1>6, <1>7, <1>8, <1>9 DEF Next, PassStep, FanOutStep

\* A receiver is called once for a delivery and once per delay of the schedule,
\* plus one for each replay of it and each fault that may have lost a booking
\* (BeginDeliveryAttempt, RecordDeliveryFailure): no race of an outcome, a
\* replay, a restart and a lost booking makes the dispatcher call without end.
THEOREM CallsRunOut == Spec => []AttemptsRunOut
<1>1. Init => AttemptsCounted /\ PassesRest
  BY LimitsAssumption DEF Init, AttemptsCounted, Schedule, PassesRest, NoDelivery, Idle
<1>2. TypeOK /\ AttemptsCounted /\ PassesRest /\ [Next]_vars => AttemptsCounted' /\ PassesRest'
  <2> SUFFICES ASSUME TypeOK, AttemptsCounted, PassesRest, [Next]_vars
               PROVE  AttemptsCounted'
    BY PassesRestNext
  <2>1. CASE \E d \in Rows : AttemptStep(d) \/ BookingFails(d) \/ ComeDue(d)
    <3>1. PICK d \in Rows : AttemptStep(d) \/ BookingFails(d) \/ ComeDue(d)
      BY <2>1
    <3>2. QED
      BY <3>1, CountedAttempt
  <2>2. CASE ~\E d \in Rows : AttemptStep(d) \/ BookingFails(d) \/ ComeDue(d)
    BY <2>2, CountedElse
  <2>3. QED
    BY <2>1, <2>2
<1>3. TypeOK /\ AttemptsCounted => AttemptsRunOut
  BY LimitsAssumption DEF TypeOK, RowType, AttemptsCounted, AttemptsRunOut, Schedule
<1>4. QED
  BY <1>1, <1>2, <1>3, TypeCorrect, PTL DEF Spec
===============================================================================
