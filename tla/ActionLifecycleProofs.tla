------------------------- MODULE ActionLifecycleProofs -------------------------
(***************************************************************************)
(* Proofs about ActionLifecycle, for any requests, codes, manifests and    *)
(* limits.                                                                 *)
(***************************************************************************)
EXTENDS ActionLifecycle, TLAPS

\* An action is never called like a refusal.
LEMMA NamesDiffer ==
  /\ Requests \cap Refusals = {} /\ Unanswered \notin Requests
  /\ Unanswered \notin Refusals
BY RequestsAssumption DEF Refusals, Unanswered

-------------------------------------------------------------------------------
(* Type correctness *)

\* The steps of a handler keep the types.
LEMMA TypeHandle ==
  ASSUME TypeOK, NEW r \in Requests, Handle(r)
  PROVE  TypeOK'
<1> USE DEF TypeOK, Answer, GoTo, Stations, Refusals, Open, Terminal, Outcomes,
            requestVars, actionVars, pluginVars
<1>1. CASE LookUp(r)
  BY <1>1 DEF LookUp
<1>2. CASE Replay(r)
  <2>1. PICK a \in Bound : Answer(r, Original(r, a))
    BY <1>2 DEF Replay
  <2>2. a \in Requests
    BY RequestsAssumption DEF Bound
  <2>3. QED
    BY <1>2, <2>1, <2>2 DEF Replay, Original
<1>3. CASE Validate(r)
  BY <1>3 DEF Validate
<1>4. CASE ManifestChanged(r)
  <2>1. tries[r] < Attempts => tries[r] + 1 \in 1..Attempts
    BY LimitsAssumption
  <2>2. QED
    BY <1>4, <2>1 DEF ManifestChanged, MayTryAgain
<1>5. CASE LoseRace(r)
  BY <1>5 DEF LoseRace
<1>6. CASE QueueFull(r)
  BY <1>6 DEF QueueFull, RolledBack
<1>7. CASE DispatchAction(r)
  BY <1>7 DEF DispatchAction
<1>8. CASE Respond(r)
  BY <1>8 DEF Respond, Expired
<1>9. QED
  BY <1>1, <1>2, <1>3, <1>4, <1>5, <1>6, <1>7, <1>8 DEF Handle

\* The steps that move one action keep the types.
LEMMA TypeMove ==
  ASSUME TypeOK, NEW a \in Requests, Move(a)
  PROVE  TypeOK'
<1> USE DEF TypeOK, Open, Terminal, Outcomes, requestVars, actionVars, pluginVars
<1>1. CASE ReadAction(a)
  BY <1>1 DEF ReadAction, Expired
<1>2. CASE PassDeadline(a)
  BY <1>2 DEF PassDeadline
<1>3. CASE Number(a)
  BY <1>3 DEF Number
<1>4. CASE MarkDelivered(a)
  BY <1>4 DEF MarkDelivered
<1>5. CASE ApplyActionAck(a)
  BY <1>5 DEF ApplyActionAck, Receipt
<1>6. ASSUME NEW outcome \in Outcomes, ApplyActionResult(a, outcome) PROVE TypeOK'
  BY <1>6 DEF ApplyActionResult, Receipt
<1>7. ASSUME NEW outcome \in Outcomes, AppendResult(a, outcome) PROVE TypeOK'
  BY <1>7 DEF AppendResult
<1>8. CASE HandleDispatch(a)
  BY <1>8 DEF HandleDispatch
<1>9. QED
  BY <1>1, <1>2, <1>3, <1>4, <1>5, <1>6, <1>7, <1>8 DEF Move

\* Every variable keeps its type.
THEOREM ActionTypes == Spec => []TypeOK
<1>1. Init => TypeOK
  <2>1. 1 \in 1..Attempts /\ 0 \in 0..LastRevision /\ 0 \in 0..MaxFaults
    BY LimitsAssumption
  <2>2. QED
    BY <2>1 DEF Init, TypeOK, Stations, Outcomes
<1>2. TypeOK /\ [Next]_vars => TypeOK'
  <2> SUFFICES ASSUME TypeOK, [Next]_vars PROVE TypeOK'
    OBVIOUS
  <2>1. ASSUME NEW r \in Requests, Handle(r) \/ Move(r) PROVE TypeOK'
    BY <2>1, TypeHandle, TypeMove
  <2>2. ASSUME NEW rev \in Revisions, ApplyManifest(rev) PROVE TypeOK'
    BY <2>2, LimitsAssumption
       DEF TypeOK, ApplyManifest, Revisions, requestVars, actionVars, pluginVars
  <2>3. CASE ExpireActions
    BY <2>3 DEF TypeOK, ExpireActions, Terminal, requestVars, pluginVars
  <2>4. CASE OtherTraffic
    BY <2>4 DEF TypeOK, OtherTraffic, requestVars, pluginVars
  <2>5. ASSUME Fault PROVE faults' \in 0..MaxFaults
    BY <2>5, LimitsAssumption DEF TypeOK, Fault
  <2>6. CASE HubRestart
    BY <2>6, <2>5 DEF TypeOK, HubRestart, Stations, actionVars, pluginVars
  <2>7. CASE PluginRestart
    BY <2>7, <2>5 DEF TypeOK, PluginRestart, requestVars, actionVars
  <2>8. CASE UNCHANGED vars
    BY <2>8 DEF TypeOK, vars, requestVars, actionVars, pluginVars
  <2>9. QED
    BY <2>1, <2>2, <2>3, <2>4, <2>6, <2>7, <2>8 DEF Next
<1>3. QED
  BY <1>1, <1>2, PTL DEF Spec

-------------------------------------------------------------------------------
(* The inductive invariant *)

\* A step that leaves the requests alone and neither stores an action nor
\* forgets one keeps what the handlers know.
LEMMA HandlersKept ==
  ASSUME TypeOK, Inductive, UNCHANGED requestVars,
         state' \in [Requests -> {"none"} \cup Open \cup Terminal],
         \A r \in Requests : state[r] = "none" <=> state'[r] = "none",
         \A r \in Requests : state[r] = "none" => row'[r] = row[r]
  PROVE  OneActionPerKey' /\ AnswersHold' /\ HandlersKnow'
<1>1. Bound' = Bound
  BY RequestsAssumption DEF Bound
<1>2. OneActionPerKey'
  BY <1>1 DEF Inductive, OneActionPerKey, requestVars
<1>3. AnswersHold'
  BY DEF Inductive, AnswersHold, requestVars
<1>4. HandlersKnow'
  BY <1>1 DEF Inductive, HandlersKnow, requestVars
<1>5. QED
  BY <1>2, <1>3, <1>4

\* A handler that stores nothing and answers nothing.
LEMMA InductiveAsk ==
  ASSUME TypeOK, Inductive, NEW r \in Requests,
         LookUp(r) \/ Validate(r) \/ ManifestChanged(r) \/ LoseRace(r)
  PROVE  Inductive'
<1>1. UNCHANGED <<actionVars, pluginVars>>
  BY DEF LookUp, Validate, ManifestChanged, LoseRace
<1>2. RunsWereDelivered' /\ RecordsAgree' /\ Bound' = Bound
  BY <1>1 DEF Inductive, RunsWereDelivered, RecordsAgree, Bound, actionVars, pluginVars
<1>3. state[r] = "none" /\ row[r] = "none"
  BY DEF Inductive, HandlersKnow, RecordsAgree, LookUp, Validate, ManifestChanged, LoseRace
<1>4. \/ at'[r] \in {"bound", "validate", "insert"} /\ answer' = answer
      \/ at'[r] = "done" /\ answer'[r] \in Refusals
  BY DEF LookUp, Validate, ManifestChanged, LoseRace, GoTo, Answer, TypeOK, Refusals
<1>5. \A q \in Requests : q # r => at'[q] = at[q] /\ answer'[q] = answer[q]
                                     /\ seen'[q] = seen[q]
  BY DEF LookUp, Validate, ManifestChanged, LoseRace, GoTo, Answer, TypeOK
<1>6. at'[r] = "bound" => r \in Keyed /\ Bound # {}
  BY DEF LookUp, Validate, ManifestChanged, LoseRace, GoTo, Answer, TypeOK
<1>7. at'[r] = "insert" => seen'[r] # 0 /\ Code[r] \in Declares[seen'[r]]
  BY DEF LookUp, Validate, ManifestChanged, LoseRace, GoTo, Answer, TypeOK
<1>8. at[r] # "done" /\ answer[r] = Unanswered
  BY DEF Inductive, HandlersKnow, LookUp, Validate, ManifestChanged, LoseRace
<1>9. OneActionPerKey'
  <2>1. \A q \in Keyed : answer'[q] \in Requests => answer'[q] = answer[q]
    BY <1>4, <1>5, NamesDiffer, RequestsAssumption
  <2>2. QED
    BY <1>2, <2>1 DEF Inductive, OneActionPerKey
<1>10. AnswersHold'
  BY <1>1, <1>3, <1>4, <1>5, NamesDiffer DEF Inductive, AnswersHold, actionVars
<1>11. HandlersKnow'
  BY <1>1, <1>2, <1>3, <1>4, <1>5, <1>6, <1>7, <1>8
     DEF Inductive, HandlersKnow, actionVars
<1>12. QED
  BY <1>2, <1>9, <1>10, <1>11 DEF Inductive

\* A handler that answers.
LEMMA InductiveAnswer ==
  ASSUME TypeOK, Inductive, NEW r \in Requests,
         Replay(r) \/ QueueFull(r) \/ Respond(r)
  PROVE  Inductive'
<1>1. UNCHANGED <<seen, delivered, started, overdue, row, pluginVars>>
  BY DEF Replay, QueueFull, Respond, actionVars
<1>2. /\ \A q \in Requests : state'[q] = state[q]
                              \/ (state[q] \in Open /\ state'[q] = "expired")
      /\ state' \in [Requests -> {"none"} \cup Open \cup Terminal]
  BY DEF Replay, QueueFull, RolledBack, Respond, Expired, actionVars, TypeOK, Terminal
<1>3. Bound' = Bound
  BY <1>2, RequestsAssumption DEF Bound, Open
<1>4. at'[r] = "done" /\ \A q \in Requests : q # r => at'[q] = at[q] /\ answer'[q] = answer[q]
  BY DEF Replay, QueueFull, Respond, Answer, TypeOK
<1>5. \/ answer'[r] \in Bound /\ r \in Keyed /\ Code[answer'[r]] \in Grants[r]
      \/ answer'[r] \in Refusals /\ state[r] = "none"
      \/ answer'[r] = r /\ state[r] # "none"
  <2>1. CASE Replay(r)
    BY <2>1 DEF Replay, Original, Answer, TypeOK, Inductive, HandlersKnow, Refusals
  <2>2. CASE QueueFull(r)
    BY <2>2 DEF QueueFull, Inserts, Answer, TypeOK, Inductive, HandlersKnow, Refusals
  <2>3. CASE Respond(r)
    BY <2>3 DEF Respond, Answer, TypeOK, Inductive, HandlersKnow
  <2>4. QED
    BY <2>1, <2>2, <2>3
<1>6. OneActionPerKey'
  <2>1. \A q \in Keyed : q # r => answer'[q] = answer[q]
    BY <1>4, RequestsAssumption
  <2>2. r \in Keyed /\ answer'[r] \in Requests => answer'[r] \in Bound
    BY <1>5, NamesDiffer DEF Bound
  <2>3. \A q \in Keyed : answer'[q] \in Requests => answer'[q] \in Bound
    BY <2>1, <2>2 DEF Inductive, OneActionPerKey
  <2>4. QED
    BY <1>3, <2>3 DEF Inductive, OneActionPerKey
<1>7. AnswersHold'
  <2>1. \A q \in Requests : state'[q] = "none" <=> state[q] = "none"
    BY <1>2 DEF Open
  <2>2. \A q \in Requests : state[q] = "none" => row[q] = "none"
    BY DEF Inductive, RecordsAgree
  <2>3. \A q \in Bound : q \in Requests /\ state[q] # "none"
    BY RequestsAssumption DEF Bound
  <2>4. \A q \in Requests : q # r =>
          /\ answer[q] \in Requests =>
               state[answer[q]] # "none" /\ Code[answer[q]] \in Grants[q]
          /\ answer[q] \in Refusals => state[q] = "none" /\ row[q] = "none"
    BY DEF Inductive, AnswersHold
  <2>5. \A q \in Requests :
          /\ answer'[q] \in Requests =>
               state[answer'[q]] # "none" /\ Code[answer'[q]] \in Grants[q]
          /\ answer'[q] \in Refusals => state[q] = "none" /\ row[q] = "none"
    BY <1>4, <1>5, <2>2, <2>3, <2>4, NamesDiffer, RequestsAssumption
  <2>6. QED
    BY <2>1, <2>5, <1>1 DEF AnswersHold
<1>8. HandlersKnow'
  BY <1>1, <1>2, <1>3, <1>4 DEF Inductive, HandlersKnow, Open
<1>9. RunsWereDelivered' /\ RecordsAgree'
  BY <1>1, <1>2 DEF Inductive, RunsWereDelivered, RecordsAgree, Open, Outcomes, pluginVars
<1>10. QED
  BY <1>6, <1>7, <1>8, <1>9 DEF Inductive

\* The transaction that stores an action.
LEMMA InductiveStore ==
  ASSUME TypeOK, Inductive, NEW r \in Requests, DispatchAction(r)
  PROVE  Inductive'
<1>1. /\ at[r] = "insert" /\ state[r] = "none" /\ answer[r] = Unanswered
      /\ (r \in Keyed => Bound = {})
  BY DEF DispatchAction, Inserts, Inductive, HandlersKnow
<1>2. /\ state'[r] = "queued" /\ at'[r] = "stored"
      /\ \A q \in Requests : q # r => state'[q] = state[q] /\ at'[q] = at[q] /\ row'[q] = row[q]
      /\ UNCHANGED <<seen, answer, delivered, started, overdue, pluginVars>>
  BY DEF DispatchAction, GoTo, TypeOK
<1>3. Bound' = IF r \in Keyed THEN {r} ELSE Bound
  BY <1>1, <1>2, RequestsAssumption DEF Bound
<1>4. OneActionPerKey'
  <2>1. \A q \in Keyed : q \in Requests /\ (answer[q] \in Requests => answer[q] \in Bound)
    BY RequestsAssumption DEF Inductive, OneActionPerKey
  <2>2. QED
    BY <1>1, <1>2, <1>3, <2>1 DEF Inductive, OneActionPerKey
<1>5. AnswersHold'
  BY <1>1, <1>2, NamesDiffer DEF Inductive, AnswersHold
<1>6. HandlersKnow'
  BY <1>1, <1>2, <1>3 DEF Inductive, HandlersKnow
<1>7. RunsWereDelivered' /\ RecordsAgree'
  BY <1>1, <1>2 DEF Inductive, RunsWereDelivered, RecordsAgree, Outcomes, pluginVars
<1>8. QED
  BY <1>4, <1>5, <1>6, <1>7 DEF Inductive

\* Only the storing transaction makes an action.
LEMMA MoveMakesNone ==
  ASSUME TypeOK, NEW a \in Requests, Move(a)
  PROVE  \A r \in Requests : state[r] = "none" <=> state'[r] = "none"
<1>1. CASE ReadAction(a) \/ PassDeadline(a) \/ Number(a) \/ MarkDelivered(a)
  BY <1>1 DEF ReadAction, Expired, PassDeadline, Number, MarkDelivered, TypeOK, Open,
              actionVars
<1>2. CASE ApplyActionAck(a) \/ HandleDispatch(a)
  BY <1>2 DEF ApplyActionAck, Startable, OpenInTransit, HandleDispatch, TypeOK, actionVars
<1>3. ASSUME NEW outcome \in Outcomes,
             ApplyActionResult(a, outcome) \/ AppendResult(a, outcome)
      PROVE  \A r \in Requests : state[r] = "none" <=> state'[r] = "none"
  BY <1>3 DEF ApplyActionResult, AppendResult, TypeOK, Open, Outcomes, actionVars
<1>4. QED
  BY <1>1, <1>2, <1>3 DEF Move

\* The steps that move one action.
LEMMA InductiveMove ==
  ASSUME TypeOK, Inductive, NEW a \in Requests, Move(a)
  PROVE  Inductive'
<1>1. TypeOK' /\ UNCHANGED requestVars
  BY TypeMove
     DEF Move, ReadAction, PassDeadline, Number, MarkDelivered, ApplyActionAck,
         ApplyActionResult, AppendResult, HandleDispatch
<1>2. \A r \in Requests : state[r] = "none" <=> state'[r] = "none"
  BY MoveMakesNone
<1>3. \A r \in Requests : state[r] = "none" => row[r] = "none" /\ r \notin overdue
  BY DEF Inductive, RecordsAgree
<1>4. \A r \in Requests : row[r] = "none" => row'[r] = row[r]
  BY DEF Move, ReadAction, PassDeadline, Number, MarkDelivered, ApplyActionAck,
         ApplyActionResult, AppendResult, HandleDispatch, TypeOK, actionVars
<1>5. OneActionPerKey' /\ AnswersHold' /\ HandlersKnow'
  BY <1>1, <1>2, <1>3, <1>4, HandlersKept DEF TypeOK
<1>6. \A r \in Requests : state[r] = "none" => r \notin overdue'
  <2>1. CASE PassDeadline(a)
    BY <2>1, <1>3 DEF PassDeadline, TypeOK
  <2>2. CASE ~PassDeadline(a)
    BY <2>2, <1>3 DEF Move, ReadAction, Number, MarkDelivered, ApplyActionAck,
                      ApplyActionResult, AppendResult, HandleDispatch, actionVars
  <2>3. QED
    BY <2>1, <2>2
<1>7. RunsWereDelivered' /\ RecordsAgree'
  <2> USE DEF Inductive, RunsWereDelivered, RecordsAgree
  <2>1. CASE ReadAction(a)
    <3>1. \A r \in Requests : state'[r] = state[r] \/ state'[r] = "expired"
      BY <2>1 DEF ReadAction, Expired, TypeOK
    <3>2. UNCHANGED <<started, delivered, row, overdue, pluginVars>>
      BY <2>1 DEF ReadAction
    <3>3. QED
      BY <1>2, <3>1, <3>2 DEF pluginVars, Outcomes
  <2>2. CASE PassDeadline(a)
    BY <2>2, <1>2, <1>6 DEF PassDeadline, pluginVars, TypeOK
  <2>3. CASE Number(a)
    BY <2>3, <1>2, <1>4, <1>6 DEF Number, pluginVars, TypeOK
  <2>4. CASE MarkDelivered(a)
    BY <2>4, <1>2, <1>4 DEF MarkDelivered, pluginVars, TypeOK, Outcomes
  <2>5. CASE ApplyActionAck(a)
    BY <2>5, <1>2 DEF ApplyActionAck, Receipt, pluginVars, TypeOK, Outcomes
  <2>6. ASSUME NEW outcome \in Outcomes, ApplyActionResult(a, outcome)
        PROVE  RunsWereDelivered' /\ RecordsAgree'
    BY <2>6, <1>2 DEF ApplyActionResult, Receipt, pluginVars, TypeOK, Outcomes
  <2>7. ASSUME NEW outcome \in Outcomes, AppendResult(a, outcome)
        PROVE  RunsWereDelivered' /\ RecordsAgree'
    BY <2>7 DEF AppendResult, actionVars, TypeOK
  <2>8. CASE HandleDispatch(a)
    BY <2>8 DEF HandleDispatch, actionVars, TypeOK
  <2>9. QED
    BY <2>1, <2>2, <2>3, <2>4, <2>5, <2>6, <2>7, <2>8 DEF Move
<1>8. QED
  BY <1>5, <1>7 DEF Inductive

\* The steps of the manifest, the sweep, the other traffic and the restarts.
LEMMA InductiveRest ==
  ASSUME TypeOK, Inductive,
         \/ \E rev \in Revisions : ApplyManifest(rev)
         \/ ExpireActions \/ OtherTraffic \/ HubRestart \/ PluginRestart
         \/ UNCHANGED vars
  PROVE  Inductive'
<1>1. CASE ExpireActions
  <2>1. \A a \in Requests : state'[a] = state[a] \/ (state[a] \in Open /\ state'[a] = "expired")
    BY <1>1 DEF ExpireActions, Sweepable
  <2>2. state' \in [Requests -> {"none"} \cup Open \cup Terminal]
    BY <1>1 DEF ExpireActions, TypeOK, Terminal
  <2>3. \A a \in Requests : state[a] = "none" => row'[a] = row[a]
    BY <1>1 DEF ExpireActions, TypeOK
  <2>4. OneActionPerKey' /\ AnswersHold' /\ HandlersKnow'
    <3>1. UNCHANGED requestVars
      BY <1>1 DEF ExpireActions
    <3>2. \A r \in Requests : state[r] = "none" <=> state'[r] = "none"
      BY <2>1 DEF Open
    <3>3. QED
      BY <3>1, <3>2, <2>2, <2>3, HandlersKept
  <2>5. RunsWereDelivered' /\ RecordsAgree'
    BY <1>1, <2>1, <2>3
       DEF Inductive, RunsWereDelivered, RecordsAgree, ExpireActions, Open, Outcomes, pluginVars
  <2>6. QED
    BY <2>4, <2>5 DEF Inductive
<1>2. CASE HubRestart
  <2>1. /\ UNCHANGED <<seen, answer, actionVars, pluginVars>>
        /\ \A r \in Requests : at'[r] = at[r] \/ (at[r] # "done" /\ at'[r] = "lost")
    BY <1>2 DEF HubRestart
  <2>2. Bound' = Bound
    BY <2>1 DEF Bound, actionVars
  <2>3. OneActionPerKey' /\ AnswersHold' /\ HandlersKnow'
    BY <2>1, <2>2 DEF Inductive, OneActionPerKey, AnswersHold, HandlersKnow, actionVars
  <2>4. RunsWereDelivered' /\ RecordsAgree'
    BY <2>1 DEF Inductive, RunsWereDelivered, RecordsAgree, actionVars, pluginVars
  <2>5. QED
    BY <2>3, <2>4 DEF Inductive
<1>3. CASE PluginRestart
  <2>1. UNCHANGED <<requestVars, actionVars, taken, told>> /\ working' = {}
    BY <1>3 DEF PluginRestart
  <2>2. OneActionPerKey' /\ AnswersHold' /\ HandlersKnow'
    BY <2>1, HandlersKept DEF actionVars, TypeOK
  <2>3. RunsWereDelivered' /\ RecordsAgree'
    BY <2>1 DEF Inductive, RunsWereDelivered, RecordsAgree, actionVars
  <2>4. QED
    BY <2>2, <2>3 DEF Inductive
<1>4. CASE (\E rev \in Revisions : ApplyManifest(rev)) \/ OtherTraffic \/ UNCHANGED vars
  <2>1. UNCHANGED <<requestVars, state, delivered, started, overdue, row, pluginVars>>
    BY <1>4 DEF ApplyManifest, OtherTraffic, vars, actionVars
  <2>2. OneActionPerKey' /\ AnswersHold' /\ HandlersKnow'
    BY <2>1, HandlersKept DEF TypeOK
  <2>3. RunsWereDelivered' /\ RecordsAgree'
    BY <2>1 DEF Inductive, RunsWereDelivered, RecordsAgree, pluginVars
  <2>4. QED
    BY <2>2, <2>3 DEF Inductive
<1>5. QED
  BY <1>1, <1>2, <1>3, <1>4

\* The invariant that ties handlers, records and reports together is inductive
\* (handleDispatchAction, DispatchAction, applyActionAck, applyActionResult).
THEOREM ActionInductive == Spec => []Inductive
<1>1. Init => Inductive
  <2> SUFFICES ASSUME Init PROVE Inductive
    OBVIOUS
  <2>1. /\ \A r \in Requests : answer[r] = Unanswered /\ at[r] = "idle" /\ state[r] = "none"
        /\ \A r \in Requests : row[r] = "none"
        /\ started = {} /\ overdue = {} /\ told = {} /\ working = {}
    BY DEF Init
  <2>2. Bound = {}
    BY <2>1, RequestsAssumption DEF Bound
  <2>3. \A r \in Requests : answer[r] \notin Requests /\ answer[r] \notin Refusals
    BY <2>1, NamesDiffer
  <2>4. OneActionPerKey
    BY <2>2, <2>3, RequestsAssumption DEF OneActionPerKey
  <2>5. AnswersHold /\ HandlersKnow
    BY <2>1, <2>3 DEF AnswersHold, HandlersKnow
  <2>6. RunsWereDelivered /\ RecordsAgree
    BY <2>1 DEF RunsWereDelivered, RecordsAgree, Outcomes
  <2>7. QED
    BY <2>4, <2>5, <2>6 DEF Inductive
<1>2. TypeOK /\ Inductive /\ [Next]_vars => Inductive'
  BY InductiveAsk, InductiveAnswer, InductiveStore, InductiveMove, InductiveRest
     DEF Next, Handle
<1>3. QED
  BY <1>1, <1>2, ActionTypes, PTL DEF Spec

-------------------------------------------------------------------------------
(* What it establishes *)

\* One idempotency key never names two actions, and every accepted answer to a
\* request with the key names that one (ActionByIdempotencyKey, DispatchAction).
THEOREM KeysAreHonoured == Spec => []OneActionPerKey
BY ActionInductive, PTL DEF Inductive

\* What clients were told matches the records for good (handleDispatchAction).
THEOREM AnswersStayTrue == Spec => []AnswersHold
BY ActionInductive, PTL DEF Inductive

\* Runs and outcomes on record were delivered and reported (applyActionAck,
\* applyActionResult).
THEOREM RunsAreReal == Spec => []RunsWereDelivered
BY ActionInductive, PTL DEF Inductive

\* Nothing is stored that the manifest of that moment does not approve
\* (DispatchAction's recheck of the revision).
THEOREM StoredMeansApproved == Spec => ApprovedWhenStored
<1>1. TypeOK /\ Inductive /\ [Next]_vars =>
        [\A r \in Requests : state[r] = "none" /\ state'[r] # "none"
           => published # 0 /\ Code[r] \in Declares[published]]_vars
  <2> SUFFICES ASSUME TypeOK, Inductive, Next, NEW r \in Requests,
                      state[r] = "none", state'[r] # "none"
               PROVE  published # 0 /\ Code[r] \in Declares[published]
    BY DEF vars
  <2>1. DispatchAction(r)
    <3>1. ASSUME NEW q \in Requests, Handle(q) PROVE DispatchAction(r)
      BY <3>1 DEF Handle, LookUp, Replay, Validate, ManifestChanged, LoseRace, QueueFull,
                  RolledBack, DispatchAction, Respond, Expired, actionVars, TypeOK, Open
    <3>2. ~\E q \in Requests : Move(q)
      BY MoveMakesNone
    <3>3. ~ExpireActions
      BY DEF ExpireActions, Sweepable, Open
    <3>4. ~(\/ \E rev \in Revisions : ApplyManifest(rev)
            \/ OtherTraffic \/ HubRestart \/ PluginRestart)
      BY DEF ApplyManifest, OtherTraffic, HubRestart, PluginRestart, actionVars
    <3>5. QED
      BY <3>1, <3>2, <3>3, <3>4 DEF Next
  <2>2. QED
    BY <2>1 DEF DispatchAction, Inserts, StillStored, Inductive, HandlersKnow
<1>2. QED
  BY <1>1, ActionTypes, ActionInductive, PTL DEF Spec, ApprovedWhenStored

\* A dispatch that is being handled queues its action, or reads it back.
LEMMA HandlesQueueOrExpire ==
  ASSUME TypeOK, Inductive, NEW r \in Requests, Handle(r), NEW a \in Requests
  PROVE  \/ state'[a] = state[a]
         \/ state[a] = "none" /\ state'[a] = "queued"
         \/ a \in overdue /\ state[a] \in Open /\ state'[a] = "expired"
<1>1. CASE QueueFull(r)
  BY <1>1 DEF QueueFull, RolledBack
<1>2. CASE DispatchAction(r)
  <2>1. state[r] = "none"
    BY <1>2 DEF Inductive, HandlersKnow, DispatchAction, Inserts
  <2>2. QED
    BY <1>2, <2>1 DEF DispatchAction, TypeOK
<1>3. CASE Respond(r)
  BY <1>3 DEF Respond, Expired, TypeOK
<1>4. CASE LookUp(r) \/ Replay(r) \/ Validate(r) \/ ManifestChanged(r) \/ LoseRace(r)
  BY <1>4 DEF LookUp, Replay, Validate, ManifestChanged, LoseRace, actionVars
<1>5. QED
  BY <1>1, <1>2, <1>3, <1>4 DEF Handle

\* What else moves an action: the mark of its envelope, the reports of a plugin
\* inside the deadline, and the deadline.
LEMMA MovesReportOrExpire ==
  ASSUME TypeOK, NEW r \in Requests, Move(r), NEW a \in Requests
  PROVE  \/ state'[a] = state[a]
         \/ state[a] = "queued" /\ state'[a] = "delivered"
         \/ a \notin overdue /\ state[a] \in Startable /\ state'[a] = "running"
         \/ a \notin overdue /\ state[a] \in Open /\ state'[a] \in Outcomes
         \/ a \in overdue /\ state[a] \in Open /\ state'[a] = "expired"
<1>0. state \in [Requests -> {"none"} \cup Open \cup Terminal]
  BY DEF TypeOK
<1>1. CASE ReadAction(r)
  BY <1>0, <1>1 DEF ReadAction, Expired
<1>2. CASE MarkDelivered(r)
  BY <1>0, <1>2 DEF MarkDelivered
<1>3. CASE ApplyActionAck(r)
  BY <1>0, <1>3 DEF ApplyActionAck, InTime
<1>4. ASSUME NEW outcome \in Outcomes, ApplyActionResult(r, outcome)
      PROVE  \/ state'[a] = state[a]
             \/ a \notin overdue /\ state[a] \in Open /\ state'[a] \in Outcomes
  BY <1>0, <1>4 DEF ApplyActionResult, InTime
<1>5. ASSUME NEW outcome \in Outcomes, AppendResult(r, outcome) PROVE state'[a] = state[a]
  BY <1>5 DEF AppendResult, actionVars
<1>6. CASE PassDeadline(r) \/ Number(r) \/ HandleDispatch(r)
  BY <1>6 DEF PassDeadline, Number, HandleDispatch, actionVars
<1>7. QED
  BY <1>1, <1>2, <1>3, <1>4, <1>5, <1>6 DEF Move

\* Actions only move forward and a terminal state is final.
THEOREM ActionsMoveForward == Spec => ForwardOnly
<1>1. TypeOK /\ Inductive /\ [Next]_vars =>
        [\A a \in Requests :
           state'[a] = state[a] \/ Rank(state'[a]) > Rank(state[a])]_vars
  <2> SUFFICES ASSUME TypeOK, Inductive, Next, NEW a \in Requests, state'[a] # state[a]
               PROVE  Rank(state'[a]) > Rank(state[a])
    BY DEF vars
  <2>1. ASSUME NEW r \in Requests, Handle(r) PROVE Rank(state'[a]) > Rank(state[a])
    <3>1. \/ state[a] = "none" /\ state'[a] = "queued"
          \/ state[a] \in Open /\ state'[a] = "expired"
      BY <2>1, HandlesQueueOrExpire
    <3>2. QED
      BY <3>1 DEF Rank, Open
  <2>2. ASSUME NEW r \in Requests, Move(r) PROVE Rank(state'[a]) > Rank(state[a])
    <3>1. \/ state[a] = "queued" /\ state'[a] = "delivered"
          \/ state[a] \in OpenInTransit /\ state'[a] = "running"
          \/ state[a] \in Open /\ state'[a] \in Terminal
      BY <2>2, MovesReportOrExpire DEF Startable, Terminal
    <3>2. QED
      BY <3>1 DEF Rank, Open, OpenInTransit, Terminal, Outcomes
  <2>3. CASE ExpireActions
    BY <2>3 DEF ExpireActions, Sweepable, Rank, Open
  <2>4. ~(\/ \E rev \in Revisions : ApplyManifest(rev)
          \/ OtherTraffic \/ HubRestart \/ PluginRestart)
    BY DEF ApplyManifest, OtherTraffic, HubRestart, PluginRestart, actionVars
  <2>5. QED
    BY <2>1, <2>2, <2>3, <2>4 DEF Next
<1>2. QED
  BY <1>1, ActionTypes, ActionInductive, PTL DEF Spec, ForwardOnly

\* Past its deadline an action gains at most a delivery receipt (the
\* expires_at guards of applyActionAck and applyActionResult).
THEOREM DeadlineIsFinal == Spec => ExpiryWins
<1>1. TypeOK /\ Inductive /\ [Next]_vars =>
        [\A a \in overdue :
           state'[a] # state[a] => state'[a] \in {"delivered", "expired"}]_vars
  <2> SUFFICES ASSUME TypeOK, Inductive, Next, NEW a \in overdue, state'[a] # state[a]
               PROVE  state'[a] \in {"delivered", "expired"}
    BY DEF vars
  <2>1. a \in Requests /\ state[a] # "none"
    BY DEF TypeOK, Inductive, RecordsAgree
  <2>2. ASSUME NEW r \in Requests, Handle(r) PROVE state'[a] \in {"delivered", "expired"}
    BY <2>1, <2>2, HandlesQueueOrExpire
  <2>3. ASSUME NEW r \in Requests, Move(r) PROVE state'[a] \in {"delivered", "expired"}
    BY <2>1, <2>3, MovesReportOrExpire
  <2>4. CASE ExpireActions
    BY <2>1, <2>4 DEF ExpireActions
  <2>5. ~(\/ \E rev \in Revisions : ApplyManifest(rev)
          \/ OtherTraffic \/ HubRestart \/ PluginRestart)
    BY DEF ApplyManifest, OtherTraffic, HubRestart, PluginRestart, actionVars
  <2>6. QED
    BY <2>2, <2>3, <2>4, <2>5 DEF Next
<1>2. QED
  BY <1>1, ActionTypes, ActionInductive, PTL DEF Spec, ExpiryWins

-------------------------------------------------------------------------------
(* What the sweep withdraws *)

\* The envelope of an action and its record agree: a plugin took, or showed as
\* delivered, only what a session was given; an envelope that waits belongs to
\* an action nobody has; one that was withdrawn to an action that expired.
EnvelopesAgree ==
  \A a \in Requests :
    /\ row[a] = "none" => state[a] = "none"
    /\ a \in taken \cup delivered => row[a] \in {"numbered", "acked"}
    /\ row[a] = "pending" => state[a] \in {"queued", "expired"}
    /\ row[a] = "retired" => state[a] = "expired"

\* Only the expired action of an envelope no plugin saw is withdrawn.
WithdrawnIsUnseen ==
  \A a \in Requests : row[a] = "retired" =>
    /\ state[a] = "expired"
    /\ a \notin taken /\ a \notin delivered /\ a \notin started /\ a \notin working
    /\ \A kind \in {"running"} \cup Outcomes : <<kind, a>> \notin told

LEMMA EnvelopesHandle ==
  ASSUME TypeOK, Inductive, EnvelopesAgree, NEW r \in Requests, Handle(r)
  PROVE  EnvelopesAgree'
<1> USE DEF EnvelopesAgree
<1>1. CASE UNCHANGED <<state, row, taken, delivered>>
  BY <1>1
<1>2. CASE QueueFull(r)
  BY <1>1, <1>2 DEF QueueFull, RolledBack, pluginVars
<1>3. CASE DispatchAction(r)
  <2>1. state[r] = "none" /\ row[r] = "none"
    BY <1>3 DEF Inductive, HandlersKnow, RecordsAgree, DispatchAction, Inserts
  <2>2. /\ state' = [state EXCEPT ![r] = "queued"] /\ row' = [row EXCEPT ![r] = "pending"]
        /\ UNCHANGED <<taken, delivered>>
    BY <1>3 DEF DispatchAction, pluginVars
  <2>3. state'[r] = "queued" /\ row'[r] = "pending" /\ r \notin taken \cup delivered
    BY <2>1, <2>2 DEF TypeOK
  <2>4. \A a \in Requests : a # r => state'[a] = state[a] /\ row'[a] = row[a]
    BY <2>2 DEF TypeOK
  <2>5. QED
    BY <2>2, <2>3, <2>4
<1>4. CASE Respond(r)
  <2>1. \A a \in Requests :
          state'[a] = state[a] \/ (state[a] \in Open /\ state'[a] = "expired")
    BY <1>4 DEF Respond, Expired, TypeOK
  <2>2. UNCHANGED <<row, taken, delivered>>
    BY <1>4 DEF Respond, pluginVars
  <2>3. QED
    BY <2>1, <2>2 DEF Open
<1>5. CASE LookUp(r) \/ Replay(r) \/ Validate(r) \/ ManifestChanged(r) \/ LoseRace(r)
  BY <1>1, <1>5 DEF LookUp, Replay, Validate, ManifestChanged, LoseRace, actionVars, pluginVars
<1>6. QED
  BY <1>2, <1>3, <1>4, <1>5 DEF Handle

LEMMA EnvelopesMove ==
  ASSUME TypeOK, Inductive, EnvelopesAgree, NEW a \in Requests, Move(a)
  PROVE  EnvelopesAgree'
<1> USE DEF EnvelopesAgree
<1>0. /\ \A x \in Requests : state[x] = "none" => row[x] = "none"
      /\ \A x \in Requests, kind \in {"running"} \cup Outcomes : <<kind, x>> \in told => x \in taken
  BY DEF Inductive, RecordsAgree
<1>1. ASSUME \A x \in Requests : x # a => state'[x] = state[x] /\ row'[x] = row[x],
             taken' \in {taken, taken \cup {a}}, delivered' \in {delivered, delivered \cup {a}},
             /\ row'[a] = "none" => state'[a] = "none"
             /\ a \in taken' \cup delivered' => row'[a] \in {"numbered", "acked"}
             /\ row'[a] = "pending" => state'[a] \in {"queued", "expired"}
             /\ row'[a] = "retired" => state'[a] = "expired"
      PROVE  EnvelopesAgree'
  BY <1>1
<1>2. CASE ReadAction(a)
  <2>1. /\ state'[a] = state[a] \/ (state'[a] = "expired" /\ state[a] # "none")
        /\ \A x \in Requests : x # a => state'[x] = state[x]
        /\ UNCHANGED <<row, taken, delivered>>
    BY <1>2 DEF ReadAction, Expired, pluginVars, TypeOK
  <2>2. QED
    BY <1>1, <2>1
<1>3. CASE PassDeadline(a)
  BY <1>3 DEF PassDeadline, pluginVars
<1>4. CASE Number(a)
  <2>1. /\ row'[a] = "numbered" /\ \A x \in Requests : x # a => row'[x] = row[x]
        /\ UNCHANGED <<state, taken, delivered>>
    BY <1>4 DEF Number, pluginVars, TypeOK
  <2>2. QED
    BY <1>1, <2>1
<1>5. CASE MarkDelivered(a)
  <2>1. /\ row'[a] = "acked" /\ \A x \in Requests : x # a => row'[x] = row[x] /\ state'[x] = state[x]
        /\ taken' = taken /\ delivered' \in {delivered, delivered \cup {a}}
    BY <1>5 DEF MarkDelivered, pluginVars, TypeOK
  <2>2. QED
    BY <1>1, <2>1
<1>6. ASSUME a \in taken, UNCHANGED <<row, taken>>, delivered' = delivered \cup {a},
             \A x \in Requests : x # a => state'[x] = state[x]
      PROVE  EnvelopesAgree'
  <2>1. row[a] \in {"numbered", "acked"}
    BY <1>6
  <2>2. QED
    BY <1>1, <1>6, <2>1
<1>7. CASE ApplyActionAck(a)
  <2>1. a \in taken
    BY <1>0, <1>7 DEF ApplyActionAck
  <2>2. QED
    BY <1>6, <1>7, <2>1 DEF ApplyActionAck, Receipt, pluginVars, TypeOK
<1>8. ASSUME NEW outcome \in Outcomes, ApplyActionResult(a, outcome) PROVE EnvelopesAgree'
  <2>1. a \in taken
    BY <1>0, <1>8 DEF ApplyActionResult
  <2>2. QED
    BY <1>6, <1>8, <2>1 DEF ApplyActionResult, Receipt, pluginVars, TypeOK
<1>9. ASSUME NEW outcome \in Outcomes, AppendResult(a, outcome) PROVE EnvelopesAgree'
  BY <1>9 DEF AppendResult, actionVars
<1>10. CASE HandleDispatch(a)
  BY <1>10 DEF HandleDispatch, actionVars
<1>11. QED
  BY <1>2, <1>3, <1>4, <1>5, <1>7, <1>8, <1>9, <1>10 DEF Move

\* The sweep and everything else.
LEMMA EnvelopesRest ==
  ASSUME TypeOK, Inductive, EnvelopesAgree,
         \/ \E rev \in Revisions : ApplyManifest(rev)
         \/ ExpireActions \/ OtherTraffic \/ HubRestart \/ PluginRestart
         \/ UNCHANGED vars
  PROVE  EnvelopesAgree'
<1> USE DEF EnvelopesAgree
<1>1. CASE ExpireActions
  <2>1. \A a \in Requests :
          row'[a] = row[a] \/ /\ row[a] = "pending" /\ row'[a] = "retired"
                              /\ a \in overdue /\ state[a] \in {"queued", "expired"}
    BY <1>1 DEF ExpireActions
  <2>2. \A a \in Requests :
          IF a \in overdue /\ state[a] \in Open THEN state'[a] = "expired" ELSE state'[a] = state[a]
    BY <1>1 DEF ExpireActions, Sweepable
  <2>3. UNCHANGED <<taken, delivered>>
    BY <1>1 DEF ExpireActions, pluginVars
  <2>4. \A a \in Requests : state[a] = "none" <=> state'[a] = "none"
    BY <2>2 DEF Open
  <2>5. \A a \in Requests : row'[a] = "retired" => state'[a] = "expired"
    BY <2>1, <2>2 DEF Open
  <2>6. \A a \in Requests : row'[a] = "pending" => state'[a] \in {"queued", "expired"}
    BY <2>1, <2>2
  <2>7. \A a \in Requests : a \in taken \cup delivered => row'[a] = row[a]
    BY <2>1
  <2>8. QED
    BY <2>1, <2>3, <2>4, <2>5, <2>6, <2>7
<1>2. CASE ~ExpireActions
  BY <1>2 DEF ApplyManifest, OtherTraffic, HubRestart, PluginRestart, vars, actionVars, pluginVars
<1>3. QED
  BY <1>1, <1>2

\* What the sweep withdraws no plugin ever saw (ExpireActions, NextOutbound,
\* markDelivered): the action expired, and it was never taken, delivered,
\* started or reported on, whatever reads, sweeps, late acks and restarts came
\* between.
THEOREM SweepTakesUnseen == Spec => []WithdrawnIsUnseen
<1>1. Init => EnvelopesAgree
  BY DEF Init, EnvelopesAgree
<1>2. TypeOK /\ Inductive /\ EnvelopesAgree /\ [Next]_vars => EnvelopesAgree'
  BY EnvelopesHandle, EnvelopesMove, EnvelopesRest DEF Next
<1>3. Inductive /\ EnvelopesAgree => WithdrawnIsUnseen
  <2> SUFFICES ASSUME Inductive, EnvelopesAgree, NEW a \in Requests, row[a] = "retired"
               PROVE  /\ state[a] = "expired"
                      /\ a \notin taken /\ a \notin delivered /\ a \notin started /\ a \notin working
                      /\ \A kind \in {"running"} \cup Outcomes : <<kind, a>> \notin told
    BY DEF WithdrawnIsUnseen
  <2>1. state[a] = "expired" /\ a \notin taken /\ a \notin delivered
    BY DEF EnvelopesAgree
  <2>2. QED
    BY <2>1 DEF Inductive, RunsWereDelivered, RecordsAgree
<1>4. QED
  BY <1>1, <1>2, <1>3, ActionTypes, ActionInductive, PTL DEF Spec
================================================================================
