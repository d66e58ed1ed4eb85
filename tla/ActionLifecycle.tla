---------------------------- MODULE ActionLifecycle ----------------------------
(***************************************************************************)
(* Actions of one server, from the dispatch request to the outcome: the    *)
(* handler that validates against the stored manifest and retries          *)
(* (hub/action.go), the transaction that stores the action with its        *)
(* envelope, the acks and results that move it, and the expiry that ends   *)
(* it (hub/store/actions.go).                                              *)
(*                                                                         *)
(* An action is named after the request that stored it.  The link between  *)
(* the hub and the plugin is taken at its contract, which HubToPlugin and  *)
(* PluginToHub establish: a dispatch is acked only once the plugin took    *)
(* it, and a report of the plugin reaches the hub any number of times, in  *)
(* any order once records have been lost or restored from disk.            *)
(***************************************************************************)
EXTENDS Integers, FiniteSets

CONSTANTS
  Requests,      \* the dispatch requests that pass the scope check
  Keyed,         \* those that carry one and the same idempotency key
  Codes,         \* action codes, each with the params the requests send
  Code,          \* the code a request asks for
  Grants,        \* the codes the token of a request may dispatch
  LastRevision,  \* bound on manifest revisions
  Declares,      \* the codes each revision declares and whose params it accepts
  Attempts,      \* validation rounds of one request (3)
  QueueLimit,    \* outboundQueueLimit (5000)
  MaxFaults      \* bound on restarts of either side

Revisions == 1..LastRevision
Refusals == {"refused", "conflict", "full", "forbidden"}
Unanswered == "unanswered"

ASSUME RequestsAssumption ==
  /\ IsFiniteSet(Requests) /\ Keyed \subseteq Requests
  /\ Requests \cap (Refusals \cup {Unanswered}) = {}
  /\ Code \in [Requests -> Codes]
  /\ Grants \in [Requests -> SUBSET Codes]
  /\ \A r \in Requests : Code[r] \in Grants[r]

ASSUME LimitsAssumption ==
  /\ LastRevision \in Nat
  /\ Declares \in [Revisions -> SUBSET Codes]
  /\ Attempts \in Nat \ {0} /\ QueueLimit \in Nat \ {0} /\ MaxFaults \in Nat

VARIABLES
  published,  \* manifests.revision, 0 when there is none
  at,         \* where the handler of each request stands
  seen,       \* the revision its last validation used
  tries,      \* attempt + 1
  answer,     \* what the client was told: an action, or a refusal
  state,      \* actions.state; "none" while there is no row
  delivered,  \* the actions with a delivered_at
  started,    \* the actions with a running_at
  overdue,    \* the actions past expires_at
  row,        \* the dispatch envelope in outbound_envelopes
  others,     \* how many other envelopes of the server are pending
  executed,   \* the plugin's executed-action record
  working,    \* the actions it is executing or holding pending
  taken,      \* history: dispatches the plugin ever took
  told,       \* history: the reports it ever appended to its outbox
  faults

requestVars == <<at, seen, tries, answer>>
actionVars == <<state, delivered, started, overdue, row, others>>
pluginVars == <<executed, working, taken, told>>
vars == <<published, requestVars, actionVars, pluginVars, faults>>

Outcomes == {"completed", "failed"}
Terminal == Outcomes \cup {"expired"}
OpenInTransit == {"queued", "delivered"}
Open == {"queued", "delivered", "running"}
Stations == {"idle", "validate", "insert", "bound", "stored", "done", "lost"}

TypeOK ==
  /\ published \in 0..LastRevision
  /\ at \in [Requests -> Stations]
  /\ seen \in [Requests -> 0..LastRevision]
  /\ tries \in [Requests -> 1..Attempts]
  /\ answer \in [Requests -> Requests \cup Refusals \cup {Unanswered}]
  /\ state \in [Requests -> {"none"} \cup Open \cup Terminal]
  /\ delivered \subseteq Requests
  /\ started \subseteq Requests
  /\ overdue \subseteq Requests
  /\ row \in [Requests -> {"none", "pending", "numbered", "acked", "retired"}]
  /\ others \in Nat
  /\ executed \subseteq Requests /\ working \subseteq Requests
  /\ taken \subseteq Requests
  /\ told \subseteq ({"running"} \cup Outcomes) \X Requests
  /\ faults \in 0..MaxFaults

Init ==
  /\ published = 0
  /\ at = [r \in Requests |-> "idle"]
  /\ seen = [r \in Requests |-> 0]
  /\ tries = [r \in Requests |-> 1]
  /\ answer = [r \in Requests |-> Unanswered]
  /\ state = [r \in Requests |-> "none"]
  /\ delivered = {} /\ started = {} /\ overdue = {}
  /\ row = [r \in Requests |-> "none"]
  /\ others = 0
  /\ executed = {} /\ working = {} /\ taken = {} /\ told = {}
  /\ faults = 0

Fault == faults < MaxFaults /\ faults' = faults + 1

-------------------------------------------------------------------------------
(* The dispatch request: handleDispatchAction *)

\* The action the idempotency key is bound to, for good, by the unique index.
BoundWhileOpen == {a \in Keyed : state[a] \in Open}
Bound == {a \in Keyed : state[a] # "none"}

Answer(r, what) ==
  /\ answer' = [answer EXCEPT ![r] = what]
  /\ at' = [at EXCEPT ![r] = "done"]

GoTo(r, station) == at' = [at EXCEPT ![r] = station] /\ UNCHANGED answer

\* The lookup of the key comes before everything that could refuse.
LookUp(r) ==
  /\ at[r] = "idle"
  /\ GoTo(r, IF r \in Keyed /\ Bound # {} THEN "bound" ELSE "validate")
  /\ UNCHANGED <<published, seen, tries, actionVars, pluginVars, faults>>

\* answerIdempotentReplay, unless the token may not dispatch the original.
AnyOriginal(r, a) == a
Original(r, a) == IF Code[a] \in Grants[r] THEN a ELSE "forbidden"

Replay(r) ==
  /\ at[r] = "bound"
  /\ \E a \in Bound : Answer(r, Original(r, a))
  /\ UNCHANGED <<published, seen, tries, actionVars, pluginVars, faults>>

\* validateDispatch reads the manifest as stored, outside any transaction.
Validate(r) ==
  /\ at[r] = "validate"
  /\ IF published # 0 /\ Code[r] \in Declares[published]
     THEN seen' = [seen EXCEPT ![r] = published] /\ GoTo(r, "insert")
     ELSE Answer(r, "refused") /\ UNCHANGED seen
  /\ UNCHANGED <<published, tries, actionVars, pluginVars, faults>>

\* DispatchAction compares the stored revision with the validated one under
\* the lock of the server row.
NotOlder(r) == published >= seen[r]
StillStored(r) == published = seen[r]

\* ErrManifestChanged: validate again, for as many rounds as there are.
MayTryAgain(r) == tries[r] < Attempts

ManifestChanged(r) ==
  /\ at[r] = "insert" /\ ~StillStored(r)
  /\ IF MayTryAgain(r)
     THEN tries' = [tries EXCEPT ![r] = @ + 1] /\ GoTo(r, "validate")
     ELSE Answer(r, "conflict") /\ UNCHANGED tries
  /\ UNCHANGED <<published, seen, actionVars, pluginVars, faults>>

\* The insert conflicts with an action that bound the key since the lookup.
LoseRace(r) ==
  /\ at[r] = "insert" /\ StillStored(r)
  /\ r \in Keyed /\ Bound # {}
  /\ GoTo(r, "bound")
  /\ UNCHANGED <<published, seen, tries, actionVars, pluginVars, faults>>

Pending == {a \in Requests : row[a] \in {"pending", "numbered"}}
RoomInQueue == Cardinality(Pending) + others < QueueLimit
Inserts(r) == at[r] = "insert" /\ StillStored(r) /\ (r \in Keyed => Bound = {})

\* At the queue bound the transaction is rolled back, the action row with it.
NotRolledBack(r) == [state EXCEPT ![r] = "queued"]
RolledBack(r) == state

QueueFull(r) ==
  /\ Inserts(r)
  /\ ~RoomInQueue
  /\ state' = RolledBack(r)
  /\ Answer(r, "full")
  /\ UNCHANGED <<published, seen, tries, delivered, started, overdue, row, others, pluginVars, faults>>

\* The action and its envelope are committed together.
DispatchAction(r) ==
  /\ Inserts(r)
  /\ RoomInQueue
  /\ state' = [state EXCEPT ![r] = "queued"]
  /\ row' = [row EXCEPT ![r] = "pending"]
  /\ GoTo(r, "stored")
  /\ UNCHANGED <<published, seen, tries, delivered, started, overdue, others, pluginVars,
                 faults>>

\* The lazy expiry of ActionByID.
Expired(a) == [state EXCEPT ![a] = IF a \in overdue /\ @ \in Open THEN "expired" ELSE @]

\* DispatchAction reads the action back and the handler answers with it.
Respond(r) ==
  /\ at[r] = "stored"
  /\ state' = Expired(r)
  /\ Answer(r, r)
  /\ UNCHANGED <<published, seen, tries, delivered, started, overdue, row, others, pluginVars, faults>>

\* The hub stops: the handlers are gone, what was committed is not.
HubRestart ==
  /\ Fault
  /\ at' = [r \in Requests |-> IF at[r] \in {"idle", "done"} THEN at[r] ELSE "lost"]
  /\ UNCHANGED <<published, seen, tries, answer, actionVars, pluginVars>>

\* applyManifest: only a higher revision replaces the stored one.
ApplyManifest(rev) ==
  /\ rev > published
  /\ published' = rev
  /\ UNCHANGED <<requestVars, actionVars, pluginVars, faults>>

\* The rest of the server's outbound traffic comes and goes.
OtherTraffic ==
  /\ others' \in {others - 1, others + 1}
  /\ others' \in Nat
  /\ others < others' => RoomInQueue
  /\ UNCHANGED <<published, requestVars, state, delivered, started, overdue, row, pluginVars,
                 faults>>

-------------------------------------------------------------------------------
(* What moves an action *)

ReadAction(a) ==
  /\ state[a] # "none" /\ Expired(a) # state
  /\ state' = Expired(a)
  /\ UNCHANGED <<published, requestVars, delivered, started, overdue, row, others, pluginVars, faults>>

PassDeadline(a) ==
  /\ state[a] # "none" /\ a \notin overdue
  /\ overdue' = overdue \cup {a}
  /\ UNCHANGED <<published, requestVars, state, delivered, started, row, others, pluginVars,
                 faults>>

\* ExpireActions: the sweep retires envelopes no session has numbered.
SweptInTransit == OpenInTransit
Sweepable == Open

ExpireActions ==
  /\ row' = [a \in Requests |->
               IF a \in overdue /\ row[a] = "pending" /\ state[a] \in {"queued", "expired"}
               THEN "retired" ELSE row[a]]
  /\ state' = [a \in Requests |->
                 IF a \in overdue /\ state[a] \in Sweepable THEN "expired" ELSE state[a]]
  /\ UNCHANGED <<published, requestVars, delivered, started, overdue, others, pluginVars, faults>>

\* NextOutbound numbers the envelope into a session.
Number(a) ==
  /\ row[a] = "pending"
  /\ row' = [row EXCEPT ![a] = "numbered"]
  /\ UNCHANGED <<published, requestVars, state, delivered, started, overdue, others, pluginVars,
                 faults>>

\* AckOutbound and markDelivered.
MarkDelivered(a) ==
  /\ row[a] = "numbered" /\ a \in taken
  /\ row' = [row EXCEPT ![a] = "acked"]
  /\ IF state[a] = "queued"
     THEN state' = [state EXCEPT ![a] = "delivered"] /\ delivered' = delivered \cup {a}
     ELSE UNCHANGED <<state, delivered>>
  /\ UNCHANGED <<published, requestVars, started, overdue, others, pluginVars, faults>>

\* Both reports are scoped to an action that is open and inside its deadline.
AnyTime(a) == TRUE
InTime(a) == a \notin overdue

\* A report implies receipt: COALESCE(delivered_at, now).
NoReceipt(a) == delivered
Receipt(a) == delivered \cup {a}

\* The states an action.ack may start.
NotExpired == Open \cup Outcomes
Startable == OpenInTransit

\* applyActionAck, for as often as the report arrives.
ApplyActionAck(a) ==
  /\ <<"running", a>> \in told
  /\ InTime(a) /\ state[a] \in Startable
  /\ state' = [state EXCEPT ![a] = "running"]
  /\ delivered' = Receipt(a) /\ started' = started \cup {a}
  /\ UNCHANGED <<published, requestVars, overdue, row, others, pluginVars, faults>>

\* applyActionResult, which may find that no ack ever came.
ApplyActionResult(a, outcome) ==
  /\ <<outcome, a>> \in told
  /\ InTime(a) /\ state[a] \in Open
  /\ state' = [state EXCEPT ![a] = outcome]
  /\ delivered' = Receipt(a) /\ started' = started \cup {a}
  /\ UNCHANGED <<published, requestVars, overdue, row, others, pluginVars, faults>>

-------------------------------------------------------------------------------
(* The plugin: HandleDispatch *)

\* A dispatch not in the executed record is recorded and acknowledged; past
\* its deadline on the plugin's own clock the work is not done.
HandleDispatch(a) ==
  /\ row[a] = "numbered" /\ a \notin executed
  /\ executed' = executed \cup {a}
  /\ taken' = taken \cup {a}
  /\ told' = told \cup {<<"running", a>>}
  /\ \/ working' = working \cup {a}
     \/ UNCHANGED working
  /\ UNCHANGED <<published, requestVars, actionVars, faults>>

\* AppendResult, at once or when a pending dispatch is finished or fails.
AppendResult(a, outcome) ==
  /\ a \in working
  /\ working' = working \ {a}
  /\ told' = told \cup {<<outcome, a>>}
  /\ UNCHANGED <<published, requestVars, actionVars, executed, taken, faults>>

\* The game server stops: pending work is gone, and so is the record of the
\* executions whose log append failed.
PluginRestart ==
  /\ Fault
  /\ working' = {}
  /\ \E unlogged \in SUBSET executed : executed' = executed \ unlogged
  /\ UNCHANGED <<published, requestVars, actionVars, taken, told>>

-------------------------------------------------------------------------------
Handle(r) ==
  \/ LookUp(r) \/ Replay(r) \/ Validate(r) \/ ManifestChanged(r) \/ LoseRace(r)
  \/ QueueFull(r) \/ DispatchAction(r) \/ Respond(r)

Move(a) ==
  \/ ReadAction(a) \/ PassDeadline(a) \/ Number(a) \/ MarkDelivered(a) \/ ApplyActionAck(a)
  \/ \E outcome \in Outcomes : ApplyActionResult(a, outcome) \/ AppendResult(a, outcome)
  \/ HandleDispatch(a)

Next ==
  \/ \E r \in Requests : Handle(r) \/ Move(r)
  \/ \E rev \in Revisions : ApplyManifest(rev)
  \/ ExpireActions \/ OtherTraffic \/ HubRestart \/ PluginRestart

Spec == Init /\ [][Next]_vars

\* Deadlines pass and the hub's maintenance ticker runs, whatever the plugin
\* and the clients do.
FairSpec ==
  /\ Spec
  /\ \A a \in Requests : WF_vars(PassDeadline(a))
  /\ WF_vars(ExpireActions)

-------------------------------------------------------------------------------
(* Properties *)

\* One idempotency key, one action: racing requests and retries after a lost
\* answer, at any point of the action's life, all get the same action.
OneActionPerKey ==
  /\ \A a, b \in Bound : a = b
  /\ \A r \in Keyed : answer[r] \in Requests => answer[r] \in Bound

\* What a client was told stays true: an accepted action is on record, and one
\* its token may dispatch, whosever it was; and a refused request left nothing
\* behind for a plugin to execute.
AnswersHold ==
  \A r \in Requests :
    /\ answer[r] \in Requests =>
         state[answer[r]] # "none" /\ Code[answer[r]] \in Grants[r]
    /\ answer[r] \in Refusals => state[r] = "none" /\ row[r] = "none"

\* Validation and queueing are atomic towards a republish: nothing is stored
\* that the manifest stored at that moment does not declare (section 7).
ApprovedWhenStored ==
  [][\A r \in Requests : state[r] = "none" /\ state'[r] # "none"
       => published # 0 /\ Code[r] \in Declares[published]]_vars

\* Actions only move forward, and a terminal state is final, whatever is
\* reported again or out of order.
Rank(s) ==
  CASE s = "none" -> 0 [] s = "queued" -> 1 [] s = "delivered" -> 2
    [] s = "running" -> 3 [] OTHER -> 4
ForwardOnly ==
  [][\A a \in Requests :
       state'[a] = state[a] \/ Rank(state'[a]) > Rank(state[a])]_vars

\* Expiry wins every race: past its deadline an action still gains at most a
\* delivery receipt, never a run or an outcome.
ExpiryWins ==
  [][\A a \in overdue :
       state'[a] # state[a] => state'[a] \in {"delivered", "expired"}]_vars

\* No run is on record that was never delivered, and no run or outcome that
\* the plugin did not report after taking the dispatch.
RunsWereDelivered ==
  \A a \in Requests :
    /\ a \in started => a \in delivered
    /\ state[a] = "running" => a \in started /\ a \in taken
    /\ state[a] \in Outcomes => a \in started /\ <<state[a], a>> \in told

\* The strengthening the proofs use: what the station of a handler says about
\* the records, and the records about each other.
HandlersKnow ==
  \A r \in Requests :
    /\ at[r] \in {"idle", "validate", "insert", "bound"} => state[r] = "none"
    /\ at[r] = "stored" => state[r] # "none"
    /\ at[r] = "bound" => r \in Keyed /\ Bound # {}
    /\ at[r] = "insert" => seen[r] # 0 /\ Code[r] \in Declares[seen[r]]
    /\ at[r] # "done" => answer[r] = Unanswered
RecordsAgree ==
  \A a \in Requests :
    /\ state[a] = "none" => row[a] = "none" /\ a \notin overdue
    /\ \A kind \in {"running"} \cup Outcomes : <<kind, a>> \in told => a \in taken
    /\ a \in working => a \in taken
Inductive ==
  /\ OneActionPerKey /\ AnswersHold /\ RunsWereDelivered
  /\ HandlersKnow /\ RecordsAgree

\* Every accepted action reaches a terminal state, with no plugin to help it.
EveryActionEnds ==
  \A a \in Requests : (state[a] # "none") ~> (state[a] \in Terminal)

\* spec/protocol.md section 7: "a retry of an action that was already accepted
\* MUST answer with the original even when a fresh dispatch would be refused".
\* No request is refused over the manifest while its key names an action.
RetryIsHonoured ==
  [][\A r \in Keyed :
       answer'[r] # answer[r] /\ answer'[r] \in {"refused", "conflict"}
         => Bound = {}]_vars
================================================================================
