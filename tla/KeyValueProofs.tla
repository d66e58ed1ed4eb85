---------------------------- MODULE KeyValueProofs ----------------------------
(***************************************************************************)
(* Proofs about KeyValue, for any servers, changes, flags, retry limits    *)
(* and bounds.                                                             *)
(*                                                                         *)
(* A revision is read together with the version it stands for and the time *)
(* the key was last taken away.  Until the key is taken away again, the    *)
(* revision of the key only grows, so one that is still current stands for *)
(* the version read; and from the moment a set has compared it, the lock   *)
(* keeps every writer out.  Only a lapse takes no lock, and it moves the   *)
(* time the key was taken away.  A set left behind carries what it was     *)
(* sent with, so nothing of this changes when its client goes.             *)
(***************************************************************************)
EXTENDS KeyValue, TLAPS

-------------------------------------------------------------------------------
(* The inductive invariant *)

Writers == Servers \cup {Other}
RowType == [flags : SUBSET Flags, rev : Nat, ttl : BOOLEAN, lapsed : BOOLEAN, by : Writers, ver : Nat]
ChangeType == [stage : {"idle", "reading", "writing", "ended"}, call : {"none", "queued", "sent"},
               tries : Nat, flags : SUBSET Flags, rev : Nat, seen : Nat, gone : Nat, wrote : BOOLEAN]
AttemptType == [stage : {"none", "get", "found", "set", "held", "mismatch", "written"},
                for : Changes \cup {Other}, flags : SUBSET Flags, rev : Nat, seen : Nat, gone : Nat,
                old : BOOLEAN]

Typed ==
  /\ row \in RowType /\ writes \in Nat /\ gone \in Nat /\ gone <= writes /\ faults \in Nat
  /\ row # NoRow => row.rev > 0
  /\ change \in [Changes -> ChangeType] /\ attempt \in [Slots -> AttemptType]

\* A revision, what it stood for when it was read, and when the key had last
\* been taken away.
Reading(r) ==
  /\ r.gone <= gone
  /\ r.gone = gone => \/ r.rev < CurrentRevision
                      \/ r.rev = CurrentRevision /\ r.seen = CurrentVersion

\* A set that holds the lock has compared its revision with the current one,
\* which nobody but a lapse has changed since.
Holding(r) ==
  /\ r.gone = gone => r.seen = CurrentVersion
  /\ r.rev = CurrentRevision \/ CurrentRevision = 0

\* Only a change sets, and only one set holds the lock.
AttemptFits(r) ==
  /\ r.stage \notin {"mismatch", "written"} => Reading(r)
  /\ r.stage \in {"set", "held"} => r.for \in Changes
  /\ r.stage = "held" => Holding(r)
OneHolder == \A q, p \in Slots : attempt[q].stage = "held" /\ attempt[p].stage = "held" => q = p

IInv ==
  /\ Typed /\ OneHolder
  /\ \A c \in Changes : Reading(change[c])
  /\ \A q \in Slots : AttemptFits(attempt[q])

\* What holds of a key that is not there.
LEMMA Currents ==
  ASSUME Typed
  PROVE  /\ CurrentRevision \in Nat /\ CurrentVersion \in Nat
         /\ CurrentRevision = 0 => CurrentVersion = 0
  BY DEF Typed, RowType, CurrentRevision, CurrentVersion, Live

\* A record of no read fits whatever the key has become.
LEMMA NothingRead ==
  ASSUME Typed, NEW r, r.rev = 0, r.seen = 0, r.gone = 0
  PROVE  Reading(r)
<1>1. gone \in Nat
  BY DEF Typed
<1>2. QED
  BY <1>1, Currents DEF Reading

\* The records that stand for nothing.
LEMMA Blanks ==
  /\ NoAttempt \in AttemptType /\ Ended \in ChangeType /\ NewChange \in ChangeType
  /\ NoAttempt.rev = 0 /\ NoAttempt.seen = 0 /\ NoAttempt.gone = 0 /\ NoAttempt.stage = "none"
  /\ Ended.rev = 0 /\ Ended.seen = 0 /\ Ended.gone = 0
  /\ NewChange.rev = 0 /\ NewChange.seen = 0 /\ NewChange.gone = 0
BY DEF NoAttempt, Ended, NewChange, AttemptType, ChangeType

LEMMA NoneFits ==
  ASSUME Typed
  PROVE  AttemptFits(NoAttempt)
BY Blanks, NothingRead DEF AttemptFits

\* A transport's request is none of those left behind.
LEMMA TransportSlots ==
  ASSUME KeyValueAssumption
  PROVE  /\ \A s \in Servers : s \in Slots /\ s \notin 1..MaxFaults
         /\ \A c \in Changes : Home[c] \in Servers /\ Home[c] \in Slots
BY DEF KeyValueAssumption, Slots

LEMMA IInvInit == Init => IInv
<1> SUFFICES ASSUME Init PROVE IInv
  OBVIOUS
<1>1. Typed
  BY Blanks DEF Init, Typed, RowType, NoRow, Writers
<1>2. \A c \in Changes : Reading(change[c])
  BY <1>1, Blanks, NothingRead DEF Init
<1>3. \A q \in Slots : attempt[q].stage = "none" /\ AttemptFits(attempt[q])
  BY <1>1, Blanks, NoneFits DEF Init
<1>4. QED
  BY <1>1, <1>2, <1>3 DEF IInv, OneHolder

-------------------------------------------------------------------------------
(* Steps of the clients *)

Alike(r, q) == r.rev = q.rev /\ r.seen = q.seen /\ r.gone = q.gone

\* What a step makes of the changes and of the attempts, the key as it was.
ChangesFit == change' \in [Changes -> ChangeType] /\ \A c \in Changes : Reading(change'[c])
AttemptsFit ==
  /\ attempt' \in [Slots -> AttemptType] /\ OneHolder'
  /\ \A q \in Slots : AttemptFits(attempt'[q])

LEMMA ClientKeeps ==
  ASSUME IInv, UNCHANGED hubVars, faults' \in Nat, ChangesFit, AttemptsFit
  PROVE  IInv'
<1>1. row' = row /\ writes' = writes /\ gone' = gone
  BY DEF hubVars
<1>2. CurrentRevision' = CurrentRevision /\ CurrentVersion' = CurrentVersion
  BY <1>1 DEF CurrentRevision, CurrentVersion, Live
<1>3. Typed'
  BY <1>1 DEF IInv, Typed, ChangesFit, AttemptsFit
<1>4. \A c \in Changes : Reading(change[c])'
  BY <1>1, <1>2 DEF ChangesFit, Reading
<1>5. \A q \in Slots : AttemptFits(attempt[q])'
  BY <1>1, <1>2 DEF AttemptsFit, AttemptFits, Reading, Holding
<1>6. QED
  BY <1>3, <1>4, <1>5 DEF IInv, AttemptsFit

LEMMA SameChanges ==
  ASSUME IInv, change' = change
  PROVE  ChangesFit
  BY DEF IInv, Typed, ChangesFit

LEMMA SetChange ==
  ASSUME IInv, NEW c \in Changes, NEW x \in ChangeType, Reading(x), change' = [change EXCEPT ![c] = x]
  PROVE  ChangesFit
  BY DEF IInv, Typed, ChangesFit

\* Moving a call on leaves what was read.
LEMMA SetCall ==
  ASSUME IInv, NEW c \in Changes, NEW v \in {"none", "queued", "sent"},
         change' = [change EXCEPT ![c].call = v]
  PROVE  ChangesFit
<1>1. change \in [Changes -> ChangeType] /\ change[c] \in ChangeType /\ Reading(change[c])
  BY DEF IInv, Typed
<1>2. [change[c] EXCEPT !.call = v] \in ChangeType /\ Alike([change[c] EXCEPT !.call = v], change[c])
  BY <1>1 DEF ChangeType, Alike
<1>3. Reading([change[c] EXCEPT !.call = v])
  BY <1>1, <1>2 DEF Reading, Alike
<1>4. change' = [change EXCEPT ![c] = [change[c] EXCEPT !.call = v]]
  BY <1>1
<1>5. QED
  BY <1>2, <1>3, <1>4, SetChange

\* A change that is over, or has not begun.
LEMMA EndChange ==
  ASSUME IInv, NEW c \in Changes, change' = [change EXCEPT ![c] = Ended]
  PROVE  ChangesFit
  BY Blanks, NothingRead, SetChange DEF IInv

LEMMA SameAttempts ==
  ASSUME IInv, attempt' = attempt
  PROVE  AttemptsFit
  BY DEF IInv, Typed, AttemptsFit, OneHolder

LEMMA SetAttempt ==
  ASSUME IInv, NEW q \in Slots, NEW x \in AttemptType, attempt' = [attempt EXCEPT ![q] = x],
         AttemptFits(x), x.stage # "held"
  PROVE  AttemptsFit
<1>1. attempt \in [Slots -> AttemptType]
  BY DEF IInv, Typed
<1>2. \A p \in Slots : attempt'[p] = IF p = q THEN x ELSE attempt[p]
  BY <1>1
<1>3. attempt' \in [Slots -> AttemptType]
  BY <1>1
<1>4. OneHolder'
  BY <1>2 DEF IInv, OneHolder
<1>5. QED
  BY <1>2, <1>3, <1>4 DEF IInv, AttemptsFit

LEMMA EndAttempt ==
  ASSUME IInv, NEW q \in Slots, attempt' = [attempt EXCEPT ![q] = NoAttempt]
  PROVE  AttemptsFit
<1>1. AttemptFits(NoAttempt)
  BY NoneFits DEF IInv
<1>2. QED
  BY <1>1, Blanks, SetAttempt

\* A request given up goes on in a slot of its own, or ends.
LEMMA GiveUpFits ==
  ASSUME IInv, KeyValueAssumption, NEW s \in Servers, Fault, GiveUp(s)
  PROVE  /\ AttemptsFit /\ faults' \in Nat
         /\ faults' \in Slots /\ faults' \notin Servers
         /\ attempt'[s] = NoAttempt /\ attempt'[faults'] = LeftBehind(attempt[s])
         /\ \A q \in Slots : q # s /\ q # faults' => attempt'[q] = attempt[q]
<1>1. attempt \in [Slots -> AttemptType] /\ faults \in Nat
  BY DEF IInv, Typed
<1>2. faults' \in 1..MaxFaults /\ faults' \in Nat
  BY <1>1 DEF Fault, KeyValueAssumption
<1>3. faults' \in Slots /\ faults' \notin Servers /\ s \in Slots /\ faults' # s
  BY <1>2, TransportSlots DEF Slots
<1> DEFINE f == faults'
           x == LeftBehind(attempt[s])
<1>4. attempt' = [attempt EXCEPT ![s] = NoAttempt, ![f] = x]
  BY DEF GiveUp
<1> HIDE DEF f
<1>5. x \in AttemptType /\ AttemptFits(x) /\ (x.stage = "held" => attempt[s].stage = "held")
  <2>1. attempt[s] \in AttemptType /\ AttemptFits(attempt[s])
    BY <1>1, <1>3 DEF IInv
  <2>2. AttemptFits(NoAttempt)
    BY NoneFits DEF IInv
  <2>3. QED
    BY <2>1, <2>2, Blanks DEF LeftBehind
<1> HIDE DEF x
<1>6. /\ attempt'[s] = NoAttempt /\ attempt'[f] = x
      /\ \A q \in Slots : q # s /\ q # f => attempt'[q] = attempt[q]
      /\ attempt' \in [Slots -> AttemptType]
  BY <1>1, <1>3, <1>4, <1>5, Blanks DEF f
<1>7. \A q \in Slots : AttemptFits(attempt'[q])
  <2> TAKE q \in Slots
  <2>1. AttemptFits(NoAttempt) /\ AttemptFits(attempt[q])
    BY NoneFits DEF IInv
  <2>2. QED
    BY <1>5, <1>6, <2>1
<1>8. \A q \in Slots : attempt'[q].stage = "held" =>
        q # s /\ (q = f => attempt[s].stage = "held") /\ (q # f => attempt[q].stage = "held")
  BY <1>5, <1>6, Blanks
<1>9. OneHolder'
  BY <1>3, <1>8 DEF IInv, OneHolder
<1>10. QED
  BY <1>2, <1>3, <1>6, <1>7, <1>9 DEF AttemptsFit, f, x

\* A retry, or no time left for one.
LEMMA AgainFits ==
  ASSUME IInv, NEW s \in Servers, Again(s)
  PROVE  ChangesFit
<1>1. CASE attempt[s].for \in Changes
  BY <1>1, SetCall, EndChange DEF Again, Failed
<1>2. CASE attempt[s].for \notin Changes
  BY <1>2, SameChanges DEF Again
<1>3. QED
  BY <1>1, <1>2

\* What an answer leaves of the requests.
LEMMA AnsweredIs ==
  ASSUME IInv, NEW q \in Slots, NEW x \in AttemptType, Answered(q, x)
  PROVE  /\ attempt' \in [Slots -> AttemptType] /\ attempt'[q] = x
         /\ \A p \in Slots \ {q} :
              /\ attempt'[p].stage = attempt[p].stage /\ Alike(attempt'[p], attempt[p])
              /\ attempt'[p].for = attempt[p].for /\ attempt'[p].flags = attempt[p].flags
              /\ p \in LeftBy(q) => attempt'[p].old
              /\ p \notin LeftBy(q) => attempt'[p] = attempt[p]
<1>1. attempt \in [Slots -> AttemptType]
  BY DEF IInv, Typed
<1>2. \A p \in Slots : attempt'[p] = IF p = q THEN x ELSE [attempt[p] EXCEPT !.old = @ \/ p \in LeftBy(q)]
  BY DEF Answered
<1>3. \A p \in Slots : LET y == [attempt[p] EXCEPT !.old = @ \/ p \in LeftBy(q)] IN
        /\ y \in AttemptType /\ y.stage = attempt[p].stage /\ Alike(y, attempt[p])
        /\ y.for = attempt[p].for /\ y.flags = attempt[p].flags
        /\ p \in LeftBy(q) => y.old
        /\ p \notin LeftBy(q) => y = attempt[p]
  BY <1>1 DEF AttemptType, Alike
<1>4. attempt' = [p \in Slots |-> attempt'[p]]
  BY DEF Answered
<1>5. \A p \in Slots : attempt'[p] \in AttemptType
  BY <1>1, <1>2, <1>3
<1>6. attempt' \in [Slots -> AttemptType]
  BY <1>4, <1>5
<1>7. QED
  BY <1>2, <1>3, <1>6

LEMMA AnswerFitsIn ==
  ASSUME IInv, NEW q \in Slots, NEW x \in AttemptType, Answered(q, x), AttemptFits(x), x.stage # "held"
  PROVE  AttemptsFit
<1>1. /\ attempt' \in [Slots -> AttemptType] /\ attempt'[q] = x
      /\ \A p \in Slots \ {q} :
           /\ attempt'[p].stage = attempt[p].stage /\ Alike(attempt'[p], attempt[p])
           /\ attempt'[p].for = attempt[p].for
  BY AnsweredIs
<1>2. \A p \in Slots : AttemptFits(attempt'[p])
  <2> TAKE p \in Slots
  <2>1. CASE p = q
    BY <1>1, <2>1
  <2>2. CASE p # q
    <3>1. AttemptFits(attempt[p])
      BY DEF IInv
    <3>2. QED
      BY <1>1, <2>2, <3>1 DEF AttemptFits, Reading, Holding, Alike
  <2>3. QED
    BY <2>1, <2>2
<1>3. OneHolder'
  <2>1. \A p \in Slots : attempt'[p].stage = "held" => attempt[p].stage = "held"
    BY <1>1
  <2>2. QED
    BY <2>1 DEF IInv, OneHolder
<1>4. QED
  BY <1>1, <1>2, <1>3 DEF AttemptsFit

\* Nothing a client does takes a reading for more than it was.
ClientStep ==
  \/ \E s \in Servers : \/ SendLookup(s) \/ LoseAttempt(s) \/ SweepLookup(s) \/ TakeLookup(s)
                        \/ LookUpAgain(s) \/ OnConnect(s) \/ Leave(s) \/ Crash(s)
  \/ \E q \in Slots : KVGet(q) \/ NeverLands(q)
  \/ \E c \in Changes : StartChange(c) \/ ChangeStep(c) \/ SweepChange(c) \/ DropRead(c)

LEMMA ClientNext ==
  ASSUME IInv, ClientStep, KeyValueAssumption
  PROVE  IInv'
<1>0. /\ Typed /\ attempt \in [Slots -> AttemptType] /\ change \in [Changes -> ChangeType]
      /\ faults \in Nat /\ (Fault => faults' \in Nat)
      /\ \A c \in Changes : Home[c] \in Slots
      /\ \A c \in Changes : Reading(change[c])
      /\ \A s \in Servers : s \in Slots
  BY TransportSlots DEF IInv, Typed, Fault
<1>1. ASSUME NEW s \in Servers, SendLookup(s) PROVE IInv'
  <2> DEFINE x == [NoAttempt EXCEPT !.stage = "get"]
  <2>1. x \in AttemptType /\ x.rev = 0 /\ x.seen = 0 /\ x.gone = 0 /\ x.stage = "get"
    BY DEF NoAttempt, AttemptType
  <2>2. AttemptFits(x) /\ x.stage # "held"
    BY <1>0, <2>1, NothingRead DEF AttemptFits
  <2>3. attempt' = [attempt EXCEPT ![s] = x] /\ change' = change /\ UNCHANGED hubVars /\ faults' = faults
    BY <1>1 DEF SendLookup
  <2> HIDE DEF x
  <2>4. QED
    BY <1>0, <2>1, <2>2, <2>3, SetAttempt, SameChanges, ClientKeeps
<1>2. ASSUME NEW s \in Servers, LoseAttempt(s) PROVE IInv'
  BY <1>0, <1>2, AgainFits, GiveUpFits, ClientKeeps DEF LoseAttempt
<1>3. ASSUME NEW q \in Slots, NeverLands(q) PROVE IInv'
  BY <1>0, <1>3, SameChanges, EndAttempt, ClientKeeps DEF NeverLands
<1>4. ASSUME NEW s \in Servers, TakeLookup(s) PROVE IInv'
  BY <1>0, <1>4, SameChanges, EndAttempt, ClientKeeps DEF TakeLookup
<1>5. ASSUME NEW s \in Servers, SweepLookup(s) \/ LookUpAgain(s) \/ OnConnect(s) \/ Leave(s) PROVE IInv'
  <2>1. change' = change /\ attempt' = attempt /\ UNCHANGED hubVars /\ faults' \in Nat
    BY <1>0, <1>5 DEF SweepLookup, LookUpAgain, OnConnect, Leave, clientVars
  <2>2. QED
    BY <2>1, SameChanges, SameAttempts, ClientKeeps
<1>6. ASSUME NEW s \in Servers, Crash(s) PROVE IInv'
  <2>1. ChangesFit
    <3>1. Ended \in ChangeType /\ Reading(Ended)
      BY <1>0, Blanks, NothingRead
    <3>2. QED
      BY <1>0, <1>6, <3>1 DEF Crash, ChangesFit
  <2>2. AttemptsFit /\ faults' \in Nat
    BY <1>6, GiveUpFits DEF Crash
  <2>3. QED
    BY <1>6, <2>1, <2>2, ClientKeeps DEF Crash
<1>7. ASSUME NEW q \in Slots, KVGet(q) PROVE IInv'
  <2> DEFINE x == Answer(q, "found", IF Live THEN row.flags ELSE {}, CurrentRevision, CurrentVersion)
  <2>1. change' = change /\ UNCHANGED hubVars /\ faults' = faults /\ Answered(q, x)
    BY <1>7 DEF KVGet
  <2>2. attempt[q].for \in Changes \cup {Other} /\ row.flags \subseteq Flags /\ gone \in Nat
    BY <1>0 DEF Typed, AttemptType, RowType
  <2>3. x \in AttemptType /\ x.stage \in {"found", "none"} /\ AttemptFits(x)
    <3>1. CASE q \in Servers
      <4>1. /\ x.stage = "found" /\ x.rev = CurrentRevision /\ x.seen = CurrentVersion /\ x.gone = gone
            /\ x \in AttemptType
        BY <2>2, <3>1, Currents, <1>0 DEF Answer, AttemptType
      <4>2. QED
        BY <2>2, <4>1 DEF AttemptFits, Reading
    <3>2. CASE q \notin Servers
      BY <1>0, <3>2, Blanks, NoneFits DEF Answer
    <3>3. QED
      BY <3>1, <3>2
  <2> HIDE DEF x
  <2>4. QED
    BY <1>0, <2>1, <2>3, SameChanges, AnswerFitsIn, ClientKeeps
<1>8. ASSUME NEW c \in Changes, StartChange(c) PROVE IInv'
  <2> DEFINE x == [change[c] EXCEPT !.stage = "reading", !.call = "queued"]
  <2>1. change[c] \in ChangeType
    BY <1>0
  <2>2. x \in ChangeType /\ Alike(x, change[c])
    BY <2>1 DEF ChangeType, Alike
  <2>3. Reading(x)
    BY <1>0, <2>2 DEF Reading, Alike
  <2>4. change' = [change EXCEPT ![c] = x] /\ attempt' = attempt /\ UNCHANGED hubVars /\ faults' = faults
    BY <1>0, <1>8 DEF StartChange
  <2> HIDE DEF x
  <2>5. QED
    BY <1>0, <2>2, <2>3, <2>4, SetChange, SameAttempts, ClientKeeps
<1>9. ASSUME NEW c \in Changes, SendForChange(c) PROVE IInv'
  <2> DEFINE x == [stage |-> IF change[c].stage = "reading" THEN "get" ELSE "set", for |-> c,
                   flags |-> change[c].flags, rev |-> change[c].rev, seen |-> change[c].seen,
                   gone |-> change[c].gone, old |-> FALSE]
  <2>1. x \in AttemptType /\ Alike(x, change[c]) /\ x.stage # "held" /\ x.for = c
    BY <1>0 DEF ChangeType, AttemptType, Alike
  <2>2. AttemptFits(x)
    BY <1>0, <2>1 DEF AttemptFits, Reading, Alike
  <2>3. /\ attempt' = [attempt EXCEPT ![Home[c]] = x] /\ change' = [change EXCEPT ![c].call = "sent"]
        /\ UNCHANGED hubVars /\ faults' = faults
    BY <1>9 DEF SendForChange
  <2> HIDE DEF x
  <2>4. ChangesFit
    BY <2>3, SetCall
  <2>5. QED
    BY <1>0, <2>1, <2>2, <2>3, <2>4, SetAttempt, ClientKeeps
<1>10. ASSUME NEW c \in Changes, TakeRead(c) PROVE IInv'
  <2> DEFINE s == Home[c]
             x == [stage |-> "writing", call |-> "queued", tries |-> change[c].tries,
                   flags |-> Merged(attempt[s].flags, c), rev |-> attempt[s].rev,
                   seen |-> attempt[s].seen, gone |-> attempt[s].gone, wrote |-> TRUE]
  <2>0. s \in Slots /\ attempt[s] \in AttemptType /\ attempt[s].stage = "found"
    BY <1>0, <1>10 DEF TakeRead
  <2>1. AttemptsFit /\ UNCHANGED hubVars /\ faults' \in Nat
    BY <1>0, <1>10, <2>0, EndAttempt DEF TakeRead
  <2>2. CASE change' = [change EXCEPT ![c] = Ended]
    BY <2>1, <2>2, EndChange, ClientKeeps
  <2>3. CASE change' = [change EXCEPT ![c] = x]
    <3>1. Reading(attempt[s])
      BY <2>0 DEF IInv, AttemptFits
    <3>2. Alike(x, attempt[s])
      BY DEF Alike
    <3>3. Merged(attempt[s].flags, c) \subseteq Flags
      BY <2>0 DEF Merged, AttemptType, KeyValueAssumption
    <3>4. x \in ChangeType
      BY <1>0, <2>0, <3>3 DEF ChangeType, AttemptType
    <3>5. Reading(x)
      BY <3>1, <3>2 DEF Reading, Alike
    <3> HIDE DEF x
    <3>6. QED
      BY <2>1, <2>3, <3>4, <3>5, SetChange, ClientKeeps
  <2>4. change' = [change EXCEPT ![c] = Ended] \/ change' = [change EXCEPT ![c] = x]
    BY <1>0, <1>10 DEF TakeRead, Finish
  <2>5. QED
    BY <2>2, <2>3, <2>4
<1>11. ASSUME NEW c \in Changes, TakeWritten(c) PROVE IInv'
  BY <1>0, <1>11, EndChange, EndAttempt, ClientKeeps DEF TakeWritten, Finish
<1>12. ASSUME NEW c \in Changes, TakeMismatch(c) PROVE IInv'
  <2> DEFINE x == [NewChange EXCEPT !.stage = "reading", !.call = "queued",
                                    !.tries = change[c].tries + 1, !.wrote = TRUE]
  <2>1. AttemptsFit /\ UNCHANGED hubVars /\ faults' \in Nat
    BY <1>0, <1>12, EndAttempt DEF TakeMismatch
  <2>2. change[c].tries + 1 \in Nat
    BY <1>0 DEF ChangeType
  <2>3. x \in ChangeType /\ x.rev = 0 /\ x.seen = 0 /\ x.gone = 0
    BY <2>2 DEF NewChange, Ended, ChangeType
  <2>4. Reading(x)
    BY <1>0, <2>3, NothingRead
  <2>5. change' = [change EXCEPT ![c] = Ended] \/ change' = [change EXCEPT ![c] = x]
    BY <1>12 DEF TakeMismatch, Failed
  <2> HIDE DEF x
  <2>6. ChangesFit
    BY <2>3, <2>4, <2>5, SetChange, EndChange
  <2>7. QED
    BY <2>1, <2>6, ClientKeeps
<1>13. ASSUME NEW c \in Changes, SweepChange(c) PROVE IInv'
  BY <1>0, <1>13, EndChange, SameAttempts, ClientKeeps DEF SweepChange, Failed
<1>14. ASSUME NEW c \in Changes, DropRead(c) PROVE IInv'
  BY <1>0, <1>14, EndChange, EndAttempt, ClientKeeps DEF DropRead
<1>15. QED
  BY <1>1, <1>2, <1>3, <1>4, <1>5, <1>6, <1>7, <1>8, <1>9, <1>10, <1>11, <1>12, <1>13,
     <1>14
     DEF ClientStep, ChangeStep

-------------------------------------------------------------------------------
(* Steps of the hub *)

\* A set finds the lock free, and takes it with the revision it compared.
LEMMA BeginKeeps ==
  ASSUME IInv, NEW q \in Slots, BeginKVSet(q)
  PROVE  IInv'
<1>0. /\ Typed /\ attempt \in [Slots -> AttemptType] /\ attempt[q] \in AttemptType
      /\ \A p \in Slots : attempt[p].stage # "held"
      /\ attempt[q].stage = "set" /\ Reading(attempt[q]) /\ attempt[q].for \in Changes
  BY DEF IInv, Typed, AttemptFits, BeginKVSet, KeyLock
<1>1. change' = change /\ UNCHANGED hubVars /\ faults' = faults /\ faults \in Nat
  BY <1>0 DEF BeginKVSet, Typed
<1>2. CASE attempt[q].rev # CurrentRevision
  <2> DEFINE x == Answer(q, "mismatch", {}, CurrentRevision, 0)
  <2>1. attempt' = [attempt EXCEPT ![q] = x]
    BY <1>0, <1>2 DEF BeginKVSet
  <2>2. x \in AttemptType /\ x.stage # "held" /\ AttemptFits(x)
    <3>1. CASE q \in Servers
      <4>1. x.stage = "mismatch" /\ x \in AttemptType
        BY <1>0, <3>1, Currents DEF Answer, Typed, AttemptType
      <4>2. QED
        BY <4>1 DEF AttemptFits
    <3>2. CASE q \notin Servers
      BY <1>0, <3>2, Blanks, NoneFits DEF Answer
    <3>3. QED
      BY <3>1, <3>2
  <2> HIDE DEF x
  <2>3. QED
    BY <1>1, <2>1, <2>2, SameChanges, SetAttempt, ClientKeeps
<1>3. CASE attempt[q].rev = CurrentRevision
  <2> DEFINE x == [attempt[q] EXCEPT !.stage = "held"]
  <2>1. attempt' = [attempt EXCEPT ![q] = x]
    BY <1>0, <1>3 DEF BeginKVSet
  <2>2. x \in AttemptType /\ Alike(x, attempt[q]) /\ x.stage = "held" /\ x.for = attempt[q].for
    BY <1>0 DEF AttemptType, Alike
  <2>3. AttemptFits(x)
    <3>1. CurrentRevision \in Nat
      BY <1>0, Currents
    <3>2. attempt[q].gone = gone => attempt[q].seen = CurrentVersion
      BY <1>0, <1>3, <3>1 DEF Reading
    <3>3. QED
      BY <1>0, <1>3, <2>2, <3>2 DEF AttemptFits, Reading, Holding, Alike
  <2> HIDE DEF x
  <2>4. \A p \in Slots : attempt'[p] = IF p = q THEN x ELSE attempt[p]
    BY <1>0, <2>1
  <2>5. attempt' \in [Slots -> AttemptType]
    BY <1>0, <2>1, <2>2
  <2>6. \A p \in Slots : AttemptFits(attempt'[p])
    BY <2>3, <2>4 DEF IInv
  <2>7. OneHolder'
    BY <1>0, <2>4 DEF OneHolder
  <2>8. AttemptsFit
    BY <2>5, <2>6, <2>7 DEF AttemptsFit
  <2>9. QED
    BY <1>1, <2>8, SameChanges, ClientKeeps
<1>4. QED
  BY <1>2, <1>3

\* The key keeps its type; what the current revision is then.
LEMMA CurrentsAfter ==
  ASSUME Typed'
  PROVE  CurrentRevision' \in Nat
  BY DEF Typed, RowType, CurrentRevision, Live

\* A write makes every reading of an earlier revision an old one.
LEMMA Outdated ==
  ASSUME Typed, gone' = gone, NEW r, r.rev \in Nat, Reading(r),
         CurrentRevision' \in Nat, CurrentRevision < CurrentRevision'
  PROVE  r.gone <= gone' /\ (r.gone = gone' => r.rev < CurrentRevision')
<1>1. CurrentRevision \in Nat
  BY Currents
<1>2. QED
  BY <1>1 DEF Reading

\* What holds after a write by one that held the lock, or found it free.
LEMMA WriteKeeps ==
  ASSUME IInv, Typed', gone' = gone, change' = change, CurrentRevision < CurrentRevision',
         \A q \in Slots :
            /\ attempt'[q].stage # "held"
            /\ \/ attempt'[q].stage = "written"
               \/ attempt'[q] = NoAttempt
               \/ /\ attempt'[q].stage = attempt[q].stage /\ Alike(attempt'[q], attempt[q])
                  /\ attempt'[q].for = attempt[q].for
  PROVE  IInv'
<1>1. Typed /\ CurrentRevision \in Nat /\ CurrentRevision' \in Nat /\ gone \in Nat
  BY Currents, CurrentsAfter DEF IInv, Typed
<1>2. \A c \in Changes : Reading(change[c])'
  <2> SUFFICES ASSUME NEW c \in Changes PROVE Reading(change[c])'
    OBVIOUS
  <2>1. Reading(change[c]) /\ change[c].rev \in Nat
    BY DEF IInv, Typed, ChangeType
  <2>2. QED
    BY <1>1, <2>1, Outdated DEF Reading
<1>3. ASSUME NEW q \in Slots PROVE AttemptFits(attempt[q])'
  <2>1. CASE attempt'[q].stage = "written"
    BY <2>1 DEF AttemptFits
  <2>2. CASE attempt'[q] = NoAttempt
    BY <1>1, <2>2, Blanks DEF AttemptFits, Reading
  <2>3. CASE /\ attempt'[q].stage = attempt[q].stage /\ Alike(attempt'[q], attempt[q])
             /\ attempt'[q].for = attempt[q].for
    <3>1. AttemptFits(attempt[q]) /\ attempt[q].rev \in Nat
      BY DEF IInv, Typed, AttemptType
    <3>2. CASE attempt[q].stage \in {"mismatch", "written"}
      BY <2>3, <3>2 DEF AttemptFits
    <3>3. CASE attempt[q].stage \notin {"mismatch", "written"}
      <4>1. Reading(attempt[q])
        BY <3>1, <3>3 DEF AttemptFits
      <4>2. attempt[q].gone <= gone' /\ (attempt[q].gone = gone' => attempt[q].rev < CurrentRevision')
        BY <1>1, <3>1, <4>1, Outdated
      <4>3. Reading(attempt[q])'
        BY <2>3, <4>2 DEF Reading, Alike
      <4>4. QED
        BY <2>3, <3>1, <4>3 DEF AttemptFits
    <3>4. QED
      BY <3>2, <3>3
  <2>4. QED
    BY <2>1, <2>2, <2>3
<1>4. OneHolder'
  BY DEF OneHolder
<1>5. QED
  BY <1>2, <1>3, <1>4 DEF IInv

\* The holder writes what its revision was compared with, and lets go.
LEMMA CommitKeeps ==
  ASSUME IInv, KeyValueAssumption, NEW q \in Slots, CommitKVSet(q)
  PROVE  IInv'
<1> DEFINE x == Answer(q, "written", attempt[q].flags, attempt[q].rev + 1, 0)
           s == Home[attempt[q].for]
<1>1. /\ Typed /\ Holding(attempt[q]) /\ attempt[q] \in AttemptType /\ CurrentRevision \in Nat
      /\ attempt[q].stage = "held" /\ s \in Servers
      /\ attempt \in [Slots -> AttemptType]
  BY Currents, TransportSlots DEF IInv, Typed, AttemptFits, CommitKVSet
<1>2. /\ change' = change /\ gone' = gone /\ writes' = writes + 1 /\ faults' = faults
      /\ row' = Written(attempt[q].flags, attempt[q].rev + 1, FALSE, s)
      /\ Answered(q, x)
  BY DEF CommitKVSet
<1>3. x \in AttemptType /\ x.stage # "held" /\ (x.stage = "written" \/ x = NoAttempt)
  BY <1>1, Blanks DEF Typed, AttemptType, Answer
<1>4. /\ attempt' \in [Slots -> AttemptType] /\ attempt'[q] = x
      /\ \A p \in Slots \ {q} :
           /\ attempt'[p].stage = attempt[p].stage /\ Alike(attempt'[p], attempt[p])
           /\ attempt'[p].for = attempt[p].for
  <2> HIDE DEF x
  <2>1. QED
    BY <1>2, <1>3, AnsweredIs
<1>5. row' \in RowType /\ row'.rev = attempt[q].rev + 1 /\ row'.rev > 0 /\ ~row'.lapsed
  <2>1. attempt[q].flags \subseteq Flags /\ attempt[q].rev \in Nat /\ writes \in Nat
    BY <1>1 DEF AttemptType, Typed
  <2> HIDE DEF s
  <2>2. row' = [flags |-> attempt[q].flags, rev |-> attempt[q].rev + 1, ttl |-> FALSE,
                lapsed |-> FALSE, by |-> s, ver |-> writes + 1]
    BY <1>2 DEF Written
  <2>3. row'.rev = attempt[q].rev + 1 /\ row'.lapsed = FALSE
    BY <2>2
  <2>4. attempt[q].rev + 1 \in Nat /\ attempt[q].rev + 1 > 0 /\ writes + 1 \in Nat
    BY <2>1
  <2>5. row' \in RowType
    BY <1>1, <2>1, <2>2, <2>4 DEF RowType, Writers
  <2>6. QED
    BY <2>3, <2>4, <2>5
<1>6. Typed'
  <2>1. writes' \in Nat /\ gone' \in Nat /\ gone' <= writes' /\ faults' \in Nat
    BY <1>1, <1>2 DEF Typed
  <2>2. change' \in [Changes -> ChangeType]
    BY <1>1, <1>2 DEF Typed
  <2>3. QED
    BY <1>4, <1>5, <2>1, <2>2 DEF Typed
<1>7. CurrentRevision < CurrentRevision'
  <2>1. attempt[q].rev \in Nat /\ (attempt[q].rev = CurrentRevision \/ CurrentRevision = 0)
    BY <1>1 DEF Holding, AttemptType
  <2>2. CurrentRevision' = attempt[q].rev + 1
    <3>1. NoRow.rev = 0
      BY DEF NoRow
    <3>2. row' # NoRow
      BY <1>5, <3>1
    <3>3. QED
      BY <1>5, <3>2 DEF CurrentRevision, Live
  <2>3. QED
    BY <1>1, <2>1, <2>2
<1>8. \A p \in Slots \ {q} : attempt[p].stage # "held"
  BY <1>1 DEF IInv, OneHolder
<1>9. \A p \in Slots : /\ attempt'[p].stage # "held"
                       /\ \/ attempt'[p].stage = "written"
                          \/ attempt'[p] = NoAttempt
                          \/ /\ attempt'[p].stage = attempt[p].stage /\ Alike(attempt'[p], attempt[p])
                             /\ attempt'[p].for = attempt[p].for
  <2> HIDE DEF x
  <2> TAKE p \in Slots
  <2>1. CASE p = q
    BY <1>3, <1>4, <2>1
  <2>2. CASE p # q
    BY <1>4, <1>8, <2>2
  <2>3. QED
    BY <2>1, <2>2
<1>10. QED
  BY <1>2, <1>6, <1>7, <1>9, WriteKeeps

LEMMA BotKeeps ==
  ASSUME IInv, NEW flags \in SUBSET Flags, NEW ttl \in BOOLEAN, BotSet(flags, ttl)
  PROVE  IInv'
<1>1. Typed /\ CurrentRevision \in Nat
  BY Currents DEF IInv
<1>2. /\ change' = change /\ attempt' = attempt /\ gone' = gone /\ writes' = writes + 1
      /\ faults' = faults /\ row' = Written(flags, CurrentRevision + 1, ttl, Other)
  BY DEF BotSet, clientVars
<1>3. row' \in RowType /\ row'.rev = CurrentRevision + 1 /\ row'.rev > 0 /\ ~row'.lapsed
  BY <1>1, <1>2 DEF Written, RowType, Typed, Writers
<1>4. Typed'
  BY <1>1, <1>2, <1>3 DEF Typed
<1>5. CurrentRevision' = CurrentRevision + 1
  <2>1. NoRow.rev = 0
    BY DEF NoRow
  <2>2. row' # NoRow
    BY <1>3, <2>1
  <2>3. QED
    BY <1>3, <2>2 DEF CurrentRevision, Live
<1>6. \A q \in Slots : attempt'[q].stage # "held" /\ attempt'[q] = attempt[q]
  BY <1>2 DEF BotSet, KeyLock
<1>7. QED
  BY <1>1, <1>2, <1>4, <1>5, <1>6, WriteKeeps DEF Alike

\* The key goes: what was read of it before stands for nothing any more.
LEMMA TakeAway ==
  ASSUME IInv, KVDelete \/ Lapse
  PROVE  IInv'
<1>1. /\ Typed /\ change' = change /\ attempt' = attempt /\ faults' = faults
      /\ writes' = writes + 1 /\ gone' = writes + 1
      /\ gone \in Nat /\ writes \in Nat /\ gone <= writes
  BY DEF IInv, Typed, KVDelete, Lapse, clientVars
<1>2. row' \in RowType /\ (row' # NoRow => row'.rev > 0)
  <2>1. CASE KVDelete
    BY <2>1 DEF KVDelete, NoRow, RowType, Writers
  <2>2. CASE Lapse
    BY <1>1, <2>2 DEF Lapse, Live, RowType, Typed
  <2>3. QED
    BY <2>1, <2>2
<1>3. Typed'
  BY <1>1, <1>2 DEF Typed
<1>4. \A r : Reading(r) /\ r.gone \in Nat => r.gone < gone'
  BY <1>1 DEF Reading
<1>5. \A c \in Changes : Reading(change[c])'
  <2>1. \A c \in Changes : change[c].gone \in Nat /\ Reading(change[c])
    BY DEF IInv, Typed, ChangeType
  <2>2. QED
    BY <1>1, <1>4, <2>1 DEF Reading
<1>6. \A q \in Slots : attempt[q].gone \in Nat /\ AttemptFits(attempt[q])
  BY <1>1 DEF IInv, Typed, AttemptType
<1>7. ASSUME NEW q \in Slots PROVE AttemptFits(attempt[q])'
  <2>1. attempt[q].stage \notin {"mismatch", "written"} => Reading(attempt[q])'
    BY <1>1, <1>4, <1>6 DEF AttemptFits, Reading
  <2>2. ASSUME attempt[q].stage = "held" PROVE Holding(attempt[q])'
    <3>1. Lapse /\ Reading(attempt[q])
      BY <1>6, <2>2 DEF KVDelete, KeyLock, AttemptFits
    <3>2. CurrentRevision' = 0
      BY <1>1, <3>1 DEF Lapse, CurrentRevision, Live, Typed, RowType
    <3>3. attempt[q].gone < gone'
      BY <1>4, <1>6, <3>1
    <3>4. attempt[q].gone # gone'
      BY <1>1, <1>6, <3>3
    <3>5. QED
      BY <1>1, <3>2, <3>4 DEF Holding
  <2>3. QED
    BY <1>1, <1>6, <2>1, <2>2 DEF AttemptFits
<1>8. OneHolder'
  BY <1>1 DEF IInv, OneHolder
<1>9. QED
  BY <1>3, <1>5, <1>7, <1>8 DEF IInv

\* The retention pass deletes a row that already reads as absent.
LEMMA PruneKeeps ==
  ASSUME IInv, PickExpired \/ PruneKV
  PROVE  IInv'
<1>1. /\ Typed /\ change' = change /\ attempt' = attempt /\ writes' = writes /\ faults' = faults
      /\ gone' = gone /\ (row' = row \/ (row.lapsed /\ row' = NoRow))
  BY DEF IInv, PickExpired, PruneKV, clientVars
<1>2. CurrentRevision' = CurrentRevision /\ CurrentVersion' = CurrentVersion
  BY <1>1 DEF CurrentRevision, CurrentVersion, Live
<1>3. NoRow \in RowType
  BY DEF NoRow, RowType, Writers
<1>4. Typed'
  BY <1>1, <1>3 DEF Typed
<1>5. \A c \in Changes : Reading(change[c])'
  BY <1>1, <1>2 DEF IInv, Reading
<1>6. \A q \in Slots : AttemptFits(attempt[q])'
  BY <1>1, <1>2 DEF IInv, AttemptFits, Reading, Holding
<1>7. OneHolder'
  BY <1>1 DEF IInv, OneHolder
<1>8. QED
  BY <1>4, <1>5, <1>6, <1>7 DEF IInv

LEMMA IInvNext ==
  ASSUME IInv, KeyValueAssumption, [Next]_vars
  PROVE  IInv'
<1>1. CASE UNCHANGED vars
  <2>1. change' = change /\ attempt' = attempt /\ UNCHANGED hubVars /\ faults' \in Nat
    BY <1>1 DEF vars, clientVars, IInv, Typed
  <2>2. QED
    BY <2>1, SameChanges, SameAttempts, ClientKeeps
<1>2. CASE Next
  <2>1. CASE ClientStep
    BY <2>1, ClientNext
  <2>2. CASE \E q \in Slots : BeginKVSet(q) \/ CommitKVSet(q)
    BY <2>2, BeginKeeps, CommitKeeps
  <2>3. CASE \E flags \in SUBSET Flags, ttl \in BOOLEAN : BotSet(flags, ttl)
    BY <2>3, BotKeeps
  <2>4. CASE KVDelete \/ Lapse \/ PickExpired \/ PruneKV
    BY <2>4, TakeAway, PruneKeeps
  <2>5. QED
    BY <1>2, <2>1, <2>2, <2>3, <2>4 DEF Next, HubStep, LookupStep, ClientStep
<1>3. QED
  BY <1>1, <1>2

-------------------------------------------------------------------------------
(* What the invariant is for *)

\* No update is lost (lockKey, kvSet's compare, and the revision the plugin
\* names): a server's write replaces the record its change merged from, or the
\* key was deleted or lapsed since the read, also when the plugin had long
\* given the write up.
THEOREM UpdatesAreKept == Spec => NoUpdateLost
<1> USE KeyValueAssumption
<1>1. Init => IInv
  BY IInvInit
<1>2. IInv /\ [Next]_vars => IInv'
  BY IInvNext
<1>3. IInv => [\A q \in Slots : CommitKVSet(q) =>
                 attempt[q].seen = CurrentVersion \/ attempt[q].gone # gone]_vars
  BY DEF IInv, AttemptFits, Holding, CommitKVSet
<1>4. QED
  BY <1>1, <1>2, <1>3, PTL DEF Spec, NoUpdateLost

-------------------------------------------------------------------------------
(* What the game is told *)

\* A lookup, or a change that has a write behind it, is under way for the game
\* of this server.
WillTell(s) == lookup[s] # "none" \/ \E c \in Changes : Home[c] = s /\ change[c].wrote

\* The game that shows something else than the record its own server wrote is
\* still to be told, but where a write has escaped the plugin.
GameTold(s) == s \in online /\ row.by = s /\ known[s] # row.flags /\ s \notin missed => WillTell(s)
GameIsTold == \A s \in Servers : GameTold(s)

\* A change that writes says so, and only one under way has a call.
ChangeFits(c) ==
  /\ change[c].stage = "writing" => change[c].wrote
  /\ change[c].call # "none" => change[c].stage \in {"reading", "writing"}

\* No TTL is on a record a change wrote.
OwnRow(s) == row.by = s => row # NoRow /\ ~row.ttl /\ ~row.lapsed

\* An answer tells the record the server wrote, for nobody else writes as it,
\* and what it left behind was still to land when the hub answered.
AnswerFits(s) ==
  attempt[s].stage \in {"found", "written"} /\ row.by = s /\ s \notin missed =>
    attempt[s].flags = row.flags /\ (attempt[s].stage = "found" => attempt[s].rev > 0)

\* A transport's request is its change's, or the lookup's; a write among them
\* has the change waiting for it.
CallFits(s, c) ==
  /\ Home[c] = s /\ change[c].call = "sent"
  /\ attempt[s].stage \in {"set", "held", "written"} =>
       change[c].stage = "writing" /\ change[c].flags = attempt[s].flags
RequestFits(s) ==
  /\ attempt[s].stage \in {"set", "held", "written"} => attempt[s].for \in Changes
  /\ attempt[s].stage # "none" => IF attempt[s].for \in Changes THEN CallFits(s, attempt[s].for)
                                                               ELSE lookup[s] = "sent"

\* A set left behind has the game still to be told, until the server has read
\* or written the key again: from then on it is old, and its landing is missed.
Stray(s, q) == q \in LeftBy(s) /\ attempt[q].stage \in {"set", "held"}
StrayFits(s, q) ==
  /\ ~attempt[q].old /\ s \in online /\ s \notin missed => WillTell(s)
  /\ attempt[s].stage \in {"found", "written"} => attempt[q].old
StraysFit(s) == \A q \in Slots : Stray(s, q) => StrayFits(s, q)

Told(s) == OwnRow(s) /\ AnswerFits(s) /\ RequestFits(s) /\ StraysFit(s) /\ GameTold(s)

Lookups == {"none", "queued", "sent", "waiting"}
ClientTyped == lookup \in [Servers -> Lookups] /\ known \in [Servers -> SUBSET (Flags \cup {Other})]

TInv == IInv /\ ClientTyped /\ (\A c \in Changes : ChangeFits(c)) /\ \A s \in Servers : Told(s)

LEMMA TInvInit == Init /\ KeyValueAssumption => TInv
<1> SUFFICES ASSUME Init, KeyValueAssumption PROVE TInv
  OBVIOUS
<1>1. IInv
  BY IInvInit
<1>2. ClientTyped
  BY DEF Init, ClientTyped, Lookups, Unknown
<1>3. \A c \in Changes : ChangeFits(c)
  BY DEF Init, ChangeFits, NewChange, Ended
<1>4. (\A s \in Servers : row.by # s) /\ \A q \in Slots : attempt[q].stage = "none"
  BY DEF KeyValueAssumption, Init, NoRow, NoAttempt
<1>5. \A s \in Servers : Told(s)
  BY <1>4, TransportSlots DEF Told, OwnRow, AnswerFits, RequestFits, StraysFit, Stray, GameTold
<1>6. QED
  BY <1>1, <1>2, <1>3, <1>5 DEF TInv

\* What the invariant says of the variables' types.
LEMMA ToldTypes ==
  ASSUME TInv, KeyValueAssumption
  PROVE  /\ change \in [Changes -> ChangeType] /\ attempt \in [Slots -> AttemptType]
         /\ ClientTyped /\ \A c \in Changes : Home[c] \in Servers /\ ChangeFits(c)
         /\ row \in RowType /\ (row # NoRow => row.rev > 0)
         /\ Other \notin Servers /\ Other \notin Changes
         /\ \A s \in Servers : Told(s) /\ s \in Slots
  BY TransportSlots DEF TInv, IInv, Typed, KeyValueAssumption

\* What a server left behind, before and after a step.
LeftAlone(s) == \A q \in Slots \ Servers : q \in LeftBy(s)' => attempt'[q] = attempt[q]

LEMMA OthersLeft ==
  ASSUME NEW s \in Servers, NEW q \in Slots, \A p \in Slots : p # q => attempt'[p] = attempt[p],
         q \in LeftBy(s)' => attempt'[q] = attempt[q]
  PROVE  LeftAlone(s)
BY DEF LeftAlone

LEMMA LeftStrays ==
  ASSUME NEW s \in Servers, LeftAlone(s)
  PROVE  \A q \in Slots : Stray(s, q)' => Stray(s, q) /\ attempt'[q] = attempt[q]
BY DEF LeftAlone, LeftBy, Stray

\* A step leaves a server alone: what it runs and left behind, its lookup, its
\* game and its changes.
Quiet(q) ==
  /\ attempt'[q] = attempt[q] /\ lookup'[q] = lookup[q] /\ known'[q] = known[q]
  /\ q \in online' => q \in online
  /\ q \in missed => q \in missed'
  /\ \A c \in Changes : Home[c] = q => change'[c] = change[c]
  /\ LeftAlone(q)

LEMMA QuietTold ==
  ASSUME NEW q \in Servers, Told(q), Quiet(q), row'.by = q => row' = row
  PROVE  Told(q)'
<1>1. WillTell(q)' <=> WillTell(q)
  BY DEF WillTell, Quiet
<1>2. ASSUME attempt[q].for \in Changes, CallFits(q, attempt[q].for)
      PROVE  CallFits(q, attempt[q].for)'
  BY <1>2 DEF CallFits, Quiet
<1>3. RequestFits(q)'
  BY <1>1, <1>2 DEF Told, RequestFits, Quiet
<1>4. StraysFit(q)'
  <2>1. \A p \in Slots : Stray(q, p)' => Stray(q, p) /\ attempt'[p] = attempt[p]
    BY LeftStrays DEF Quiet
  <2>2. QED
    BY <1>1, <2>1 DEF Told, StraysFit, StrayFits, Quiet
<1>5. QED
  BY <1>1, <1>3, <1>4 DEF Told, OwnRow, AnswerFits, GameTold, Quiet

\* A step of the server itself that leaves record and game as they are, gives
\* no answer, leaves nothing behind and leaves the game to be told if it was.
LEMMA SameGame ==
  ASSUME NEW q \in Servers, Told(q), row' = row, known'[q] = known[q], missed' = missed,
         attempt'[q].stage \in {"found", "written"} => attempt'[q] = attempt[q],
         \A p \in Slots : p # q => attempt'[p] = attempt[p],
         q \in online' => WillTell(q)' \/ (q \in online /\ ~WillTell(q)),
         RequestFits(q)'
  PROVE  Told(q)'
<1>1. LeftAlone(q)
  BY DEF LeftAlone
<1>2. \A p \in Slots : Stray(q, p)' => Stray(q, p) /\ attempt'[p] = attempt[p]
  BY <1>1, LeftStrays
<1>3. StraysFit(q)'
  BY <1>2 DEF Told, StraysFit, StrayFits
<1>4. QED
  BY <1>3 DEF Told, OwnRow, AnswerFits, GameTold

\* No request, no claim.
LEMMA NoRequest ==
  ASSUME NEW q \in Servers, attempt'[q] = NoAttempt
  PROVE  RequestFits(q)' /\ attempt'[q].stage = "none"
  BY DEF RequestFits, NoAttempt

\* What a server left behind is old when the answer to it is taken.
LEMMA OldStrays ==
  ASSUME NEW q \in Servers, Told(q), attempt[q].stage \in {"found", "written"},
         \A p \in Slots : p # q => attempt'[p] = attempt[p]
  PROVE  StraysFit(q)'
<1>1. LeftAlone(q)
  BY DEF LeftAlone
<1>2. \A p \in Slots : Stray(q, p)' => Stray(q, p) /\ attempt'[p] = attempt[p]
  BY <1>1, LeftStrays
<1>3. QED
  BY <1>2 DEF Told, StraysFit, StrayFits

\* A change that ends asks the store again if it wrote.
LEMMA FailedTells ==
  ASSUME TInv, KeyValueAssumption, NEW c \in Changes, Failed(c)
  PROVE  /\ lookup' \in [Servers -> Lookups]
         /\ \A d \in Changes : ChangeFits(d)' /\ (d # c => change'[d] = change[d])
         /\ \A q \in Servers : WillTell(q) => WillTell(q)'
         /\ \A q \in Servers : q # Home[c] \/ lookup[q] # "none" => lookup'[q] = lookup[q]
<1>1. /\ change \in [Changes -> ChangeType] /\ Home[c] \in Servers
      /\ lookup \in [Servers -> Lookups] /\ \A d \in Changes : ChangeFits(d)
  BY ToldTypes DEF ClientTyped
<1>2. /\ \A d \in Changes : change'[d] = IF d = c THEN Ended ELSE change[d]
      /\ lookup' = IF change[c].wrote THEN Asked(Home[c]) ELSE lookup
  BY <1>1 DEF Failed, AsksAgain
<1>3. Asked(Home[c]) \in [Servers -> Lookups]
  BY <1>1 DEF Asked, Lookups
<1>4. /\ \A q \in Servers : lookup[q] # "none" => Asked(Home[c])[q] = lookup[q]
      /\ \A q \in Servers : q # Home[c] => Asked(Home[c])[q] = lookup[q]
      /\ Asked(Home[c])[Home[c]] # "none"
  BY <1>1 DEF Asked
<1>5. ASSUME NEW q \in Servers, WillTell(q) PROVE WillTell(q)'
  <2>1. CASE lookup[q] # "none"
    BY <1>2, <1>4, <2>1 DEF WillTell
  <2>2. CASE Home[c] = q /\ change[c].wrote
    BY <1>2, <1>4, <2>2 DEF WillTell
  <2>3. ASSUME NEW d \in Changes, d # c, Home[d] = q, change[d].wrote PROVE WillTell(q)'
    BY <1>2, <2>3 DEF WillTell
  <2>4. QED
    BY <1>5, <2>1, <2>2, <2>3 DEF WillTell
<1>6. \A d \in Changes : ChangeFits(d)'
  BY <1>1, <1>2 DEF ChangeFits, Ended
<1>7. QED
  BY <1>1, <1>2, <1>3, <1>4, <1>5, <1>6

\* A retry, or the end of retries, leaves the game to be told if it was.
LEMMA AgainTells ==
  ASSUME TInv, KeyValueAssumption, NEW s \in Servers, Again(s),
         attempt[s].stage # "none"
  PROVE  /\ lookup' \in [Servers -> Lookups]
         /\ \A d \in Changes : ChangeFits(d)'
         /\ s \in online /\ WillTell(s) => WillTell(s)'
         /\ \A q \in Servers : q # s =>
              /\ lookup'[q] = lookup[q]
              /\ \A d \in Changes : Home[d] = q => change'[d] = change[d]
         /\ attempt[s].for \in Changes /\ change[attempt[s].for].wrote /\ s \in online => WillTell(s)'
<1> DEFINE c == attempt[s].for
<1>0. /\ change \in [Changes -> ChangeType] /\ lookup \in [Servers -> Lookups]
      /\ \A d \in Changes : ChangeFits(d)
  BY ToldTypes DEF ClientTyped
<1>1. CASE c \in Changes
  <2>1. Home[c] = s /\ change[c].call = "sent"
    BY <1>1, ToldTypes DEF Told, RequestFits, CallFits
  <2>2. change[c].wrote => WillTell(s)
    BY <1>1, <2>1 DEF WillTell
  <2>3. CASE Failed(c)
    BY <1>1, <2>1, <2>2, <2>3, FailedTells
  <2>4. CASE change' = [change EXCEPT ![c].call = "queued"] /\ lookup' = lookup
    <3>1. \A d \in Changes : /\ change'[d].stage = change[d].stage /\ change'[d].wrote = change[d].wrote
                             /\ d # c => change'[d] = change[d]
      BY <1>0, <2>4 DEF ChangeType
    <3>2. change[c].stage \in {"reading", "writing"}
      BY <1>0, <1>1, <2>1 DEF ChangeFits
    <3>3. \A d \in Changes : ChangeFits(d)'
      BY <1>0, <3>1, <3>2 DEF ChangeFits
    <3>4. WillTell(s) => WillTell(s)'
      BY <2>4, <3>1 DEF WillTell
    <3>5. QED
      BY <1>0, <2>1, <2>2, <2>4, <3>1, <3>3, <3>4
  <2>5. QED
    BY <1>1, <2>3, <2>4 DEF Again
<1>2. CASE c \notin Changes
  <2>1. /\ change' = change
        /\ \/ lookup' = [lookup EXCEPT ![s] = IF s \in online THEN "waiting" ELSE "none"]
           \/ lookup' = [lookup EXCEPT ![s] = "queued"]
    BY <1>2 DEF Again, FailedLookup
  <2>2. lookup' \in [Servers -> Lookups] /\ \A q \in Servers : q # s => lookup'[q] = lookup[q]
    BY <1>0, <2>1 DEF Lookups
  <2>3. s \in online => WillTell(s)'
    BY <1>0, <2>1 DEF WillTell
  <2>4. QED
    BY <1>0, <1>2, <2>1, <2>2, <2>3 DEF ChangeFits
<1>3. QED
  BY <1>1, <1>2

\* A step of one server leaves the others alone.
LEMMA OneServer ==
  ASSUME TInv, KeyValueAssumption, IInv', NEW s \in Servers, ClientTyped', Told(s)',
         \A c \in Changes : ChangeFits(c)',
         \A q \in Servers : q # s => Quiet(q) /\ (row'.by = q => row' = row)
  PROVE  TInv'
<1>1. \A q \in Servers : Told(q)'
  BY ToldTypes, QuietTold
<1>2. QED
  BY <1>1 DEF TInv

\* What every step of the hub for a request leaves alone.
LEMMA HubLeaves ==
  ASSUME TInv, KeyValueAssumption, NEW q \in Slots, HubStep(q)
  PROVE  /\ change' = change /\ lookup' = lookup /\ known' = known /\ online' = online
         /\ ClientTyped' /\ (\A c \in Changes : ChangeFits(c)')
         /\ \A s \in Servers : WillTell(s) <=> WillTell(s)'
<1>1. change' = change /\ lookup' = lookup /\ known' = known /\ online' = online
  BY DEF HubStep, KVGet, BeginKVSet, CommitKVSet, NeverLands
<1>2. ClientTyped /\ (\A c \in Changes : ChangeFits(c))
  BY DEF TInv
<1>3. QED
  BY <1>1, <1>2 DEF ClientTyped, ChangeFits, WillTell

\* A request left behind is answered to nobody.
LEMMA StrayTells ==
  ASSUME TInv, KeyValueAssumption, IInv', NEW q \in Slots \ Servers, HubStep(q)
  PROVE  TInv'
<1>0. /\ change \in [Changes -> ChangeType] /\ attempt \in [Slots -> AttemptType]
      /\ \A c \in Changes : Home[c] \in Servers
      /\ Other \notin Servers /\ \A s \in Servers : Told(s) /\ s \in Slots /\ s # q
  BY ToldTypes
<1>1. /\ change' = change /\ lookup' = lookup /\ known' = known /\ online' = online
      /\ ClientTyped' /\ (\A c \in Changes : ChangeFits(c)')
      /\ \A s \in Servers : WillTell(s) <=> WillTell(s)'
  BY HubLeaves
<1>2. \A p \in Slots : p \notin LeftBy(q)
  BY <1>0 DEF LeftBy
<1>3. NoAttempt \in AttemptType /\ NoAttempt.for = Other /\ Other \notin Changes
  BY Blanks DEF NoAttempt, KeyValueAssumption
<1>4. ASSUME Answered(q, NoAttempt) \/ attempt' = [attempt EXCEPT ![q] = NoAttempt]
      PROVE  attempt'[q] = NoAttempt /\ \A p \in Slots : p # q => attempt'[p] = attempt[p]
  BY <1>0, <1>2, <1>3, <1>4, AnsweredIs DEF TInv
<1>5. ASSUME attempt'[q] = NoAttempt, \A p \in Slots : p # q => attempt'[p] = attempt[p]
      PROVE  \A s \in Servers : LeftAlone(s)
  BY <1>3, <1>5, OthersLeft DEF LeftBy
<1>6. CASE CommitKVSet(q)
  <2>2. attempt[q].stage = "held" /\ attempt[q].for \in Changes
    BY <1>6 DEF CommitKVSet, TInv, IInv, AttemptFits
  <2>0. PICK s \in Servers : s = Home[attempt[q].for]
    BY <1>0, <2>2
  <2>1. /\ attempt[q].stage = "held" /\ row' = Written(attempt[q].flags, attempt[q].rev + 1, FALSE, s)
        /\ missed' = (IF attempt[q].old THEN missed \cup {s} ELSE missed \ {q})
        /\ Answered(q, NoAttempt)
    BY <1>6, <2>0 DEF CommitKVSet, Answer
  <2>3. s \in Servers /\ Stray(s, q)
    BY <2>0, <2>2 DEF Stray, LeftBy
  <2>4. row'.flags = attempt[q].flags /\ row'.by = s /\ row'.ttl = FALSE /\ row'.lapsed = FALSE
    BY <2>1 DEF Written
  <2>5. attempt'[q] = NoAttempt /\ \A p \in Slots : p # q => attempt'[p] = attempt[p]
    BY <1>4, <2>1
  <2>6. \A p \in Servers : LeftAlone(p) /\ (p \in missed => p \in missed')
    BY <1>0, <1>5, <2>1, <2>5
  <2>7. \A p \in Servers : p # s => Quiet(p) /\ row'.by # p
    BY <1>0, <1>1, <2>4, <2>5, <2>6 DEF Quiet
  <2>8. attempt'[s] = attempt[s]
    BY <1>0, <2>3, <2>5
  <2>9. RequestFits(s)'
    BY <1>0, <1>1, <2>3, <2>8 DEF Told, RequestFits, CallFits
  <2>10. StraysFit(s)'
    <3>1. \A p \in Slots : Stray(s, p)' => Stray(s, p) /\ attempt'[p] = attempt[p]
      BY <2>3, <2>6, LeftStrays
    <3>2. StraysFit(s)
      BY <1>0, <2>3 DEF Told
    <3>3. WillTell(s) <=> WillTell(s)'
      BY <1>1, <2>3
    <3>4. QED
      BY <1>1, <2>3, <2>6, <2>8, <3>1, <3>2, <3>3 DEF StraysFit, StrayFits
  <2>11. OwnRow(s)'
    BY <1>0, <2>3, <2>4 DEF OwnRow, NoRow
  <2>12. StrayFits(s, q)
    BY <1>0, <2>3 DEF Told, StraysFit
  <2>13. CASE attempt[q].old
    <3>1. s \in missed'
      BY <2>1, <2>13
    <3>2. AnswerFits(s)' /\ GameTold(s)'
      BY <3>1 DEF AnswerFits, GameTold
    <3>3. Told(s)'
      BY <2>9, <2>10, <2>11, <3>2 DEF Told
    <3>4. QED
      BY <1>1, <2>3, <2>7, <3>3, OneServer
  <2>14. CASE ~attempt[q].old
    <3>1. attempt'[s].stage \notin {"found", "written"}
      BY <2>8, <2>12, <2>14 DEF StrayFits
    <3>2. s \in online' /\ s \notin missed' => WillTell(s)'
      BY <1>1, <2>1, <2>3, <2>12, <2>14 DEF StrayFits
    <3>3. AnswerFits(s)' /\ GameTold(s)'
      BY <3>1, <3>2 DEF AnswerFits, GameTold
    <3>4. Told(s)'
      BY <2>9, <2>10, <2>11, <3>3 DEF Told
    <3>5. QED
      BY <1>1, <2>3, <2>7, <3>4, OneServer
  <2>15. QED
    BY <2>13, <2>14
<1>7. CASE ~CommitKVSet(q)
  <2>1. row' = row /\ \A p \in Servers : p \in missed <=> p \in missed'
    BY <1>0, <1>7 DEF HubStep, KVGet, BeginKVSet, NeverLands, hubVars
  <2>2. \/ Answered(q, NoAttempt) \/ attempt' = [attempt EXCEPT ![q] = NoAttempt]
        \/ attempt[q].stage = "set" /\ attempt' = [attempt EXCEPT ![q] = [attempt[q] EXCEPT !.stage = "held"]]
    BY <1>0, <1>7 DEF HubStep, KVGet, BeginKVSet, NeverLands, Answer
  <2>3. CASE Answered(q, NoAttempt) \/ attempt' = [attempt EXCEPT ![q] = NoAttempt]
    <3>1. \A p \in Servers : Quiet(p)
      BY <1>0, <1>1, <1>4, <1>5, <2>1, <2>3 DEF Quiet
    <3>2. \A p \in Servers : Told(p)'
      BY <1>0, <2>1, <3>1, QuietTold
    <3>3. QED
      BY <1>1, <3>2 DEF TInv
  <2>4. CASE /\ attempt[q].stage = "set"
             /\ attempt' = [attempt EXCEPT ![q] = [attempt[q] EXCEPT !.stage = "held"]]
    <3>1. /\ attempt'[q].stage = "held" /\ attempt'[q].for = attempt[q].for /\ attempt'[q].old = attempt[q].old
          /\ \A p \in Slots : p # q => attempt'[p] = attempt[p]
      BY <1>0, <2>4 DEF AttemptType
    <3>2. ASSUME NEW s \in Servers PROVE Told(s)'
      <4>1. attempt'[s] = attempt[s] /\ Told(s) /\ (WillTell(s) <=> WillTell(s)')
        BY <1>0, <1>1, <3>1
      <4>2. RequestFits(s)'
        BY <1>1, <4>1 DEF Told, RequestFits, CallFits
      <4>3. \A p \in Slots : Stray(s, p)' => Stray(s, p) /\ attempt'[p].old = attempt[p].old
        BY <2>4, <3>1 DEF Stray, LeftBy
      <4>4. StraysFit(s)'
        BY <1>1, <2>1, <4>1, <4>3 DEF Told, StraysFit, StrayFits
      <4>5. QED
        BY <1>1, <2>1, <4>1, <4>2, <4>4 DEF Told, OwnRow, AnswerFits, GameTold
    <3>3. QED
      BY <1>1, <3>2 DEF TInv
  <2>5. QED
    BY <2>2, <2>3, <2>4
<1>8. QED
  BY <1>6, <1>7

\* An answer to a server's own request makes old what it left behind, and
\* leaves the others alone.
LEMMA AnswerLeaves ==
  ASSUME TInv, KeyValueAssumption, NEW s \in Servers, NEW x \in AttemptType, Answered(s, x)
  PROVE  /\ attempt'[s] = x
         /\ \A q \in Slots : Stray(s, q)' => attempt'[q].old
         /\ \A q \in Servers : q # s => attempt'[q] = attempt[q] /\ LeftAlone(q)
<1>1. \A q \in Servers : q \in Slots
  BY TransportSlots
<1>2. /\ attempt'[s] = x
      /\ \A p \in Slots \ {s} :
           /\ attempt'[p].for = attempt[p].for
           /\ p \in LeftBy(s) => attempt'[p].old
           /\ p \notin LeftBy(s) => attempt'[p] = attempt[p]
  BY <1>1, AnsweredIs DEF TInv
<1>3. \A q \in Slots : Stray(s, q)' => attempt'[q].old
  BY <1>2 DEF Stray, LeftBy
<1>4. \A q \in Servers : q # s => attempt'[q] = attempt[q]
  BY <1>1, <1>2 DEF LeftBy
<1>5. \A q \in Servers : q # s => LeftAlone(q)
  BY <1>1, <1>2 DEF LeftAlone, LeftBy
<1>6. QED
  BY <1>2, <1>3, <1>4, <1>5

\* The hub answers a read from the record, and a write's compare from it.
LEMMA HubTells ==
  ASSUME TInv, KeyValueAssumption, IInv', NEW s \in Servers, HubStep(s)
  PROVE  TInv'
<1>0. /\ change \in [Changes -> ChangeType] /\ attempt \in [Slots -> AttemptType]
      /\ ClientTyped /\ \A c \in Changes : Home[c] \in Servers /\ ChangeFits(c)
      /\ row \in RowType /\ (row # NoRow => row.rev > 0)
      /\ Other \notin Servers /\ Other \notin Changes
      /\ Told(s) /\ s \in Slots /\ attempt[s] \in AttemptType
  BY ToldTypes
<1>1. /\ change' = change /\ lookup' = lookup /\ known' = known /\ online' = online
      /\ ClientTyped' /\ (\A c \in Changes : ChangeFits(c)')
      /\ WillTell(s) <=> WillTell(s)'
  BY <1>0, HubLeaves
<1>2. \A q \in Servers : q # s /\ q \in missed => q \in missed'
  BY DEF HubStep, KVGet, BeginKVSet, CommitKVSet, NeverLands
<1>3. attempt[s].stage # "none" => IF attempt[s].for \in Changes THEN CallFits(s, attempt[s].for)
                                                                 ELSE lookup[s] = "sent"
  BY <1>0 DEF Told, RequestFits
<1>4. ASSUME NEW x \in AttemptType, Answered(s, x), \A q \in Servers : q # s /\ row'.by = q => row' = row,
             OwnRow(s)', AnswerFits(s)', RequestFits(s)', GameTold(s)'
      PROVE  TInv'
  <2>1. /\ \A q \in Slots : Stray(s, q)' => attempt'[q].old
        /\ \A q \in Servers : q # s => attempt'[q] = attempt[q] /\ LeftAlone(q)
    BY <1>4, AnswerLeaves
  <2>2. StraysFit(s)'
    BY <2>1 DEF StraysFit, StrayFits
  <2>3. Told(s)'
    BY <1>4, <2>2 DEF Told
  <2>4. \A q \in Servers : q # s => Quiet(q)
    BY <1>1, <1>2, <2>1 DEF Quiet
  <2>5. QED
    BY <1>1, <1>4, <2>3, <2>4, OneServer
<1>5. CASE KVGet(s)
  <2> DEFINE x == Answer(s, "found", IF Live THEN row.flags ELSE {}, CurrentRevision, CurrentVersion)
  <2>1. row' = row /\ attempt[s].stage = "get" /\ Answered(s, x) /\ gone \in Nat
        /\ missed' = IF attempt[s].for = Other THEN missed \ {s} ELSE missed
    BY <1>5 DEF KVGet, hubVars, TInv, IInv, Typed
  <2>2. /\ x \in AttemptType /\ x.stage = "found" /\ x.for = attempt[s].for
        /\ x.flags = (IF Live THEN row.flags ELSE {}) /\ x.rev = CurrentRevision
    BY <1>0, <2>1, Currents DEF Answer, AttemptType, RowType, TInv, IInv
  <2> HIDE DEF x
  <2>3. attempt'[s] = x
    BY <2>1, <2>2, AnswerLeaves
  <2>4. RequestFits(s)'
    BY <1>1, <1>3, <2>1, <2>2, <2>3 DEF RequestFits, CallFits
  <2>5. AnswerFits(s)'
    <3>1. row.by = s => Live /\ row.rev > 0
      BY <1>0 DEF Told, OwnRow, Live
    <3>2. QED
      BY <2>1, <2>2, <2>3, <3>1 DEF AnswerFits, CurrentRevision
  <2>6. OwnRow(s)' /\ GameTold(s)'
    <3>1. attempt[s].for = Other => WillTell(s)'
      BY <1>0, <1>1, <1>3, <2>1 DEF WillTell
    <3>2. QED
      BY <1>0, <1>1, <2>1, <3>1 DEF Told, OwnRow, GameTold
  <2>7. QED
    BY <1>4, <2>1, <2>2, <2>4, <2>5, <2>6
<1>6. CASE CommitKVSet(s)
  <2> DEFINE x == Answer(s, "written", attempt[s].flags, attempt[s].rev + 1, 0)
  <2>1. attempt[s].stage = "held" /\ Answered(s, x) /\ gone \in Nat
    BY <1>6 DEF CommitKVSet, TInv, IInv, Typed
  <2>2. attempt[s].for \in Changes /\ CallFits(s, attempt[s].for)
    BY <1>0, <2>1 DEF Told, RequestFits
  <2>3. row'.flags = attempt[s].flags /\ row'.by = s /\ row'.ttl = FALSE /\ row'.lapsed = FALSE
    BY <1>6, <2>2 DEF CommitKVSet, Written, CallFits
  <2>4. /\ x \in AttemptType /\ x.stage = "written" /\ x.for = attempt[s].for
        /\ x.flags = attempt[s].flags
    BY <1>0, <2>1 DEF Answer, AttemptType
  <2> HIDE DEF x
  <2>5. attempt'[s] = x
    BY <2>1, <2>4, AnswerLeaves
  <2>6. OwnRow(s)'
    BY <1>0, <2>3 DEF OwnRow, NoRow
  <2>7. WillTell(s)'
    BY <1>0, <1>1, <2>1, <2>2 DEF CallFits, ChangeFits, WillTell
  <2>8. GameTold(s)'
    BY <2>7 DEF GameTold
  <2>9. CallFits(s, attempt[s].for)'
    BY <1>1, <2>1, <2>2, <2>4, <2>5 DEF CallFits
  <2>10. AnswerFits(s)' /\ RequestFits(s)'
    BY <1>1, <2>2, <2>3, <2>4, <2>5, <2>9 DEF AnswerFits, RequestFits, CallFits
  <2>11. QED
    BY <1>4, <2>1, <2>3, <2>4, <2>6, <2>8, <2>10
<1>7. CASE BeginKVSet(s)
  <2>1. row' = row /\ attempt[s].stage = "set" /\ missed' = missed
    BY <1>7 DEF BeginKVSet, hubVars
  <2>2. /\ attempt'[s].stage \in {"mismatch", "held"} /\ attempt'[s].for = attempt[s].for
        /\ attempt'[s].stage = "held" => attempt'[s].flags = attempt[s].flags
    BY <1>0, <1>7 DEF BeginKVSet, Answer, AttemptType
  <2>3. \A q \in Slots : q # s => attempt'[q] = attempt[q]
    BY <1>0, <1>7 DEF BeginKVSet
  <2>4. RequestFits(s)'
    BY <1>0, <1>1, <1>3, <2>1, <2>2 DEF Told, RequestFits, CallFits
  <2>5. Told(s)'
    BY <1>0, <1>1, <2>1, <2>2, <2>3, <2>4, SameGame
  <2>6. \A q \in Servers : q # s => Quiet(q)
    BY <1>0, <1>1, <2>1, <2>3, ToldTypes DEF Quiet, LeftAlone
  <2>7. QED
    BY <1>1, <2>1, <2>5, <2>6, OneServer
<1>8. CASE NeverLands(s)
  BY <1>8 DEF NeverLands
<1>9. QED
  BY <1>5, <1>6, <1>7, <1>8 DEF HubStep

\* Lookups and the comings and goings of the player.
LEMMA LookupTells ==
  ASSUME TInv, KeyValueAssumption, IInv', NEW s \in Servers,
         LookupStep(s) \/ SweepLookup(s) \/ OnConnect(s) \/ Leave(s)
  PROVE  TInv'
<1>0. /\ change \in [Changes -> ChangeType] /\ attempt \in [Slots -> AttemptType]
      /\ ClientTyped /\ \A c \in Changes : Home[c] \in Servers /\ ChangeFits(c)
      /\ Other \notin Changes /\ Told(s) /\ \A q \in Servers : Told(q) /\ q \in Slots
      /\ lookup \in [Servers -> Lookups] /\ known \in [Servers -> SUBSET (Flags \cup {Other})]
  BY ToldTypes DEF ClientTyped
<1>1. change' = change /\ row' = row /\ missed' = missed
  BY DEF LookupStep, SendLookup, TakeLookup, LookUpAgain, SweepLookup, OnConnect, Leave, hubVars, clientVars
<1>2. \A c \in Changes : ChangeFits(c)'
  BY <1>0, <1>1 DEF ChangeFits
<1>3. \A q \in Slots : q # s => attempt'[q] = attempt[q]
  BY <1>0 DEF LookupStep, SendLookup, TakeLookup, LookUpAgain, SweepLookup, OnConnect, Leave, clientVars
<1>4. \A q \in Servers : q # s => attempt'[q] = attempt[q] /\ LeftAlone(q)
  BY <1>0, <1>3 DEF LeftAlone
<1>5. CASE SendLookup(s)
  <2>1. attempt'[s].stage = "get" /\ attempt'[s].for = Other /\ known' = known /\ online' = online
    BY <1>0, <1>5 DEF SendLookup, NoAttempt
  <2>2. lookup' = [lookup EXCEPT ![s] = "sent"]
    BY <1>5 DEF SendLookup
  <2>3. RequestFits(s)'
    BY <1>0, <2>1, <2>2 DEF RequestFits
  <2>4. WillTell(s)'
    BY <1>0, <2>2 DEF WillTell
  <2>5. Told(s)'
    BY <1>0, <1>1, <1>3, <2>1, <2>3, <2>4, SameGame
  <2>6. ClientTyped' /\ \A q \in Servers : q # s => Quiet(q)
    BY <1>0, <1>1, <1>4, <2>1, <2>2 DEF ClientTyped, Lookups, Quiet
  <2>7. QED
    BY <1>1, <1>2, <2>5, <2>6, OneServer
<1>6. CASE TakeLookup(s)
  <2>1. /\ attempt[s].stage = "found" /\ attempt' = [attempt EXCEPT ![s] = NoAttempt]
        /\ known' = [known EXCEPT ![s] = attempt[s].flags] /\ online' = online
        /\ lookup' = [lookup EXCEPT ![s] = "none"]
    BY <1>6 DEF TakeLookup
  <2>2. attempt[s].flags \subseteq Flags
    BY <1>0 DEF AttemptType
  <2>3. ClientTyped' /\ \A q \in Servers : q # s => Quiet(q)
    BY <1>0, <1>1, <1>4, <2>1, <2>2 DEF ClientTyped, Lookups, Quiet
  <2>4. attempt'[s] = NoAttempt /\ known'[s] = attempt[s].flags
    BY <1>0, <2>1
  <2>5. row.by = s /\ s \notin missed => row.flags = attempt[s].flags
    BY <1>0, <2>1 DEF Told, AnswerFits
  <2>6. RequestFits(s)' /\ attempt'[s].stage = "none"
    BY <2>4, NoRequest
  <2>7. StraysFit(s)'
    BY <1>0, <1>3, <2>1, OldStrays
  <2>8. Told(s)'
    BY <1>0, <1>1, <2>4, <2>5, <2>6, <2>7 DEF Told, OwnRow, AnswerFits, GameTold
  <2>9. QED
    BY <1>1, <1>2, <2>3, <2>8, OneServer
<1>7. CASE LookUpAgain(s) \/ SweepLookup(s)
  <2>1. /\ attempt' = attempt /\ known' = known /\ online' = online
        /\ \/ lookup' = [lookup EXCEPT ![s] = IF s \in online THEN "waiting" ELSE "none"]
           \/ lookup' = [lookup EXCEPT ![s] = "queued"]
        /\ lookup[s] # "sent"
    BY <1>7 DEF LookUpAgain, SweepLookup, FailedLookup
  <2>2. s \in online => WillTell(s)'
    BY <1>0, <2>1 DEF WillTell
  <2>3. RequestFits(s)'
    BY <1>0, <1>1, <2>1 DEF Told, RequestFits, CallFits
  <2>4. Told(s)'
    BY <1>0, <1>1, <1>3, <2>1, <2>2, <2>3, SameGame
  <2>5. ClientTyped' /\ \A q \in Servers : q # s => Quiet(q)
    BY <1>0, <1>1, <1>4, <2>1 DEF ClientTyped, Lookups, Quiet
  <2>6. QED
    BY <1>1, <1>2, <2>4, <2>5, OneServer
<1>8. CASE OnConnect(s)
  <2>1. attempt' = attempt /\ known' = known /\ online' = {s} /\ lookup' = Asked(s)
    BY <1>8 DEF OnConnect
  <2>2. /\ lookup' \in [Servers -> Lookups] /\ lookup'[s] # "none"
        /\ lookup[s] = "sent" => lookup'[s] = "sent"
    BY <1>0, <2>1 DEF Asked, Lookups
  <2>3. \A q \in Servers : q # s => lookup'[q] = lookup[q]
    BY <1>0, <2>1 DEF Asked
  <2>4. WillTell(s)'
    BY <2>2 DEF WillTell
  <2>5. RequestFits(s)'
    BY <1>0, <1>1, <2>1, <2>2 DEF Told, RequestFits, CallFits
  <2>6. Told(s)'
    BY <1>0, <1>1, <1>3, <2>1, <2>4, <2>5, SameGame
  <2>7. ClientTyped' /\ \A q \in Servers : q # s => Quiet(q)
    BY <1>0, <1>1, <1>4, <2>1, <2>2, <2>3 DEF ClientTyped, Quiet
  <2>8. QED
    BY <1>1, <1>2, <2>6, <2>7, OneServer
<1>9. CASE Leave(s)
  <2>1. attempt' = attempt /\ known' = known /\ online' = {} /\ lookup' = lookup
    BY <1>9 DEF Leave, clientVars
  <2>2. ClientTyped' /\ \A q \in Servers : Quiet(q)
    BY <1>0, <1>1, <2>1 DEF ClientTyped, Quiet, LeftAlone
  <2>3. QED
    BY <1>0, <1>1, <1>2, <2>2, QuietTold, OneServer
<1>10. QED
  BY <1>5, <1>6, <1>7, <1>8, <1>9 DEF LookupStep

\* A request is lost or dies with its server, and may stay behind.
LEMMA LossTells ==
  ASSUME TInv, KeyValueAssumption, IInv', NEW s \in Servers, LoseAttempt(s) \/ Crash(s)
  PROVE  TInv'
<1>0. /\ change \in [Changes -> ChangeType] /\ attempt \in [Slots -> AttemptType]
      /\ ClientTyped /\ \A c \in Changes : Home[c] \in Servers /\ ChangeFits(c)
      /\ Other \notin Changes /\ Told(s) /\ \A q \in Servers : Told(q) /\ q \in Slots
      /\ lookup \in [Servers -> Lookups] /\ known \in [Servers -> SUBSET (Flags \cup {Other})]
  BY ToldTypes DEF ClientTyped
<1>1. row' = row /\ missed' = missed /\ Fault /\ GiveUp(s)
  BY DEF LoseAttempt, Crash, hubVars
<1> DEFINE f == faults'
<1>2. /\ f \in Slots /\ f \notin Servers
      /\ attempt'[s] = NoAttempt /\ attempt'[f] = LeftBehind(attempt[s])
      /\ \A q \in Slots : q # s /\ q # f => attempt'[q] = attempt[q]
  BY <1>1, GiveUpFits DEF TInv
<1>3. /\ NoAttempt.stage = "none"
      /\ attempt'[f].stage \in {"set", "held"} =>
           attempt'[f] = attempt[s] /\ attempt[s].for \in Changes /\ CallFits(s, attempt[s].for)
  BY <1>0, <1>2, Blanks DEF LeftBehind, Told, RequestFits
<1> HIDE DEF f
<1>4. ASSUME NEW q \in Servers, NEW p \in Slots, Stray(q, p)'
      PROVE  /\ p = f => q = s /\ attempt[s].stage \in {"set", "held"} /\ CallFits(s, attempt[s].for)
             /\ p # f => attempt'[p] = attempt[p] /\ Stray(q, p)
  <2>1. p \in Slots \ Servers /\ attempt'[p].for \in Changes /\ Home[attempt'[p].for] = q
        /\ attempt'[p].stage \in {"set", "held"}
    BY <1>4 DEF Stray, LeftBy
  <2>2. CASE p = f
    BY <1>3, <2>1, <2>2 DEF CallFits
  <2>3. CASE p # f
    <3>1. attempt'[p] = attempt[p]
      BY <1>2, <2>1, <2>3
    <3>2. QED
      BY <2>1, <2>3, <3>1 DEF Stray, LeftBy
  <2>4. QED
    BY <2>2, <2>3
<1>5. RequestFits(s)' /\ attempt'[s].stage = "none"
  BY <1>2, NoRequest
<1>6. ASSUME NEW q \in Servers, q # s, lookup'[q] = lookup[q], known'[q] = known[q],
             q \in online' => q \in online,
             \A c \in Changes : Home[c] = q => change'[c] = change[c]
      PROVE  Told(q)'
  <2>1. attempt'[q] = attempt[q] /\ Told(q) /\ (WillTell(q) <=> WillTell(q)')
    BY <1>0, <1>2, <1>6 DEF WillTell
  <2>2. ASSUME attempt[q].for \in Changes, CallFits(q, attempt[q].for)
        PROVE  CallFits(q, attempt[q].for)'
    BY <1>6, <2>1, <2>2 DEF CallFits
  <2>3. RequestFits(q)'
    BY <1>6, <2>1, <2>2 DEF Told, RequestFits
  <2>4. StraysFit(q)'
    <3>1. \A p \in Slots : Stray(q, p)' => Stray(q, p) /\ attempt'[p] = attempt[p]
      BY <1>4, <1>6
    <3>2. QED
      BY <1>1, <1>6, <2>1, <3>1 DEF Told, StraysFit, StrayFits
  <2>5. QED
    BY <1>1, <1>6, <2>1, <2>3, <2>4 DEF Told, OwnRow, AnswerFits, GameTold
<1>7. CASE LoseAttempt(s)
  <2>1. attempt[s].stage # "none" /\ Again(s) /\ known' = known /\ online' = online
    BY <1>7 DEF LoseAttempt
  <2>2. /\ lookup' \in [Servers -> Lookups] /\ \A d \in Changes : ChangeFits(d)'
        /\ s \in online /\ WillTell(s) => WillTell(s)'
        /\ \A q \in Servers : q # s =>
              /\ lookup'[q] = lookup[q]
              /\ \A d \in Changes : Home[d] = q => change'[d] = change[d]
        /\ attempt[s].for \in Changes /\ change[attempt[s].for].wrote /\ s \in online => WillTell(s)'
    BY <2>1, AgainTells
  <2>3. attempt[s].stage \in {"set", "held"} /\ s \in online => WillTell(s)'
    BY <1>0, <2>2 DEF Told, RequestFits, CallFits, ChangeFits
  <2>4. \A p \in Slots : Stray(s, p)' => StrayFits(s, p)'
    <3> TAKE p \in Slots
    <3>1. CASE p = f
      BY <1>4, <1>5, <2>1, <2>3, <3>1 DEF StrayFits
    <3>2. CASE p # f
      BY <1>0, <1>1, <1>4, <1>5, <2>1, <2>2, <3>2 DEF Told, StraysFit, StrayFits
    <3>3. QED
      BY <3>1, <3>2
  <2>5. Told(s)'
    BY <1>0, <1>1, <1>5, <2>1, <2>2, <2>4 DEF Told, OwnRow, AnswerFits, StraysFit, GameTold
  <2>6. ClientTyped'
    BY <1>0, <2>1, <2>2 DEF ClientTyped
  <2>7. \A q \in Servers : Told(q)'
    BY <1>6, <2>1, <2>2, <2>5
  <2>8. QED
    BY <2>2, <2>6, <2>7 DEF TInv
<1>8. CASE Crash(s)
  <2>1. /\ known' = [known EXCEPT ![s] = Unknown] /\ online' = online \ {s}
        /\ \A c \in Changes : /\ change'[c] \in {change[c], Ended}
                              /\ Home[c] # s => change'[c] = change[c]
        /\ lookup' = [lookup EXCEPT ![s] = "none"]
    BY <1>8 DEF Crash
  <2>2. \A c \in Changes : ChangeFits(c)'
    BY <1>0, <2>1 DEF ChangeFits, Ended
  <2>3. ClientTyped'
    BY <1>0, <2>1 DEF ClientTyped, Lookups, Unknown
  <2>4. Told(s)'
    BY <1>0, <1>1, <1>5, <2>1 DEF Told, OwnRow, AnswerFits, StraysFit, StrayFits, GameTold
  <2>5. \A q \in Servers : Told(q)'
    BY <1>0, <1>6, <2>1, <2>4
  <2>6. QED
    BY <2>2, <2>3, <2>5 DEF TInv
<1>9. QED
  BY <1>7, <1>8

\* A change reads, merges and writes, and shows the game what it wrote.
LEMMA ChangeTells ==
  ASSUME TInv, KeyValueAssumption, IInv', NEW c \in Changes,
         StartChange(c) \/ ChangeStep(c) \/ SweepChange(c) \/ DropRead(c)
  PROVE  TInv'
<1> DEFINE s == Home[c]
<1>0. /\ change \in [Changes -> ChangeType] /\ attempt \in [Slots -> AttemptType]
      /\ ClientTyped /\ \A d \in Changes : Home[d] \in Servers /\ ChangeFits(d)
      /\ Other \notin Changes /\ Told(s) /\ s \in Servers
      /\ \A q \in Servers : q \in Slots
      /\ lookup \in [Servers -> Lookups] /\ known \in [Servers -> SUBSET (Flags \cup {Other})]
  BY ToldTypes DEF ClientTyped
<1>1. row' = row /\ online' = online /\ missed \subseteq missed'
  BY DEF StartChange, ChangeStep, SendForChange, TakeRead, TakeWritten, TakeMismatch, SweepChange,
         DropRead, hubVars
<1> HIDE DEF s
<1>2. \A d \in Changes : d # c => change'[d] = change[d]
  BY <1>0 DEF StartChange, ChangeStep, SendForChange, TakeRead, TakeWritten, TakeMismatch, SweepChange,
              DropRead, Finish, Failed
<1>3. /\ \A q \in Slots : q # s => attempt'[q] = attempt[q]
      /\ \A q \in Servers : q # s => known'[q] = known[q] /\ lookup'[q] = lookup[q]
  <2>1. \A q \in Slots : q # s => attempt'[q] = attempt[q]
    BY <1>0 DEF StartChange, ChangeStep, SendForChange, TakeRead, TakeWritten, TakeMismatch, SweepChange,
                DropRead, s
  <2>2. \A q \in Servers : q # s => known'[q] = known[q]
    BY <1>0 DEF StartChange, ChangeStep, SendForChange, TakeRead, TakeWritten, TakeMismatch, SweepChange,
                DropRead, Finish, s
  <2>3. lookup' = lookup \/ Failed(c)
    BY DEF StartChange, ChangeStep, SendForChange, TakeRead, TakeWritten, TakeMismatch, SweepChange, DropRead
  <2>4. QED
    BY <2>1, <2>2, <2>3, FailedTells DEF s
<1>4. \A q \in Servers : q # s => Quiet(q)
  BY <1>0, <1>1, <1>2, <1>3 DEF Quiet, LeftAlone, s
<1>5. ASSUME NEW d \in Changes, attempt[s].stage # "none", attempt[s].for = d
      PROVE  CallFits(s, d)
  BY <1>0, <1>5 DEF Told, RequestFits
<1>6. ASSUME attempt' = attempt, change[c].call # "sent", lookup[s] = "sent" => lookup'[s] = "sent"
      PROVE  RequestFits(s)'
  <2>1. ASSUME attempt[s].stage # "none", attempt[s].for \in Changes
        PROVE  CallFits(s, attempt[s].for)'
    <3>1. attempt[s].for # c /\ CallFits(s, attempt[s].for)
      BY <1>5, <1>6, <2>1 DEF CallFits
    <3>2. QED
      BY <1>2, <1>6, <2>1, <3>1 DEF CallFits
  <2>2. QED
    BY <1>0, <1>1, <1>6, <2>1 DEF Told, RequestFits
<1>7. CASE StartChange(c)
  <2>1. /\ change[c].stage = "idle" /\ attempt' = attempt /\ lookup' = lookup /\ known' = known
        /\ change' = [change EXCEPT ![c].stage = "reading", ![c].call = "queued"] /\ missed' = missed
    BY <1>7 DEF StartChange
  <2>2. change'[c].stage = "reading" /\ change'[c].call = "queued" /\ change'[c].wrote = change[c].wrote
    BY <1>0, <2>1 DEF ChangeType
  <2>3. \A d \in Changes : ChangeFits(d)'
    BY <1>0, <1>2, <2>2 DEF ChangeFits
  <2>4. WillTell(s) => WillTell(s)'
    BY <1>2, <2>1, <2>2 DEF WillTell
  <2>5. change[c].call # "sent"
    BY <1>0, <2>1 DEF ChangeFits
  <2>6. Told(s)'
    BY <1>0, <1>1, <1>3, <1>6, <2>1, <2>4, <2>5, SameGame
  <2>7. ClientTyped'
    BY <1>0, <2>1 DEF ClientTyped
  <2>8. QED
    BY <1>0, <1>1, <1>4, <2>3, <2>6, <2>7, OneServer
<1>8. CASE SweepChange(c)
  <2>1. /\ change[c].call = "queued" /\ Failed(c) /\ attempt' = attempt /\ known' = known
        /\ missed' = missed
    BY <1>8 DEF SweepChange
  <2>2. /\ lookup' \in [Servers -> Lookups] /\ \A d \in Changes : ChangeFits(d)'
        /\ WillTell(s) => WillTell(s)'
        /\ lookup[s] = "sent" => lookup'[s] = "sent"
    BY <1>0, <2>1, FailedTells
  <2>3. Told(s)'
    BY <1>0, <1>1, <1>3, <1>6, <2>1, <2>2, SameGame
  <2>4. ClientTyped'
    BY <1>0, <2>1, <2>2 DEF ClientTyped
  <2>5. QED
    BY <1>0, <1>1, <1>4, <2>2, <2>3, <2>4, OneServer
<1>9. CASE SendForChange(c)
  <2> DEFINE x == [stage |-> IF change[c].stage = "reading" THEN "get" ELSE "set", for |-> c,
                   flags |-> change[c].flags, rev |-> change[c].rev, seen |-> change[c].seen,
                   gone |-> change[c].gone, old |-> FALSE]
  <2>1. /\ change[c].call = "queued" /\ change' = [change EXCEPT ![c].call = "sent"]
        /\ attempt' = [attempt EXCEPT ![s] = x] /\ lookup' = lookup /\ known' = known
        /\ missed' = missed
    BY <1>9 DEF SendForChange, s
  <2>2. /\ attempt'[s].stage = (IF change[c].stage = "reading" THEN "get" ELSE "set")
        /\ attempt'[s].for = c /\ attempt'[s].flags = change[c].flags
    BY <1>0, <2>1
  <2>3. /\ change'[c].stage = change[c].stage /\ change'[c].call = "sent"
        /\ change'[c].wrote = change[c].wrote /\ change'[c].flags = change[c].flags
        /\ change[c].stage \in {"reading", "writing"}
    BY <1>0, <2>1 DEF ChangeType, ChangeFits
  <2>4. \A d \in Changes : ChangeFits(d)'
    BY <1>0, <1>2, <2>3 DEF ChangeFits
  <2>5. WillTell(s) => WillTell(s)'
    BY <1>2, <2>1, <2>3 DEF WillTell
  <2>6. CallFits(s, c)'
    BY <2>2, <2>3 DEF CallFits, s
  <2>7. RequestFits(s)'
    BY <1>0, <2>2, <2>6 DEF RequestFits
  <2>8. Told(s)'
    BY <1>0, <1>1, <1>3, <2>1, <2>2, <2>5, <2>7, SameGame
  <2>9. ClientTyped'
    BY <1>0, <2>1 DEF ClientTyped
  <2>10. QED
    BY <1>0, <1>1, <1>4, <2>4, <2>8, <2>9, OneServer
<1>10. ASSUME attempt' = [attempt EXCEPT ![s] = NoAttempt] PROVE RequestFits(s)' /\ attempt'[s].stage = "none"
  <2>1. attempt'[s] = NoAttempt
    BY <1>0, <1>10
  <2>2. QED
    BY <1>0, <2>1, NoRequest
<1>11. ASSUME Finish(c, known'[s]), row.by = s /\ s \notin missed => known'[s] = row.flags,
              known'[s] \subseteq Flags, lookup' = lookup, attempt' = [attempt EXCEPT ![s] = NoAttempt],
              attempt[s].stage \in {"found", "written"}
       PROVE  TInv'
  <2>1. change'[c] = Ended /\ known' = [known EXCEPT ![s] = known'[s]]
    BY <1>0, <1>11 DEF Finish, s
  <2>2. \A d \in Changes : ChangeFits(d)'
    BY <1>0, <1>2, <2>1 DEF ChangeFits, Ended
  <2>3. ClientTyped'
    BY <1>0, <1>11, <2>1 DEF ClientTyped
  <2>4. StraysFit(s)'
    BY <1>0, <1>3, <1>11, OldStrays
  <2>5. Told(s)'
    BY <1>0, <1>1, <1>10, <1>11, <2>4 DEF Told, OwnRow, AnswerFits, GameTold
  <2>6. QED
    BY <1>0, <1>1, <1>4, <2>2, <2>3, <2>5, OneServer
<1>12. CASE TakeRead(c)
  <2>1. /\ attempt[s].stage = "found" /\ attempt' = [attempt EXCEPT ![s] = NoAttempt] /\ lookup' = lookup
        /\ missed' = missed
    BY <1>12 DEF TakeRead, s
  <2>2. CASE Finish(c, {}) /\ attempt[s].rev = 0
    <3>1. row.by # s \/ s \in missed
      BY <1>0, <2>1, <2>2 DEF Told, AnswerFits
    <3>2. known'[s] = {}
      BY <1>0, <2>2 DEF Finish, s
    <3>3. QED
      BY <1>11, <2>1, <2>2, <3>1, <3>2
  <2>3. CASE known' = known /\ change'[c].wrote /\ change'[c].stage = "writing"
    <3>1. \A d \in Changes : ChangeFits(d)'
      BY <1>0, <1>2, <2>3 DEF ChangeFits
    <3>2. WillTell(s)'
      BY <2>3 DEF WillTell, s
    <3>3. Told(s)'
      BY <1>0, <1>1, <1>3, <1>10, <2>1, <2>3, <3>2, SameGame
    <3>4. ClientTyped'
      BY <1>0, <2>1, <2>3 DEF ClientTyped
    <3>5. QED
      BY <1>0, <1>1, <1>4, <3>1, <3>3, <3>4, OneServer
  <2>4. QED
    BY <1>0, <1>12, <2>2, <2>3 DEF TakeRead, s
<1>13. CASE TakeWritten(c)
  <2>1. /\ attempt[s].stage = "written" /\ attempt[s].for = c /\ Finish(c, change[c].flags)
        /\ attempt' = [attempt EXCEPT ![s] = NoAttempt] /\ lookup' = lookup
    BY <1>13 DEF TakeWritten, s
  <2>2. change[c].flags = attempt[s].flags /\ change[c].flags \subseteq Flags
    BY <1>0, <1>5, <2>1 DEF Told, RequestFits, CallFits, ChangeType
  <2>3. known'[s] = change[c].flags
    BY <1>0, <2>1 DEF Finish, s
  <2>4. row.by = s /\ s \notin missed => known'[s] = row.flags
    BY <1>0, <2>1, <2>2, <2>3 DEF Told, AnswerFits
  <2>5. QED
    BY <1>11, <2>1, <2>2, <2>3, <2>4
<1>14. CASE TakeMismatch(c)
  <2>1. attempt' = [attempt EXCEPT ![s] = NoAttempt] /\ known' = known /\ missed' = missed
    BY <1>14 DEF TakeMismatch, s
  <2>2. CASE Failed(c)
    <3>1. /\ lookup' \in [Servers -> Lookups] /\ \A d \in Changes : ChangeFits(d)'
          /\ WillTell(s) => WillTell(s)'
      BY <1>0, <2>2, FailedTells
    <3>2. Told(s)'
      BY <1>0, <1>1, <1>3, <1>10, <2>1, <3>1, SameGame
    <3>3. ClientTyped'
      BY <1>0, <2>1, <3>1 DEF ClientTyped
    <3>4. QED
      BY <1>0, <1>1, <1>4, <3>1, <3>2, <3>3, OneServer
  <2>3. CASE ~Failed(c)
    <3>1. /\ change' = [change EXCEPT ![c] =
               [NewChange EXCEPT !.stage = "reading", !.call = "queued",
                                 !.tries = change[c].tries + 1, !.wrote = TRUE]]
          /\ lookup' = lookup
      BY <1>14, <2>3 DEF TakeMismatch
    <3>2. change'[c].stage = "reading" /\ change'[c].call = "queued" /\ change'[c].wrote = TRUE
      BY <1>0, <3>1 DEF NewChange, Ended
    <3>3. \A d \in Changes : ChangeFits(d)'
      BY <1>0, <1>2, <3>2 DEF ChangeFits
    <3>4. WillTell(s)'
      BY <3>2 DEF WillTell, s
    <3>5. Told(s)'
      BY <1>0, <1>1, <1>3, <1>10, <2>1, <3>4, SameGame
    <3>6. ClientTyped'
      BY <1>0, <2>1, <3>1 DEF ClientTyped
    <3>7. QED
      BY <1>0, <1>1, <1>4, <3>3, <3>5, <3>6, OneServer
  <2>4. QED
    BY <2>2, <2>3
<1>15. CASE DropRead(c)
  <2>1. /\ attempt[s].stage = "found" /\ attempt' = [attempt EXCEPT ![s] = NoAttempt]
        /\ change' = [change EXCEPT ![c] = Ended] /\ lookup' = lookup /\ known' = known
        /\ missed' = IF change[c].wrote THEN missed \cup {s} ELSE missed
    BY <1>15 DEF DropRead, s
  <2>2. change'[c] = Ended /\ ~Ended.wrote /\ Ended.stage = "ended" /\ Ended.call = "none"
    BY <1>0, <2>1 DEF Ended
  <2>3. \A d \in Changes : ChangeFits(d)'
    BY <1>0, <1>2, <2>2 DEF ChangeFits
  <2>4. s \in missed' \/ (WillTell(s) => WillTell(s)')
    BY <1>2, <2>1 DEF WillTell
  <2>5. StraysFit(s)'
    BY <1>0, <1>3, <2>1, OldStrays
  <2>6. Told(s)'
    BY <1>0, <1>1, <1>10, <2>1, <2>4, <2>5 DEF Told, OwnRow, AnswerFits, GameTold
  <2>7. ClientTyped'
    BY <1>0, <2>1 DEF ClientTyped
  <2>8. QED
    BY <1>0, <1>1, <1>4, <2>3, <2>6, <2>7, OneServer
<1>16. QED
  BY <1>7, <1>8, <1>9, <1>12, <1>13, <1>14, <1>15 DEF ChangeStep

LEMMA TInvNext ==
  ASSUME TInv, KeyValueAssumption, [Next]_vars
  PROVE  TInv'
<1>0. /\ IInv' /\ ClientTyped /\ (\A c \in Changes : ChangeFits(c)) /\ (\A s \in Servers : Told(s))
      /\ Other \notin Servers
  BY IInvNext DEF TInv, KeyValueAssumption
<1>1. ASSUME UNCHANGED <<clientVars, known, online, missed>>, \A q \in Servers : row'.by = q => row' = row
      PROVE  TInv'
  <2>1. ClientTyped' /\ (\A c \in Changes : ChangeFits(c)') /\ \A q \in Servers : Quiet(q)
    BY <1>0, <1>1 DEF ClientTyped, ChangeFits, Quiet, LeftAlone, clientVars
  <2>2. \A q \in Servers : Told(q)'
    BY <1>0, <1>1, <2>1, QuietTold
  <2>3. QED
    BY <1>0, <2>1, <2>2 DEF TInv
<1>2. CASE UNCHANGED vars
  BY <1>1, <1>2 DEF vars, hubVars
<1>3. ASSUME NEW flags \in SUBSET Flags, NEW ttl \in BOOLEAN, BotSet(flags, ttl) PROVE TInv'
  BY <1>0, <1>1, <1>3 DEF BotSet, Written
<1>4. CASE KVDelete
  BY <1>0, <1>1, <1>4 DEF KVDelete, NoRow
<1>5. CASE Lapse
  <2>1. \A q \in Servers : row.by # q
    BY <1>0, <1>5 DEF Lapse, Told, OwnRow
  <2>2. row'.by = row.by
    BY <1>5 DEF Lapse, TInv, IInv, Typed, RowType
  <2>3. QED
    BY <1>1, <1>5, <2>1, <2>2 DEF Lapse
<1>6. CASE PickExpired
  BY <1>1, <1>6 DEF PickExpired
<1>7. CASE PruneKV
  BY <1>0, <1>1, <1>7 DEF PruneKV, NoRow
<1>8. ASSUME NEW q \in Slots, HubStep(q) PROVE TInv'
  BY <1>8, HubTells, StrayTells, <1>0
<1>9. QED
  BY <1>0, <1>2, <1>3, <1>4, <1>5, <1>6, <1>7, <1>8, LookupTells, LossTells, ChangeTells DEF Next

\* The game that shows something else than what its own server wrote has a
\* lookup or a change under way that will tell it, whatever request was lost,
\* retried, given up, left behind or cut off by a crash, and whenever it landed
\* (VyshkaFlags.Fail, OnLookup, VyshkaStore.Retry) -- unless a set landed that
\* was left behind before the server last read or wrote the key, or a change
\* was dropped with a write unconfirmed: those servers are in missed until the
\* hub answers their next lookup or write.  It is what GameFollowsStore needs but the fairness.
THEOREM GameIsNotForgotten == Spec => []GameIsTold
<1> USE KeyValueAssumption
<1>1. TInv => GameIsTold
  BY DEF TInv, Told, GameIsTold
<1>2. QED
  BY TInvInit, TInvNext, <1>1, PTL DEF Spec
===============================================================================
