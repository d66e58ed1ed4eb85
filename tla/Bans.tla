--------------------------------- MODULE Bans ---------------------------------
(***************************************************************************)
(* The installation ban list: the hub's list and its revisions             *)
(* (hub/bans.go, hub/store/bans.go), the notices of a change, and the      *)
(* plugin that walks the list page by page and enforces the copy it keeps  *)
(* on disk (VyshkaInstallationBans.c).                                     *)
(*                                                                         *)
(* Every change holds the list's lock from its choice of whom to notify to *)
(* its commit.  A page is two reads at the hub, of the current revision    *)
(* and of the entries, without a lock.  The hub may be restored from a     *)
(* backup, which takes its list and its register of revisions back, but    *)
(* not the clock.  Servers are those whose credentials stand; the link's   *)
(* own numbering and acks are HubToPlugin's.                               *)
(***************************************************************************)
EXTENDS Integers, Sequences, FiniteSets, ReplacedFile

CONSTANTS
  BanIds,        \* the ids of bans, in the order of their creation
  Players,       \* identities, in list order
  Durations,     \* how long a ban may last; 0 for one that does not end
  Servers,
  PageLimit,     \* PAGE_LIMIT
  MaxClock, MaxRevision, MaxFaults  \* bounds

\* A list as a server keeps it: a revision and what stood on the list then.
Entries == [id : BanIds, who : Players, expires : Nat]
BanLists == [rev : Nat, bans : SUBSET Entries]

ASSUME BansAssumption ==
  /\ BanIds \subseteq Nat /\ Players \subseteq Nat \ {0} /\ Durations \subseteq Nat
  /\ IsFiniteSet(BanIds) /\ IsFiniteSet(Players) /\ Players # {}
  /\ Cut \notin BanLists /\ Absent \notin BanLists /\ Cut # Absent
  /\ PageLimit \in Nat \ {0}
  /\ MaxClock \in Nat /\ MaxRevision \in Nat /\ MaxFaults \in Nat

VARIABLES
  clock,
  hub,       \* bans, ban_list.revision, ban_revisions, and the manifests that declare bans
  notices,   \* bans.changed envelopes of each server, oldest first
  change,    \* the change of the list that holds its lock
  live,      \* the session of each server the hub takes, 0 for none
  answer,    \* the session response on its way
  plug,      \* VyshkaBanSync and the list in force
  page,      \* the page request in flight
  disk,      \* installation-bans.json and its staging copy
  lists,     \* history: the list at each revision ever minted
  dropped,   \* history: whether a notice to a server was "never" dropped, or is
             \* "missed", or a session response "told" the revision since
  faults

hubVars == <<hub, notices, change, lists, dropped>>
linkVars == <<live, answer>>
vars == <<clock, hubVars, linkVars, plug, page, disk, faults>>

NoBan == [who |-> 0, listed |-> 0, delisted |-> 0, expires |-> 0]
NoChange == [next |-> 0, bans |-> <<>>, targets |-> {}]
NoAnswer == [sess |-> 0, rev |-> 0]
NoPage == [stage |-> "none", rev |-> 0, sess |-> 0]
None == -1                                        \* a revision never read
NoList == [rev |-> None, bans |-> {}]
Booted(list) == [up |-> TRUE, list |-> list, token |-> 0, known |-> None, due |-> FALSE,
                 walking |-> FALSE, told |-> FALSE, rev |-> None, after |-> 0, walked |-> {},
                 refused |-> 0]

\* The list as it stood at a revision, in BanListAt's terms.
EntriesAt(bans, rev) ==
  {[id |-> b, who |-> bans[b].who, expires |-> bans[b].expires] :
     b \in {c \in BanIds : /\ bans[c].listed # 0 /\ bans[c].listed <= rev
                           /\ bans[c].delisted = 0 \/ bans[c].delisted > rev}}

\* The installation begins with a list of one ban, which its backup holds.
LastOf(S) == CHOOSE x \in S : \A y \in S : y <= x
FirstBan == CHOOSE b \in BanIds : \A c \in BanIds : b <= c
Backup ==
  [bans |-> [b \in BanIds |->
               IF b = FirstBan THEN [who |-> LastOf(Players), listed |-> 1, delisted |-> 0,
                                     expires |-> 0] ELSE NoBan],
   revision |-> 1, minted |-> {1}, declared |-> {}]

Init ==
  /\ clock = 1 /\ faults = 0
  /\ hub = Backup /\ change = NoChange
  /\ notices = [s \in Servers |-> <<>>]
  /\ live = [s \in Servers |-> 0] /\ answer = [s \in Servers |-> NoAnswer]
  /\ plug = [s \in Servers |-> Booted(NoList)] /\ page = [s \in Servers |-> NoPage]
  /\ disk = [s \in Servers |-> Disk(Absent, Absent)]
  /\ lists = [r \in {0, 1} |-> EntriesAt(hub.bans, r)] /\ dropped = [s \in Servers |-> "never"]

Tick ==
  /\ clock < MaxClock /\ clock' = clock + 1
  /\ UNCHANGED <<hubVars, linkVars, plug, page, disk, faults>>

Fault == faults < MaxFaults /\ faults' = faults + 1

-------------------------------------------------------------------------------
(* The list *)

Unlocked == change = NoChange
OnList(ban) == ban.listed # 0 /\ ban.delisted = 0
Lapsed(ban) == OnList(ban) /\ ban.expires # 0 /\ ban.expires <= clock

\* nextBanRevision: above the last one, and not behind the clock.
OneMore == hub.revision + 1
NextRevision == IF hub.revision + 1 < clock THEN clock ELSE hub.revision + 1

\* delistExpired, in the change at hand.
Swept == [b \in BanIds |-> IF Lapsed(hub.bans[b])
                           THEN [hub.bans[b] EXCEPT !.delisted = NextRevision] ELSE hub.bans[b]]

\* The transaction has the list's lock and has read whom to notify.
Begin(bans) ==
  /\ Unlocked /\ bans # hub.bans /\ NextRevision <= MaxRevision
  /\ change' = [next |-> NextRevision, bans |-> bans, targets |-> hub.declared]
  /\ UNCHANGED <<clock, hub, notices, lists, dropped, linkVars, plug, page, disk, faults>>

\* Ids are handed out in order.  An identity that carries an active ban is refused.
CreateBan(b) ==
  /\ hub.bans[b] = NoBan /\ \A c \in BanIds : c < b => hub.bans[c] # NoBan
  /\ \E who \in Players, lasts \in Durations :
       /\ \A c \in BanIds : Swept[c].who = who => ~OnList(Swept[c])
       /\ Begin([Swept EXCEPT ![b] = [who |-> who, listed |-> NextRevision, delisted |-> 0,
                                      expires |-> IF lasts = 0 THEN 0 ELSE clock + lasts]])

\* A ban already off the list is answered as it stands.
LiftBan(b) ==
  Begin(IF OnList(Swept[b]) THEN [Swept EXCEPT ![b].delisted = NextRevision] ELSE Swept)

SweepExpiredBans == Begin(Swept)

\* noticeBanRevision: a notice not yet sent is refreshed in place.
Unsent(s) == {i \in 1..Len(notices[s]) : notices[s][i].state = "unsent"}
Noticed(s, rev) ==
  IF Unsent(s) # {}
  THEN [i \in 1..Len(notices[s]) |->
          IF i \in Unsent(s) THEN [notices[s][i] EXCEPT !.rev = rev] ELSE notices[s][i]]
  ELSE Append(notices[s], [rev |-> rev, state |-> "unsent"])

\* setBanRevision and queueBanNotices; a server whose queue is at its bound
\* is skipped.
CommitChange ==
  /\ ~Unlocked
  /\ hub' = [hub EXCEPT !.bans = change.bans, !.revision = change.next,
                        !.minted = @ \cup {change.next}]
  /\ \E full \in SUBSET {s \in change.targets : Unsent(s) = {}} :
       /\ IF full = {} THEN faults' = faults ELSE Fault
       /\ notices' = [s \in Servers |-> IF s \in change.targets \ full
                                        THEN Noticed(s, change.next) ELSE notices[s]]
       /\ dropped' = [s \in Servers |-> IF s \in full THEN "missed" ELSE dropped[s]]
  /\ lists' = [r \in DOMAIN lists \cup {change.next} |->
                 IF r = change.next THEN EntriesAt(change.bans, r) ELSE lists[r]]
  /\ change' = NoChange
  /\ UNCHANGED <<clock, linkVars, plug, page, disk>>

-------------------------------------------------------------------------------
(* The link *)

\* handleCreateSession starts the session, then reads what its response says.
StartSession(s) ==
  /\ plug[s].up /\ answer[s] = NoAnswer
  /\ plug[s].token = 0 \/ plug[s].token # live[s]
  /\ LET new == 1 + (IF live[s] > plug[s].token THEN live[s] ELSE plug[s].token)
     IN  /\ live' = [live EXCEPT ![s] = new]
         /\ answer' = [answer EXCEPT ![s] = [sess |-> new, rev |-> hub.revision]]
  /\ notices' = [notices EXCEPT ![s] = [i \in 1..Len(notices[s]) |->
       IF notices[s][i].state = "taken" THEN [notices[s][i] EXCEPT !.state = "sent"]
       ELSE notices[s][i]]]
  /\ dropped' = [dropped EXCEPT ![s] = IF @ = "missed" THEN "told" ELSE @]
  /\ UNCHANGED <<clock, hub, change, lists, plug, page, disk, faults>>

\* Told and Owe: the revision the hub reports, however old the report is.
Heard(s, rev) ==
  [plug[s] EXCEPT !.known = rev, !.told = plug[s].told \/ plug[s].walking,
                  !.due = plug[s].due \/ rev # plug[s].list.rev]

TakeSession(s) ==
  /\ answer[s] # NoAnswer
  /\ plug' = [plug EXCEPT ![s] = [Heard(s, answer[s].rev) EXCEPT !.token = answer[s].sess]]
  /\ answer' = [answer EXCEPT ![s] = NoAnswer]
  /\ UNCHANGED <<clock, hubVars, live, page, disk, faults>>

LoseSession(s) ==
  /\ Fault /\ answer[s] # NoAnswer
  /\ answer' = [answer EXCEPT ![s] = NoAnswer]
  /\ live' = [live EXCEPT ![s] = 0]
  /\ UNCHANGED <<clock, hubVars, plug, page, disk>>

Linked(s) == plug[s].up /\ live[s] # 0 /\ plug[s].token = live[s]

\* The hub ends the session: it expires, or the answer it was in is lost.
EndSession(s) ==
  /\ Fault /\ Linked(s)
  /\ live' = [live EXCEPT ![s] = 0]
  /\ UNCHANGED <<clock, hubVars, answer, plug, page, disk>>

\* A manifest that declares the capability is applied under the list's lock,
\* with a notice of the revision that stands under it.
AnyTime == TRUE
ListLock == Unlocked
PublishManifest(s) ==
  /\ Linked(s) /\ s \notin hub.declared /\ ListLock
  /\ hub' = [hub EXCEPT !.declared = @ \cup {s}]
  /\ notices' = [notices EXCEPT ![s] = Noticed(s, hub.revision)]
  /\ UNCHANGED <<clock, change, lists, dropped, linkVars, plug, page, disk, faults>>

SendNotices(s) ==
  /\ Linked(s) /\ Unsent(s) # {}
  /\ notices' = [notices EXCEPT ![s] = [i \in 1..Len(notices[s]) |->
       IF i \in Unsent(s) THEN [notices[s][i] EXCEPT !.state = "sent"] ELSE notices[s][i]]]
  /\ UNCHANGED <<clock, hub, change, lists, dropped, linkVars, plug, page, disk, faults>>

\* The first notice the plugin has not taken in this session.
TakeNotice(s) ==
  /\ Linked(s)
  /\ \E i \in 1..Len(notices[s]) :
       /\ notices[s][i].state = "sent"
       /\ \A j \in 1..(i - 1) : notices[s][j].state = "taken"
       /\ plug' = [plug EXCEPT ![s] = Heard(s, notices[s][i].rev)]
       /\ notices' = [notices EXCEPT ![s] = [notices[s] EXCEPT ![i] = [rev |-> @.rev, state |-> "taken"]]]
  /\ UNCHANGED <<clock, hub, change, lists, dropped, linkVars, page, disk, faults>>

AckNotice(s) ==
  /\ Linked(s) /\ notices[s] # <<>> /\ Head(notices[s]).state = "taken"
  /\ notices' = [notices EXCEPT ![s] = Tail(notices[s])]
  /\ UNCHANGED <<clock, hub, change, lists, dropped, linkVars, plug, page, disk, faults>>

-------------------------------------------------------------------------------
(* The walk *)

Begun(p) == [p EXCEPT !.walking = TRUE, !.told = FALSE, !.rev = None, !.after = 0, !.walked = {}]
Failed(p) == [p EXCEPT !.walking = FALSE, !.walked = {}]

\* BanListAt, first read: the revision the page is served at, or that the hub
\* cannot serve the cursor's.
Servable(rev) == rev = 0 \/ rev = hub.revision \/ (rev < hub.revision /\ rev \in hub.minted)
Page(stage, rev, sess) == [stage |-> stage, rev |-> rev, sess |-> sess]
Admission(s, p) ==
  CASE p.token # live[s]                       -> Page("invalid", 0, p.token)
    [] p.token = live[s] /\ p.after = 0        -> Page("reading", hub.revision, p.token)
    [] p.token = live[s] /\ p.after # 0 /\ Servable(p.rev)
                                               -> Page("reading", p.rev, p.token)
    [] OTHER                                   -> Page("conflict", 0, p.token)

\* Tick sends the next request of the walk that is owed.
RequestPage(s) ==
  LET p == IF plug[s].walking THEN plug[s] ELSE Begun(plug[s])
  IN  /\ plug[s].up /\ plug[s].due /\ plug[s].token # 0 /\ plug[s].refused # plug[s].token
      /\ page[s] = NoPage
      /\ plug' = [plug EXCEPT ![s] = p]
      /\ page' = [page EXCEPT ![s] = Admission(s, p)]
      /\ UNCHANGED <<clock, hubVars, linkVars, disk, faults>>

\* BanListAt, second read, at the revision of the first.
Following(s) == {e \in EntriesAt(hub.bans, page[s].rev) : e.who > plug[s].after}
PageEntries(s) ==
  {e \in Following(s) : Cardinality({f \in Following(s) : f.who < e.who}) < PageLimit}
More(s) == PageEntries(s) # Following(s)

\* The first page says which revision the walk reads.
Pinned(s) == IF plug[s].rev = None THEN page[s].rev ELSE plug[s].rev
Gathered(s) == plug[s].walked \cup PageEntries(s)
Walked(s) == [rev |-> Pinned(s), bans |-> Gathered(s)]

TakePage(s) ==
  /\ page[s].stage = "reading" /\ More(s)
  /\ plug' = [plug EXCEPT ![s] = [plug[s] EXCEPT !.rev = Pinned(s), !.walked = Gathered(s),
                                                 !.after = LastOf({e.who : e \in PageEntries(s)})]]
  /\ page' = [page EXCEPT ![s] = NoPage]
  /\ UNCHANGED <<clock, hubVars, linkVars, disk, faults>>

\* Finish and Apply: the file (a staging copy may be left), then the list in
\* force; a report that came during the walk is taken to be fresher.
Finished(s) ==
  LET p == plug[s]
      known == IF p.told THEN p.known ELSE Pinned(s)
  IN  [p EXCEPT !.list = Walked(s), !.walking = FALSE, !.walked = {}, !.known = known,
                !.due = known # Pinned(s)]
TakeLastPage(s) ==
  /\ page[s].stage = "reading" /\ ~More(s)
  /\ \E left \in Replaced(disk[s], Walked(s)) : disk' = [disk EXCEPT ![s] = left]
  /\ plug' = [plug EXCEPT ![s] = Finished(s)]
  /\ page' = [page EXCEPT ![s] = NoPage]
  /\ UNCHANGED <<clock, hubVars, linkVars, faults>>

\* The list cannot be kept, so it is not enforced either.
LoseLastPage(s) ==
  /\ Fault /\ page[s].stage = "reading" /\ ~More(s)
  /\ \E left \in NotReplaced(disk[s], Walked(s)) : disk' = [disk EXCEPT ![s] = left]
  /\ plug' = [plug EXCEPT ![s] = Failed(plug[s])]
  /\ page' = [page EXCEPT ![s] = NoPage]
  /\ UNCHANGED <<clock, hubVars, linkVars>>

\* The walk goes on under the next session, its cursor still good.
TakeInvalid(s) ==
  /\ page[s].stage = "invalid"
  /\ plug' = [plug EXCEPT ![s].refused = page[s].sess]
  /\ page' = [page EXCEPT ![s] = NoPage]
  /\ UNCHANGED <<clock, hubVars, linkVars, disk, faults>>

\* Restart: the walk starts over.
TakeConflict(s) ==
  /\ page[s].stage = "conflict"
  /\ plug' = [plug EXCEPT ![s] = Begun(plug[s])]
  /\ page' = [page EXCEPT ![s] = NoPage]
  /\ UNCHANGED <<clock, hubVars, linkVars, disk, faults>>

LosePage(s) ==
  /\ Fault /\ page[s] # NoPage
  /\ plug' = [plug EXCEPT ![s] = Failed(plug[s])]
  /\ page' = [page EXCEPT ![s] = NoPage]
  /\ UNCHANGED <<clock, hubVars, linkVars, disk>>

-------------------------------------------------------------------------------
(* Crashes *)

Down == [Booted(NoList) EXCEPT !.up = FALSE]
Die(s, left) ==
  /\ plug' = [plug EXCEPT ![s] = [Down EXCEPT !.list = plug[s].list]]
  /\ disk' = [disk EXCEPT ![s] = left]
  /\ page' = [page EXCEPT ![s] = NoPage] /\ answer' = [answer EXCEPT ![s] = NoAnswer]
  /\ UNCHANGED <<clock, hubVars, live>>

\* The server dies, in the middle of keeping a list too.
Crash(s) ==
  /\ Fault /\ plug[s].up
  /\ \/ Die(s, disk[s])
     \/ /\ page[s].stage = "reading" /\ ~More(s)
        /\ \E left \in Crashed(disk[s], Walked(s)) : Die(s, left)

\* Load: the list it reads is in force before any session; none, or one cut
\* short, is no list.
InForce(content) == IF Whole(content) THEN content ELSE NoList
Load(s, outcomes) ==
  /\ ~plug[s].up
  /\ \E outcome \in outcomes :
       /\ disk' = [disk EXCEPT ![s] = outcome.left]
       /\ plug' = [plug EXCEPT ![s] = Booted(InForce(outcome.read))]
  /\ UNCHANGED <<clock, hubVars, linkVars, page, faults>>

Boot(s) == Load(s, Reads(disk[s]))

\* A copy of the list cannot be opened at this boot.
BootUnread(s) == Load(s, Misreads(disk[s]))

\* The hub comes back from its later than what it minted since; the
\* sessions of the plugins are not among those it knows.
Restore ==
  /\ Fault
  /\ clock' = IF hub.revision < clock THEN clock ELSE hub.revision + 1
  /\ hub' = Backup /\ notices' = [s \in Servers |-> <<>>]
  /\ change' = NoChange
  /\ live' = [s \in Servers |-> 0] /\ answer' = [s \in Servers |-> NoAnswer]
  /\ page' = [s \in Servers |-> IF page[s] = NoPage THEN NoPage
                               ELSE Page("invalid", 0, page[s].sess)]
  /\ UNCHANGED <<lists, dropped, plug, disk>>

-------------------------------------------------------------------------------
(* The specification *)

ListStep == \/ \E b \in BanIds : CreateBan(b) \/ LiftBan(b)
            \/ SweepExpiredBans \/ CommitChange
LinkStep(s) == \/ StartSession(s) \/ TakeSession(s) \/ PublishManifest(s)
               \/ SendNotices(s) \/ TakeNotice(s) \/ AckNotice(s)
WalkStep(s) == \/ RequestPage(s) \/ TakePage(s) \/ TakeLastPage(s)
               \/ TakeInvalid(s) \/ TakeConflict(s)
FaultStep(s) == \/ LoseSession(s) \/ EndSession(s) \/ LosePage(s) \/ LoseLastPage(s) \/ Crash(s)

Next ==
  \/ Tick \/ ListStep
  \/ \E s \in Servers : LinkStep(s) \/ WalkStep(s) \/ FaultStep(s) \/ Boot(s) \/ BootUnread(s)
  \/ Restore

Spec == Init /\ [][Next]_vars

\* A transaction ends, a plugin ticks and polls, a server is started again.
FairSpec ==
  /\ Spec /\ WF_vars(CommitChange)
  /\ \A s \in Servers : /\ WF_vars(WalkStep(s)) /\ WF_vars(Boot(s))
                        /\ WF_vars(StartSession(s)) /\ WF_vars(TakeSession(s))
                        /\ WF_vars(PublishManifest(s)) /\ WF_vars(SendNotices(s))
                        /\ WF_vars(TakeNotice(s)) /\ WF_vars(AckNotice(s))

-------------------------------------------------------------------------------
(* Properties *)

\* What a server enforces is the whole list of the revision it names, as it
\* stood then: no change during the walk, expiry, restore or crash mixes two
\* lists or makes one revision name two.
EnforcedIsServed ==
  \A s \in Servers :
    LET list == plug[s].list
    IN  list.rev # None => list.rev \in DOMAIN lists /\ list.bans = lists[list.rev]

\* A list once kept is never lost: whatever crash, full disk, failed delete or
\* unreadable copy, the disk goes on to store a whole one, and a server that
\* enforced a list boots with one, unless that boot cannot open a copy.
KeepsBans(s) ==
  /\ Whole(Stored(disk[s])) => Whole(Stored(disk'[s]))
  /\ plug[s].list.rev # None => plug'[s].list.rev # None \/ BootUnread(s)
OutageKeepsBans == [][\A s \in Servers : KeepsBans(s)]_vars

\* Every change reaches every server: one that does not enforce the current
\* list comes to, unless a notice to it was dropped.
ChangesReachServers ==
  \A s \in Servers :
    (plug[s].list.rev # hub.revision) ~> (plug[s].list.rev = hub.revision \/ dropped[s] # "never")

\* Stated by spec/protocol.md (13.3): a dropped notice costs nothing once the
\* next session response has carried the revision.  An older notice sent
\* again to that session is taken for the fresher report, and a walk that
\* began before it then ends with no other owed (VyshkaInstallationBans.c).
SessionMakesUpForNotices ==
  \A s \in Servers :
    (plug[s].list.rev # hub.revision) ~> (plug[s].list.rev = hub.revision \/ dropped[s] = "missed")
===============================================================================
