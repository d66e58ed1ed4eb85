------------------------------ MODULE BansProofs ------------------------------
(***************************************************************************)
(* Proofs about Bans, for any bans, players, servers, page limit and       *)
(* bounds.                                                                 *)
(*                                                                         *)
(* A revision is minted above every one minted before, by the revision     *)
(* that stands or, after a restore, by the clock; so the list never says   *)
(* anything else of a revision that stands recorded.  A walk holds exactly *)
(* the entries of its revision up to its cursor, and everything a server   *)
(* enforces, or finds on its disk after a crash, is a walk that reached    *)
(* the end.                                                                *)
(***************************************************************************)
EXTENDS Bans, FiniteSetTheorems, WellFoundedInduction, TLAPS

-------------------------------------------------------------------------------
(* Greatest elements *)

LEMMA LeastOf ==
  ASSUME NEW T \in SUBSET Nat, T # {}
  PROVE  \E x \in T : \A y \in T : x <= y
<1> DEFINE R == OpToRel(<, Nat)
<1>1. PICK x \in T : \A y \in T : ~ (<<y, x>> \in R)
  <2>1. IsWellFoundedOn(R, Nat)
    BY NatLessThanWellFounded
  <2>2. T \subseteq Nat
    OBVIOUS
  <2> HIDE DEF R
  <2>3. QED
    BY <2>1, <2>2, WFMin
<1>2. ASSUME NEW y \in T PROVE x <= y
  <2>1. ~ (y < x)
    BY <1>1 DEF OpToRel
  <2>2. QED
    BY <2>1
<1>3. QED
  BY <1>2

\* The one with the fewest above it.
LEMMA GreatestOf ==
  ASSUME NEW S \in SUBSET Nat, IsFiniteSet(S), S # {}
  PROVE  \E x \in S : \A y \in S : y <= x
<1> DEFINE Above(x) == {y \in S : y > x}
           T == {Cardinality(Above(x)) : x \in S}
<1>1. \A x \in S : Above(x) \in SUBSET S
  OBVIOUS
<1>2. \A x \in S : IsFiniteSet(Above(x)) /\ Cardinality(Above(x)) \in Nat
  <2> HIDE DEF Above
  <2>1. QED
    BY <1>1, FS_Subset, FS_CardinalityType
<1>3. T \in SUBSET Nat /\ T # {}
  BY <1>2
<1>4. PICK n \in T : \A m \in T : n <= m
  <2> HIDE DEF T
  <2>1. QED
    BY <1>3, LeastOf
<1>5. PICK x \in S : n = Cardinality(Above(x))
  OBVIOUS
<1>6. ASSUME NEW y \in S, y > x PROVE FALSE
  <2>1. Above(y) \in SUBSET Above(x) /\ y \in Above(x) /\ y \notin Above(y)
    <3>1. \A z \in S : z > y => z > x
      BY <1>6
    <3>2. ~(y > y)
      OBVIOUS
    <3>3. QED
      BY <1>6, <3>1, <3>2
  <2>2. Cardinality(Above(y)) <= Cardinality(Above(x)) /\ Cardinality(Above(y)) # Cardinality(Above(x))
    <3> HIDE DEF Above
    <3>1. IsFiniteSet(Above(x)) /\ Above(y) # Above(x)
      BY <1>2, <2>1
    <3>2. QED
      BY <2>1, <3>1, FS_Subset
  <2>3. n <= Cardinality(Above(y))
    BY <1>4
  <2> HIDE DEF Above, T
  <2>4. QED
    BY <1>2, <1>5, <2>2, <2>3
<1>7. QED
  BY <1>6

\* The cursor a page ends at.
LEMMA LastIsGreatest ==
  ASSUME NEW S \in SUBSET Nat, IsFiniteSet(S), S # {}
  PROVE  LastOf(S) \in S /\ \A y \in S : y <= LastOf(S)
BY GreatestOf DEF LastOf

-------------------------------------------------------------------------------
(* The inductive invariant *)

BanType == {ban \in [who : Players \cup {0}, listed : Nat, delisted : Nat, expires : Nat] :
              ban.listed # 0 => ban.who \in Players}
BanMaps == [BanIds -> BanType]
NoticeType == [rev : Nat, state : {"unsent", "sent", "taken"}]
PlugType == [up : BOOLEAN, list : BanLists \cup {NoList}, token : Nat, known : Nat \cup {None},
             due : BOOLEAN, walking : BOOLEAN, told : BOOLEAN, rev : Nat \cup {None}, after : Nat,
             walked : SUBSET Entries, refused : Nat]
PageType == [stage : {"none", "reading", "invalid", "conflict"}, rev : Nat, sess : Nat]
Contents == BanLists \cup {Cut, Absent}
DiskType == [file : Contents, staged : Contents]

ListTyped ==
  /\ clock \in Nat
  /\ hub \in [bans : BanMaps, revision : Nat, minted : SUBSET Nat, declared : SUBSET Servers]
  /\ change \in [next : Nat, bans : BanMaps \cup {<<>>}, targets : SUBSET Servers]
LinkTyped ==
  /\ notices \in [Servers -> Seq(NoticeType)]
  /\ live \in [Servers -> Nat] /\ answer \in [Servers -> [sess : Nat, rev : Nat]]
PlugTyped ==
  /\ plug \in [Servers -> PlugType] /\ page \in [Servers -> PageType]
  /\ disk \in [Servers -> DiskType]

\* What the list says of a revision the register has, or the backup's had, is
\* what it said when the revision was minted; what is minted next is fresh.
Register ==
  /\ DOMAIN lists \subseteq Nat /\ hub.minted \subseteq DOMAIN lists /\ hub.revision \in hub.minted
  /\ 0 \in DOMAIN lists /\ 1 \in DOMAIN lists
  /\ \A r \in hub.minted \cup {0} : lists[r] = EntriesAt(hub.bans, r)
  /\ \A r \in {0, 1} : lists[r] = EntriesAt(Backup.bans, r)
  /\ \A r \in DOMAIN lists : r <= hub.revision \/ r < clock
Pending ==
  change # NoChange =>
    /\ change.bans \in BanMaps
    /\ \A r \in DOMAIN lists : r < change.next
    /\ \A r \in Nat : r < change.next => EntriesAt(change.bans, r) = EntriesAt(hub.bans, r)

\* A list that stood as it is at the revision it names.
Served(list) == list \in BanLists => list.rev \in DOMAIN lists /\ list.bans = lists[list.rev]

PlugOk(p) ==
  /\ Served(p.list)
  /\ p.walking => \/ p.rev = None /\ p.after = 0 /\ p.walked = {}
                  \/ /\ p.rev \in DOMAIN lists /\ p.after > 0
                     /\ p.walked = {e \in lists[p.rev] : e.who <= p.after}
PageOk(p, g) ==
  /\ ~p.up => g = NoPage
  /\ g.stage = "reading" =>
       /\ p.walking /\ g.rev \in DOMAIN lists /\ lists[g.rev] = EntriesAt(hub.bans, g.rev)
       /\ p.rev # None => g.rev = p.rev
DiskOk(d) == Served(d.file) /\ Served(d.staged)
KeptOk(p, d) == p.list # NoList => Stored(d) \in BanLists

Fits(p, g, d) ==
  /\ p \in PlugType /\ g \in PageType /\ d \in DiskType
  /\ PlugOk(p) /\ PageOk(p, g) /\ DiskOk(d) /\ KeptOk(p, d)

IInv ==
  /\ ListTyped /\ LinkTyped /\ PlugTyped /\ Register /\ Pending
  /\ \A s \in Servers : Fits(plug[s], page[s], disk[s])

-------------------------------------------------------------------------------
(* Lists and disks *)

LEMMA Contained ==
  /\ NoList \notin BanLists /\ NoList.rev = None /\ Cut \notin BanLists /\ Absent \notin BanLists
  /\ \A l \in BanLists : Whole(l) /\ l.rev \in Nat /\ l.rev # None /\ l # NoList
  /\ \A x \in Contents : Whole(x) <=> x \in BanLists
BY BansAssumption DEF NoList, BanLists, None, Whole, Contents

\* Entries of a map of bans.
LEMMA EntriesTyped ==
  ASSUME NEW bans \in BanMaps, NEW r
  PROVE  EntriesAt(bans, r) \in SUBSET Entries /\ IsFiniteSet(EntriesAt(bans, r))
<1> DEFINE L == {c \in BanIds : /\ bans[c].listed # 0 /\ bans[c].listed <= r
                                /\ bans[c].delisted = 0 \/ bans[c].delisted > r}
           Entry(b) == [id |-> b, who |-> bans[b].who, expires |-> bans[b].expires]
<1>1. IsFiniteSet(L)
  BY FS_Subset, BansAssumption
<1>2. EntriesAt(bans, r) = {Entry(b) : b \in L}
  BY DEF EntriesAt
<1>3. \A b \in L : Entry(b) \in Entries
  BY DEF BanMaps, BanType, Entries
<1> HIDE DEF L, Entry
<1>4. IsFiniteSet({Entry(b) : b \in L})
  <2>1. [b \in L |-> Entry(b)] \in Surjection(L, {Entry(b) : b \in L})
    BY DEF Surjection
  <2>2. QED
    BY <1>1, <2>1, FS_Surjection
<1>5. QED
  BY <1>2, <1>3, <1>4

LEMMA BackupTyped ==
  /\ Backup \in [bans : BanMaps, revision : Nat, minted : SUBSET Nat, declared : SUBSET Servers]
  /\ Backup.revision = 1 /\ Backup.minted = {1} /\ Backup.bans \in BanMaps
<1>1. LastOf(Players) \in Players
  BY LastIsGreatest, BansAssumption
<1>2. QED
  BY <1>1 DEF Backup, BanMaps, BanType, NoBan

LEMMA IInvInit == Init => IInv
<1> SUFFICES ASSUME Init PROVE IInv
  OBVIOUS
<1>0. /\ clock = 1 /\ hub = Backup /\ change = NoChange /\ lists = [r \in {0, 1} |-> EntriesAt(hub.bans, r)]
      /\ notices = [s \in Servers |-> <<>>] /\ live = [s \in Servers |-> 0]
      /\ answer = [s \in Servers |-> NoAnswer] /\ plug = [s \in Servers |-> Booted(NoList)]
      /\ page = [s \in Servers |-> NoPage] /\ disk = [s \in Servers |-> Disk(Absent, Absent)]
  BY DEF Init
<1>1. ListTyped
  BY <1>0, BackupTyped DEF ListTyped, NoChange
<1>2. LinkTyped
  BY <1>0 DEF LinkTyped, NoAnswer
<1>3. Booted(NoList) \in PlugType /\ NoPage \in PageType /\ Disk(Absent, Absent) \in DiskType
  BY DEF Booted, PlugType, NoPage, PageType, Disk, DiskType, Contents
<1>4. PlugTyped
  BY <1>0, <1>3 DEF PlugTyped
<1>5. Register
  <2>1. hub.minted = {1} /\ hub.revision = 1
    BY <1>0, BackupTyped
  <2>2. DOMAIN lists = {0, 1}
    BY <1>0
  <2>3. \A r \in {0, 1} : lists[r] = EntriesAt(hub.bans, r)
    BY <1>0
  <2>4. QED
    BY <1>0, <2>1, <2>2, <2>3 DEF Register
<1>6. Pending
  BY <1>0 DEF Pending
<1>7. \A s \in Servers : Fits(plug[s], page[s], disk[s])
  <2>1. PlugOk(Booted(NoList)) /\ KeptOk(Booted(NoList), Disk(Absent, Absent))
    BY Contained DEF PlugOk, Booted, Served, KeptOk
  <2>2. PageOk(Booted(NoList), NoPage) /\ DiskOk(Disk(Absent, Absent))
    BY Contained DEF PageOk, NoPage, DiskOk, Disk, Served
  <2>3. QED
    BY <1>0, <1>3, <2>1, <2>2 DEF Fits
<1>8. QED
  BY <1>1, <1>2, <1>4, <1>5, <1>6, <1>7 DEF IInv

-------------------------------------------------------------------------------
(* The list *)

\* A change takes entries off at its own revision, or puts them on at it.
Extends(old, new, next) ==
  \/ new = old
  \/ /\ new.who = old.who /\ new.expires = old.expires /\ new.listed = old.listed
     /\ old.delisted = 0 /\ new.delisted = next
  \/ old.listed = 0 /\ new.listed = next

LEMMA EntriesStay ==
  ASSUME NEW bans \in BanMaps, NEW more \in BanMaps, NEW next \in Nat,
         \A b \in BanIds : Extends(bans[b], more[b], next), NEW r \in Nat, r < next
  PROVE  EntriesAt(more, r) = EntriesAt(bans, r)
<1> DEFINE On(ban) == ban.listed # 0 /\ ban.listed <= r /\ (ban.delisted = 0 \/ ban.delisted > r)
<1>1. ASSUME NEW b \in BanIds
      PROVE  /\ On(more[b]) <=> On(bans[b])
             /\ On(more[b]) => more[b].who = bans[b].who /\ more[b].expires = bans[b].expires
  <2>1. /\ bans[b].listed \in Nat /\ bans[b].delisted \in Nat
        /\ more[b].listed \in Nat /\ more[b].delisted \in Nat
    BY DEF BanMaps, BanType
  <2>2. ~(next <= r) /\ next > r /\ next # 0
    OBVIOUS
  <2>3. QED
    BY <2>1, <2>2 DEF Extends
<1> DEFINE Entry(bs, b) == [id |-> b, who |-> bs[b].who, expires |-> bs[b].expires]
           S == {c \in BanIds : On(bans[c])}
<1>3. EntriesAt(more, r) = {Entry(more, b) : b \in {c \in BanIds : On(more[c])}}
  BY DEF EntriesAt
<1>4. EntriesAt(bans, r) = {Entry(bans, b) : b \in S}
  BY DEF EntriesAt
<1>5. \A b \in S : Entry(more, b) = Entry(bans, b)
  BY <1>1
<1> HIDE DEF On, Entry
<1>6. {c \in BanIds : On(more[c])} = S
  BY <1>1
<1> HIDE DEF S
<1>7. QED
  BY <1>3, <1>4, <1>5, <1>6

LEMMA Fresh ==
  ASSUME IInv
  PROVE  /\ NextRevision \in Nat /\ NextRevision > hub.revision /\ clock <= NextRevision
         /\ \A r \in DOMAIN lists : r < NextRevision
<1>1. clock \in Nat /\ hub.revision \in Nat
  BY DEF IInv, ListTyped
<1>2. NextRevision \in Nat /\ NextRevision > hub.revision /\ clock <= NextRevision
  BY <1>1 DEF NextRevision
<1>3. \A r \in DOMAIN lists : r \in Nat /\ (r <= hub.revision \/ r < clock)
  BY DEF IInv, Register
<1>4. QED
  BY <1>1, <1>2, <1>3

LEMMA SweptExtends ==
  ASSUME IInv
  PROVE  Swept \in BanMaps /\ \A b \in BanIds : Extends(hub.bans[b], Swept[b], NextRevision)
<1>1. hub.bans \in BanMaps /\ NextRevision \in Nat
  BY Fresh DEF IInv, ListTyped
<1>2. ASSUME NEW b \in BanIds
      PROVE  Swept[b] \in BanType /\ Extends(hub.bans[b], Swept[b], NextRevision)
  <2>1. hub.bans[b] \in BanType
    BY <1>1 DEF BanMaps
  <2>2. CASE Lapsed(hub.bans[b])
    <3>1. Swept[b] = [hub.bans[b] EXCEPT !.delisted = NextRevision]
      BY <2>2 DEF Swept
    <3>2. hub.bans[b].delisted = 0
      BY <2>2 DEF Lapsed, OnList
    <3>3. QED
      BY <1>1, <2>1, <3>1, <3>2 DEF BanType, Extends
  <2>3. CASE ~Lapsed(hub.bans[b])
    BY <2>1, <2>3 DEF Swept, Extends
  <2>4. QED
    BY <2>2, <2>3
<1>3. Swept = [b \in BanIds |-> Swept[b]]
  BY DEF Swept
<1>4. QED
  BY <1>2, <1>3 DEF BanMaps

\* What the servers hold fits a list that says the same of every revision minted.
LEMMA ServersFit ==
  ASSUME IInv, UNCHANGED <<plug, page, disk>>,
         \A r \in DOMAIN lists : /\ r \in DOMAIN lists' /\ lists'[r] = lists[r]
                                 /\ EntriesAt(hub'.bans, r) = EntriesAt(hub.bans, r)
  PROVE  \A s \in Servers : Fits(plug[s], page[s], disk[s])'
<1> SUFFICES ASSUME NEW s \in Servers PROVE Fits(plug[s], page[s], disk[s])'
  OBVIOUS
<1>1. Fits(plug[s], page[s], disk[s])
  BY DEF IInv
<1>2. \A l : Served(l) => Served(l)'
  BY DEF Served
<1>3. PlugOk(plug[s])' /\ DiskOk(disk[s])' /\ KeptOk(plug[s], disk[s])'
  BY <1>1, <1>2 DEF Fits, PlugOk, DiskOk, KeptOk
<1>4. PageOk(plug[s], page[s])'
  BY <1>1 DEF Fits, PageOk
<1>5. QED
  BY <1>1, <1>3, <1>4 DEF Fits

LEMMA BeginKeeps ==
  ASSUME IInv, NEW bans \in BanMaps, \A b \in BanIds : Extends(hub.bans[b], bans[b], NextRevision),
         Begin(bans)
  PROVE  IInv'
<1>1. /\ UNCHANGED <<clock, hub, notices, lists, live, answer, plug, page, disk>>
      /\ change' = [next |-> NextRevision, bans |-> bans, targets |-> hub.declared]
  BY DEF Begin, linkVars
<1>2. ListTyped' /\ LinkTyped' /\ PlugTyped' /\ Register'
  <2>1. NextRevision \in Nat
    BY Fresh
  <2>2. QED
    BY <1>1, <2>1 DEF IInv, ListTyped, LinkTyped, PlugTyped, Register
<1>3. Pending'
  <2>1. hub.bans \in BanMaps /\ NextRevision \in Nat
    BY Fresh DEF IInv, ListTyped
  <2>2. \A r \in Nat : r < NextRevision => EntriesAt(bans, r) = EntriesAt(hub.bans, r)
    BY <2>1, EntriesStay
  <2>3. \A r \in DOMAIN lists : r < NextRevision
    BY Fresh
  <2>4. change'.bans = bans /\ change'.next = NextRevision
    BY <1>1
  <2>5. QED
    BY <1>1, <2>2, <2>3, <2>4 DEF Pending
<1>4. \A s \in Servers : Fits(plug[s], page[s], disk[s])'
  BY <1>1, ServersFit
<1>5. QED
  BY <1>2, <1>3, <1>4 DEF IInv

LEMMA ListKeeps ==
  ASSUME IInv, SweepExpiredBans \/ \E b \in BanIds : CreateBan(b) \/ LiftBan(b)
  PROVE  IInv'
<1>1. CASE SweepExpiredBans
  BY <1>1, SweptExtends, BeginKeeps DEF SweepExpiredBans
<1>2. ASSUME NEW b \in BanIds, LiftBan(b) PROVE IInv'
  <2>1. CASE ~OnList(Swept[b])
    BY <1>2, <2>1, SweptExtends, BeginKeeps DEF LiftBan
  <2>2. CASE OnList(Swept[b])
    <3> DEFINE off == [Swept EXCEPT ![b].delisted = NextRevision]
    <3>1. Swept \in BanMaps /\ NextRevision \in Nat /\ hub.bans \in BanMaps
      BY SweptExtends, Fresh DEF IInv, ListTyped
    <3>2. off \in BanMaps
      BY <3>1 DEF BanMaps, BanType
    <3>3. NextRevision # 0
      BY Fresh DEF IInv, ListTyped
    <3>4. Swept[b] = hub.bans[b] /\ hub.bans[b].delisted = 0
      <4>1. CASE Lapsed(hub.bans[b])
        <5>1. Swept[b].delisted = NextRevision
          BY <3>1, <4>1 DEF Swept, BanMaps, BanType
        <5>2. QED
          BY <2>2, <3>3, <5>1 DEF OnList
      <4>2. CASE ~Lapsed(hub.bans[b])
        BY <2>2, <4>2 DEF Swept, OnList
      <4>3. QED
        BY <4>1, <4>2
    <3>5. off[b] = [hub.bans[b] EXCEPT !.delisted = NextRevision]
      BY <3>1, <3>4 DEF BanMaps
    <3>6. Extends(hub.bans[b], off[b], NextRevision)
      BY <3>1, <3>4, <3>5 DEF Extends, BanMaps, BanType
    <3>7. \A c \in BanIds : c # b => off[c] = Swept[c]
      BY <3>1 DEF BanMaps
    <3>8. Begin(off)
      BY <1>2, <2>2 DEF LiftBan
    <3> HIDE DEF off
    <3>9. \A c \in BanIds : Extends(hub.bans[c], off[c], NextRevision)
      BY <3>6, <3>7, SweptExtends
    <3>10. QED
      BY <3>2, <3>8, <3>9, BeginKeeps
  <2>3. QED
    BY <2>1, <2>2
<1>3. ASSUME NEW b \in BanIds, CreateBan(b) PROVE IInv'
  <2>1. PICK who \in Players, lasts \in Durations :
          Begin([Swept EXCEPT ![b] = [who |-> who, listed |-> NextRevision, delisted |-> 0,
                                      expires |-> IF lasts = 0 THEN 0 ELSE clock + lasts]])
    BY <1>3 DEF CreateBan
  <2> DEFINE ban == [who |-> who, listed |-> NextRevision, delisted |-> 0,
                     expires |-> IF lasts = 0 THEN 0 ELSE clock + lasts]
             on == [Swept EXCEPT ![b] = ban]
  <2>2. Swept \in BanMaps /\ NextRevision \in Nat /\ clock \in Nat /\ lasts \in Nat
    BY SweptExtends, Fresh, BansAssumption DEF IInv, ListTyped
  <2>3. ban \in BanType /\ ban.listed = NextRevision
    BY <2>2 DEF BanType
  <2>4. hub.bans[b].listed = 0
    BY <1>3 DEF CreateBan, NoBan
  <2>5. Begin(on)
    BY <2>1
  <2> HIDE DEF ban
  <2>6. on \in BanMaps /\ on[b] = ban /\ \A c \in BanIds : c # b => on[c] = Swept[c]
    BY <2>2, <2>3 DEF BanMaps
  <2> HIDE DEF on
  <2>7. \A c \in BanIds : Extends(hub.bans[c], on[c], NextRevision)
    <3>1. Extends(hub.bans[b], on[b], NextRevision)
      BY <2>3, <2>4, <2>6 DEF Extends
    <3>2. QED
      BY <2>6, <3>1, SweptExtends
  <2>8. QED
    BY <2>5, <2>6, <2>7, BeginKeeps
<1>4. QED
  BY <1>1, <1>2, <1>3

LEMMA MapNotices ==
  ASSUME NEW q \in Seq(NoticeType), NEW f \in [1..Len(q) -> NoticeType]
  PROVE  f \in Seq(NoticeType)
<1>1. Len(q) \in Nat
  OBVIOUS
<1>2. QED
  BY <1>1

LEMMA NoticedTyped ==
  ASSUME LinkTyped, NEW s \in Servers, NEW rev \in Nat
  PROVE  Noticed(s, rev) \in Seq(NoticeType)
<1> DEFINE q == notices[s]
           f == [i \in 1..Len(q) |-> IF i \in Unsent(s) THEN [q[i] EXCEPT !.rev = rev] ELSE q[i]]
           notice == [rev |-> rev, state |-> "unsent"]
<1>1. q \in Seq(NoticeType)
  BY DEF LinkTyped
<1>2. \A i \in 1..Len(q) : q[i] \in NoticeType /\ [q[i] EXCEPT !.rev = rev] \in NoticeType
  <2>1. \A n \in NoticeType : [n EXCEPT !.rev = rev] \in NoticeType
    BY DEF NoticeType
  <2> HIDE DEF q
  <2>2. \A i \in 1..Len(q) : q[i] \in NoticeType
    BY <1>1
  <2>3. QED
    BY <2>1, <2>2
<1>3. f \in [1..Len(q) -> NoticeType]
  BY <1>2
<1>4. notice \in NoticeType
  BY DEF NoticeType
<1>5. Noticed(s, rev) = f \/ Noticed(s, rev) = Append(q, notice)
  BY DEF Noticed
<1> HIDE DEF q, f, notice
<1>6. f \in Seq(NoticeType)
  BY <1>1, <1>3, MapNotices
<1>7. QED
  BY <1>1, <1>4, <1>5, <1>6

\* The new revision says what the list is then, every other what it said before.
LEMMA CommitKeeps ==
  ASSUME IInv, CommitChange
  PROVE  IInv'
<1> DEFINE next == change.next
<1>0. /\ change # NoChange /\ change' = NoChange
      /\ hub' = [hub EXCEPT !.bans = change.bans, !.revision = next, !.minted = hub.minted \cup {next}]
      /\ lists' = [r \in DOMAIN lists \cup {next} |->
                     IF r = next THEN EntriesAt(change.bans, r) ELSE lists[r]]
      /\ UNCHANGED <<clock, live, answer, plug, page, disk>>
  BY DEF CommitChange, Unlocked, linkVars
<1>1. /\ change.bans \in BanMaps /\ next \in Nat /\ hub.bans \in BanMaps
      /\ hub \in [bans : BanMaps, revision : Nat, minted : SUBSET Nat, declared : SUBSET Servers]
      /\ \A r \in DOMAIN lists : r \in Nat /\ r < next
      /\ \A r \in Nat : r < next => EntriesAt(change.bans, r) = EntriesAt(hub.bans, r)
  BY <1>0 DEF IInv, ListTyped, Register, Pending
<1>2. /\ hub'.bans = change.bans /\ hub'.revision = next /\ hub'.minted = hub.minted \cup {next}
      /\ hub' \in [bans : BanMaps, revision : Nat, minted : SUBSET Nat, declared : SUBSET Servers]
  BY <1>0, <1>1
<1>3. ListTyped' /\ PlugTyped'
  BY <1>0, <1>2 DEF IInv, ListTyped, PlugTyped, NoChange
<1>4. LinkTyped'
  <2>1. PICK full : notices' = [s \in Servers |-> IF s \in change.targets \ full
                                                 THEN Noticed(s, change.next) ELSE notices[s]]
    BY DEF CommitChange
  <2>2. \A s \in Servers : Noticed(s, change.next) \in Seq(NoticeType) /\ notices[s] \in Seq(NoticeType)
    BY <1>1, NoticedTyped DEF IInv, LinkTyped
  <2>3. notices' \in [Servers -> Seq(NoticeType)]
    BY <2>1, <2>2
  <2>4. QED
    BY <1>0, <2>3 DEF IInv, LinkTyped
<1> HIDE DEF next
<1>5. /\ DOMAIN lists' = DOMAIN lists \cup {next} /\ lists'[next] = EntriesAt(change.bans, next)
      /\ \A r \in DOMAIN lists : r # next /\ lists'[r] = lists[r]
                                 /\ EntriesAt(change.bans, r) = EntriesAt(hub.bans, r)
  <2>1. \A r \in DOMAIN lists : r # next
    BY <1>1
  <2>2. QED
    BY <1>0, <1>1, <2>1
<1>6. Register'
  <2>1. /\ DOMAIN lists \subseteq Nat /\ hub.minted \subseteq DOMAIN lists
        /\ 0 \in DOMAIN lists /\ 1 \in DOMAIN lists
        /\ \A r \in hub.minted \cup {0} : lists[r] = EntriesAt(hub.bans, r)
        /\ \A r \in {0, 1} : lists[r] = EntriesAt(Backup.bans, r)
    BY DEF IInv, Register
  <2>2. \A r \in hub'.minted \cup {0} : lists'[r] = EntriesAt(hub'.bans, r)
    BY <1>2, <1>5, <2>1
  <2>3. \A r \in {0, 1} : lists'[r] = EntriesAt(Backup.bans, r)
    BY <1>5, <2>1
  <2>4. \A r \in DOMAIN lists' : r <= hub'.revision
    BY <1>1, <1>2, <1>5
  <2>5. QED
    BY <1>1, <1>2, <1>5, <2>1, <2>2, <2>3, <2>4 DEF Register
<1>7. Pending'
  BY <1>0 DEF Pending
<1>8. \A s \in Servers : Fits(plug[s], page[s], disk[s])'
  BY <1>0, <1>2, <1>5, ServersFit
<1>9. QED
  BY <1>3, <1>4, <1>6, <1>7, <1>8 DEF IInv

\* What no step of the list touches.
SameList ==
  /\ UNCHANGED <<clock, change, lists>>
  /\ hub'.bans = hub.bans /\ hub'.revision = hub.revision /\ hub'.minted = hub.minted
  /\ ListTyped'

LEMMA SameListKeeps ==
  ASSUME IInv, SameList
  PROVE  Register' /\ Pending'
BY DEF SameList, IInv, Register, Pending

LEMMA TickKeeps ==
  ASSUME IInv, Tick
  PROVE  IInv'
<1>1. /\ clock' = clock + 1 /\ UNCHANGED <<hub, notices, change, lists, live, answer, plug, page, disk>>
  BY DEF Tick, hubVars, linkVars
<1>2. ListTyped' /\ LinkTyped' /\ PlugTyped' /\ Pending'
  BY <1>1 DEF IInv, ListTyped, LinkTyped, PlugTyped, Pending
<1>3. Register'
  <2>1. clock \in Nat /\ \A r \in DOMAIN lists : r \in Nat
    BY DEF IInv, ListTyped, Register
  <2>2. \A r \in DOMAIN lists : r < clock => r < clock'
    BY <1>1, <2>1
  <2>3. QED
    BY <1>1, <2>2 DEF IInv, Register
<1>4. QED
  BY <1>1, <1>2, <1>3, ServersFit DEF IInv

\* The hub's clock is past every revision it minted since its backup.
LEMMA RestoreKeeps ==
  ASSUME IInv, Restore
  PROVE  IInv'
<1>1. /\ clock' = (IF hub.revision < clock THEN clock ELSE hub.revision + 1)
      /\ hub' = Backup /\ change' = NoChange /\ UNCHANGED <<lists, plug, disk>>
      /\ notices' = [s \in Servers |-> <<>>] /\ live' = [s \in Servers |-> 0]
      /\ answer' = [s \in Servers |-> NoAnswer]
      /\ page' = [s \in Servers |-> IF page[s] = NoPage THEN NoPage ELSE Page("invalid", 0, page[s].sess)]
  BY DEF Restore
<1>2. clock \in Nat /\ hub.revision \in Nat /\ page \in [Servers -> PageType]
  BY DEF IInv, ListTyped, PlugTyped
<1>3. ListTyped' /\ LinkTyped'
  BY <1>1, <1>2, BackupTyped DEF ListTyped, LinkTyped, NoChange, NoAnswer
<1>4. ASSUME NEW s \in Servers
      PROVE  page'[s] \in PageType /\ page'[s].stage # "reading"
  BY <1>1, <1>2 DEF NoPage, Page, PageType
<1>5. PlugTyped'
  <2>1. page' \in [Servers -> PageType]
    BY <1>1, <1>4
  <2>2. QED
    BY <1>1, <2>1 DEF IInv, PlugTyped
<1>6. Register'
  <2>1. \A r \in DOMAIN lists : r < clock'
    <3>1. \A r \in DOMAIN lists : r \in Nat /\ (r <= hub.revision \/ r < clock)
      BY DEF IInv, Register
    <3>2. QED
      BY <1>1, <1>2, <3>1
  <2>2. QED
    BY <1>1, <2>1, BackupTyped DEF IInv, Register
<1>7. Pending'
  BY <1>1 DEF Pending
<1>8. ASSUME NEW s \in Servers PROVE Fits(plug[s], page[s], disk[s])'
  <2>1. Fits(plug[s], page[s], disk[s])
    BY DEF IInv
  <2>2. PageOk(plug[s], page[s])'
    <3>1. page[s] = NoPage => page'[s] = NoPage
      BY <1>1, <1>2
    <3>2. QED
      BY <1>1, <1>4, <2>1, <3>1 DEF Fits, PageOk
  <2>3. PlugOk(plug[s])' /\ DiskOk(disk[s])' /\ KeptOk(plug[s], disk[s])'
    BY <1>1, <2>1 DEF Fits, PlugOk, DiskOk, KeptOk, Served
  <2>4. QED
    BY <1>1, <1>4, <2>1, <2>2, <2>3 DEF Fits
<1>9. QED
  BY <1>3, <1>5, <1>6, <1>7, <1>8 DEF IInv

-------------------------------------------------------------------------------
(* Steps of one server *)

LEMMA LinkOnly ==
  ASSUME IInv, SameList, LinkTyped', UNCHANGED <<plug, page, disk>>
  PROVE  IInv'
<1>1. PlugTyped' /\ ListTyped'
  BY DEF IInv, PlugTyped, SameList
<1>2. \A s \in Servers : Fits(plug[s], page[s], disk[s])'
  BY ServersFit DEF SameList
<1>3. QED
  BY <1>1, <1>2, SameListKeeps DEF IInv

LEMMA ServerStep ==
  ASSUME IInv, SameList, LinkTyped', NEW s \in Servers, NEW p, NEW g, NEW d, Fits(p, g, d),
         plug' = [plug EXCEPT ![s] = p], page' = [page EXCEPT ![s] = g], disk' = [disk EXCEPT ![s] = d]
  PROVE  IInv'
<1>1. plug \in [Servers -> PlugType] /\ page \in [Servers -> PageType] /\ disk \in [Servers -> DiskType]
  BY DEF IInv, PlugTyped
<1>2. p \in PlugType /\ g \in PageType /\ d \in DiskType
  BY DEF Fits
<1>3. PlugTyped'
  BY <1>1, <1>2 DEF PlugTyped
<1>4. \A q \in Servers : Fits(plug'[q], page'[q], disk'[q])
  BY <1>1 DEF IInv
<1>5. \A q \in Servers : Fits(plug[q], page[q], disk[q])'
  BY <1>4 DEF SameList, Fits, PlugOk, PageOk, DiskOk, KeptOk, Served
<1>6. QED
  BY <1>3, <1>5, SameListKeeps DEF IInv, SameList

\* What a server hears of the revision leaves the walk alone.
LEMMA SameWalk ==
  ASSUME NEW p, NEW g, NEW d, Fits(p, g, d), NEW q \in PlugType, q.list = p.list,
         q.up = p.up, q.walking = p.walking, q.rev = p.rev, q.after = p.after, q.walked = p.walked
  PROVE  Fits(q, g, d)
BY DEF Fits, PlugOk, PageOk, KeptOk

LEMMA HeardFits ==
  ASSUME IInv, NEW s \in Servers, NEW rev \in Nat, NEW token \in Nat
  PROVE  /\ Fits(Heard(s, rev), page[s], disk[s])
         /\ Fits([Heard(s, rev) EXCEPT !.token = token], page[s], disk[s])
<1>1. plug[s] \in PlugType /\ Fits(plug[s], page[s], disk[s])
  BY DEF IInv, Fits
<1> DEFINE p == plug[s]
           h == Heard(s, rev)
           t == [h EXCEPT !.token = token]
<1>2. /\ h \in PlugType /\ h.list = p.list /\ h.walking = p.walking /\ h.rev = p.rev
      /\ h.up = p.up /\ h.after = p.after /\ h.walked = p.walked
  BY <1>1 DEF Heard, PlugType
<1> HIDE DEF h
<1>3. /\ t \in PlugType /\ t.list = h.list /\ t.walking = h.walking /\ t.rev = h.rev
      /\ t.up = h.up /\ t.after = h.after /\ t.walked = h.walked
  BY <1>2 DEF PlugType
<1> HIDE DEF t
<1>4. Fits(h, page[s], disk[s])
  BY <1>1, <1>2, SameWalk
<1>5. Fits(t, page[s], disk[s])
  BY <1>3, <1>4, SameWalk
<1>6. QED
  BY <1>4, <1>5 DEF h, t

\* A session tells the current revision, and the notices of the last are sent again.
LEMMA LinkKeeps ==
  ASSUME IInv, NEW s \in Servers,
         \/ StartSession(s) \/ TakeSession(s) \/ PublishManifest(s) \/ SendNotices(s) \/ TakeNotice(s)
         \/ AckNotice(s) \/ LoseSession(s) \/ EndSession(s)
  PROVE  IInv'
<1>0. /\ ListTyped /\ LinkTyped /\ PlugTyped /\ notices[s] \in Seq(NoticeType)
      /\ answer[s] \in [sess : Nat, rev : Nat] /\ live[s] \in Nat /\ plug[s].token \in Nat
      /\ hub.revision \in Nat
  BY DEF IInv, ListTyped, LinkTyped, PlugTyped, PlugType
<1>1. \A i \in 1..Len(notices[s]) : notices[s][i] \in NoticeType
  BY <1>0
<1>2. ASSUME NEW f \in [1..Len(notices[s]) -> NoticeType], notices' = [notices EXCEPT ![s] = f],
             UNCHANGED <<live, answer>>
      PROVE  LinkTyped'
  <2>1. f \in Seq(NoticeType)
    BY <1>0, MapNotices
  <2>2. QED
    BY <1>0, <1>2, <2>1 DEF LinkTyped
<1>3. ASSUME StartSession(s) PROVE IInv'
  <2> DEFINE new == 1 + (IF live[s] > plug[s].token THEN live[s] ELSE plug[s].token)
             f == [i \in 1..Len(notices[s]) |->
                     IF notices[s][i].state = "taken" THEN [notices[s][i] EXCEPT !.state = "sent"]
                     ELSE notices[s][i]]
  <2>1. /\ live' = [live EXCEPT ![s] = new] /\ answer' = [answer EXCEPT ![s] = [sess |-> new, rev |-> hub.revision]]
        /\ notices' = [notices EXCEPT ![s] = f] /\ UNCHANGED <<clock, hub, change, lists, plug, page, disk>>
    BY <1>3 DEF StartSession
  <2>2. new \in Nat
    BY <1>0
  <2>3. f \in [1..Len(notices[s]) -> NoticeType]
    <3>1. \A n \in NoticeType : [n EXCEPT !.state = "sent"] \in NoticeType
      BY DEF NoticeType
    <3>2. QED
      BY <1>1, <3>1
  <2> HIDE DEF new, f
  <2>4. f \in Seq(NoticeType)
    BY <1>0, <2>3, MapNotices
  <2>5. LinkTyped'
    BY <1>0, <2>1, <2>2, <2>4 DEF LinkTyped
  <2>6. SameList
    BY <1>0, <2>1 DEF SameList, ListTyped
  <2>7. QED
    BY <2>1, <2>5, <2>6, LinkOnly
<1>4. ASSUME TakeSession(s) PROVE IInv'
  <2> DEFINE p == [Heard(s, answer[s].rev) EXCEPT !.token = answer[s].sess]
  <2>1. /\ plug' = [plug EXCEPT ![s] = p] /\ answer' = [answer EXCEPT ![s] = NoAnswer]
        /\ UNCHANGED <<clock, hub, change, lists, notices, live, page, disk>>
    BY <1>4 DEF TakeSession, hubVars
  <2>2. Fits(p, page[s], disk[s])
    BY <1>0, HeardFits
  <2>3. page' = [page EXCEPT ![s] = page[s]] /\ disk' = [disk EXCEPT ![s] = disk[s]]
    BY <1>0, <2>1 DEF PlugTyped
  <2>4. LinkTyped' /\ SameList
    BY <1>0, <2>1 DEF LinkTyped, NoAnswer, SameList, ListTyped
  <2>5. plug' = [plug EXCEPT ![s] = p]
    BY <2>1
  <2> HIDE DEF p
  <2>6. QED
    BY <2>2, <2>3, <2>4, <2>5, ServerStep
<1>5. ASSUME PublishManifest(s) PROVE IInv'
  <2>1. /\ hub' = [hub EXCEPT !.declared = hub.declared \cup {s}]
        /\ notices' = [notices EXCEPT ![s] = Noticed(s, hub.revision)]
        /\ UNCHANGED <<clock, change, lists, live, answer, plug, page, disk>>
    BY <1>5 DEF PublishManifest, linkVars
  <2>2. Noticed(s, hub.revision) \in Seq(NoticeType)
    BY <1>0, NoticedTyped
  <2>3. LinkTyped'
    BY <1>0, <2>1, <2>2 DEF LinkTyped
  <2>4. /\ hub' \in [bans : BanMaps, revision : Nat, minted : SUBSET Nat, declared : SUBSET Servers]
        /\ hub'.bans = hub.bans /\ hub'.revision = hub.revision /\ hub'.minted = hub.minted
    BY <1>0, <2>1 DEF ListTyped
  <2>5. SameList
    BY <1>0, <2>1, <2>4 DEF SameList, ListTyped
  <2>6. QED
    BY <2>1, <2>3, <2>5, LinkOnly
<1>6. ASSUME SendNotices(s) PROVE IInv'
  <2> DEFINE f == [i \in 1..Len(notices[s]) |->
                     IF i \in Unsent(s) THEN [notices[s][i] EXCEPT !.state = "sent"] ELSE notices[s][i]]
  <2>1. /\ notices' = [notices EXCEPT ![s] = f]
        /\ UNCHANGED <<clock, hub, change, lists, live, answer, plug, page, disk>>
    BY <1>6 DEF SendNotices, linkVars
  <2>2. f \in [1..Len(notices[s]) -> NoticeType]
    <3>1. \A n \in NoticeType : [n EXCEPT !.state = "sent"] \in NoticeType
      BY DEF NoticeType
    <3>2. QED
      BY <1>1, <3>1
  <2> HIDE DEF f
  <2>3. LinkTyped' /\ SameList
    BY <1>0, <1>2, <2>1, <2>2 DEF SameList, ListTyped
  <2>4. QED
    BY <2>1, <2>3, LinkOnly
<1>7. ASSUME TakeNotice(s) PROVE IInv'
  <2>1. PICK i \in 1..Len(notices[s]) :
          /\ plug' = [plug EXCEPT ![s] = Heard(s, notices[s][i].rev)]
          /\ notices' = [notices EXCEPT ![s] = [notices[s] EXCEPT ![i] = [rev |-> notices[s][i].rev, state |-> "taken"]]]
    BY <1>7 DEF TakeNotice
  <2> DEFINE x == [rev |-> notices[s][i].rev, state |-> "taken"]
             f == [notices[s] EXCEPT ![i] = x]
  <2>2. UNCHANGED <<clock, hub, change, lists, live, answer, page, disk>>
    BY <1>7 DEF TakeNotice, linkVars
  <2>3. notices[s][i].rev \in Nat /\ x \in NoticeType
    BY <1>1 DEF NoticeType
  <2>4. Fits(Heard(s, notices[s][i].rev), page[s], disk[s])
    BY <2>3, HeardFits
  <2>5. page' = [page EXCEPT ![s] = page[s]] /\ disk' = [disk EXCEPT ![s] = disk[s]]
    BY <1>0, <2>2 DEF PlugTyped
  <2> HIDE DEF x
  <2>6. f \in Seq(NoticeType)
    BY <1>0, <2>3
  <2>7. LinkTyped' /\ SameList
    BY <1>0, <2>1, <2>2, <2>6 DEF LinkTyped, SameList, ListTyped, x
  <2>8. QED
    BY <2>1, <2>4, <2>5, <2>7, ServerStep
<1>8. ASSUME AckNotice(s) PROVE IInv'
  <2>1. /\ notices[s] # <<>> /\ notices' = [notices EXCEPT ![s] = Tail(notices[s])]
        /\ UNCHANGED <<clock, hub, change, lists, live, answer, plug, page, disk>>
    BY <1>8 DEF AckNotice, linkVars
  <2>2. Tail(notices[s]) \in Seq(NoticeType)
    BY <1>0, <2>1
  <2>3. LinkTyped' /\ SameList
    BY <1>0, <2>1, <2>2 DEF LinkTyped, SameList, ListTyped
  <2>4. QED
    BY <2>1, <2>3, LinkOnly
<1>9. ASSUME LoseSession(s) \/ EndSession(s) PROVE IInv'
  <2>1. /\ live' = [live EXCEPT ![s] = 0]
        /\ answer' = answer \/ answer' = [answer EXCEPT ![s] = NoAnswer]
        /\ UNCHANGED <<clock, hub, change, lists, notices, plug, page, disk>>
    BY <1>9 DEF LoseSession, EndSession, hubVars
  <2>2. NoAnswer \in [sess : Nat, rev : Nat]
    BY DEF NoAnswer
  <2>3. answer' \in [Servers -> [sess : Nat, rev : Nat]] /\ live' \in [Servers -> Nat]
    BY <1>0, <2>1, <2>2 DEF LinkTyped
  <2>4. LinkTyped' /\ SameList
    BY <1>0, <2>1, <2>3 DEF LinkTyped, SameList, ListTyped
  <2>5. QED
    BY <2>1, <2>4, LinkOnly
<1>10. QED
  BY <1>3, <1>4, <1>5, <1>6, <1>7, <1>8, <1>9

-------------------------------------------------------------------------------
(* The disk *)

\* A replace that succeeds stores the new list.
LEMMA ReplacedDisks ==
  ASSUME NEW d \in DiskType, NEW l \in BanLists, Served(l), NEW left \in Replaced(d, l)
  PROVE  left \in DiskType /\ DiskOk(left) /\ Stored(left) \in BanLists
<1>1. Served(Absent)
  BY Contained DEF Served
<1>2. left = Disk(l, Absent) \/ left = Disk(l, l)
  BY DEF Replaced
<1>3. l \in Contents /\ Absent \in Contents /\ Whole(l) /\ ~Whole(Absent)
  BY Contained DEF Contents, Whole
<1>4. QED
  BY <1>1, <1>2, <1>3 DEF Disk, DiskType, DiskOk, Stored

\* What recovery and a failure of it leave stores what was stored.
LEMMA RecoveredDisks ==
  ASSUME NEW d \in DiskType, DiskOk(d), NEW left \in Recovered(d) \cup NotRecovered(d)
  PROVE  /\ left \in DiskType /\ DiskOk(left)
         /\ Stored(d) \in BanLists => Stored(left) \in BanLists
<1>1. Served(Absent) /\ Served(Cut) /\ ~Whole(Absent) /\ ~Whole(Cut) /\ Absent \in Contents /\ Cut \in Contents
  BY Contained DEF Served, Whole, Contents
<1>2. d.file \in Contents /\ d.staged \in Contents /\ Served(d.file) /\ Served(d.staged)
  BY DEF DiskType, DiskOk
<1>3. \/ left = d
      \/ left = Disk(d.file, Absent) /\ ~Whole(d.staged)
      \/ /\ Whole(d.staged)
         /\ left = Disk(d.staged, Absent) \/ left = Disk(d.staged, d.staged) \/ left = Disk(Cut, d.staged)
  <2>1. CASE left \in NotRecovered(d)
    BY <2>1 DEF NotRecovered
  <2>2. CASE left \in Recovered(d)
    <3>1. d.staged = Absent => Recovered(d) = {d}
      BY BansAssumption DEF Recovered
    <3>2. d.staged = Cut => Recovered(d) = {Disk(d.file, Absent), d}
      BY BansAssumption DEF Recovered
    <3>3. Whole(d.staged) => Recovered(d) = {Disk(d.staged, Absent), Disk(d.staged, d.staged)}
      BY DEF Recovered, Whole
    <3>4. QED
      BY <2>2, <3>1, <3>2, <3>3 DEF Whole
  <2>3. QED
    BY <2>1, <2>2
<1>4. CASE left = d
  BY <1>4
<1>5. CASE left = Disk(d.file, Absent) /\ ~Whole(d.staged)
  BY <1>1, <1>2, <1>5 DEF Disk, DiskType, DiskOk, Stored
<1>6. CASE /\ Whole(d.staged)
           /\ left = Disk(d.staged, Absent) \/ left = Disk(d.staged, d.staged) \/ left = Disk(Cut, d.staged)
  <2>1. left \in DiskType /\ DiskOk(left)
    BY <1>1, <1>2, <1>6 DEF Disk, DiskType, DiskOk
  <2>2. Stored(left) = Stored(d)
    BY <1>1, <1>6 DEF Disk, Stored
  <2>3. QED
    BY <2>1, <2>2
<1>7. QED
  BY <1>3, <1>4, <1>5, <1>6

\* A recovered disk stores its file, whatever becomes of the staging copy.
LEMMA RecoveredFile ==
  ASSUME NEW d \in DiskType, NEW found \in Recovered(d), Stored(found) \in BanLists
  PROVE  found.file \in BanLists
<1>1. \/ ~Whole(d.staged) /\ (found = d \/ found = Disk(d.file, Absent))
      \/ Whole(d.staged) /\ (found = Disk(d.staged, Absent) \/ found = Disk(d.staged, d.staged))
  BY BansAssumption DEF Recovered, Whole
<1>2. ~Whole(Absent)
  BY DEF Whole
<1>3. QED
  BY <1>1, <1>2 DEF Disk, Stored

\* Neither a failure nor a crash takes what was stored without storing the new.
LEMMA OtherDisks ==
  ASSUME NEW d \in DiskType, DiskOk(d), NEW l \in BanLists, Served(l),
         NEW left \in NotReplaced(d, l) \cup Crashed(d, l)
  PROVE  /\ left \in DiskType /\ DiskOk(left)
         /\ Stored(d) \in BanLists => Stored(left) \in BanLists
<1>1. /\ Served(Absent) /\ Served(Cut) /\ ~Whole(Absent) /\ ~Whole(Cut)
      /\ Absent \in Contents /\ Cut \in Contents /\ l \in Contents /\ Whole(l)
  BY Contained DEF Served, Whole, Contents
<1>2. CASE left \in NotRecovered(d)
  BY <1>2, RecoveredDisks
<1>3. ASSUME NEW found \in Recovered(d),
             \/ left = found \/ left = Disk(found.file, Absent) \/ left = Disk(found.file, Cut)
             \/ left = Disk(found.file, l) \/ left = Disk(Cut, l) \/ left = Disk(l, l)
      PROVE  /\ left \in DiskType /\ DiskOk(left)
             /\ Stored(d) \in BanLists => Stored(left) \in BanLists
  <2>1. /\ found \in DiskType /\ DiskOk(found)
        /\ Stored(d) \in BanLists => Stored(found) \in BanLists /\ found.file \in BanLists
    BY RecoveredDisks, RecoveredFile
  <2>2. found.file \in Contents /\ Served(found.file)
    BY <2>1 DEF DiskType, DiskOk
  <2>3. CASE left = found
    BY <2>1, <2>3
  <2>4. CASE left = Disk(found.file, Absent) \/ left = Disk(found.file, Cut)
    BY <1>1, <2>1, <2>2, <2>4 DEF Disk, DiskType, DiskOk, Stored
  <2>5. CASE left = Disk(found.file, l) \/ left = Disk(Cut, l) \/ left = Disk(l, l)
    BY <1>1, <2>2, <2>5 DEF Disk, DiskType, DiskOk, Stored
  <2>6. QED
    BY <1>3, <2>3, <2>4, <2>5
<1>4. ASSUME left \notin NotRecovered(d), left \in Crashed(d, l)
      PROVE  /\ left \in DiskType /\ DiskOk(left)
             /\ Stored(d) \in BanLists => Stored(left) \in BanLists
  <2>1. PICK found \in Recovered(d) : left \in {found} \cup Interrupted(found, l)
    BY <1>4 DEF Crashed
  <2>2. \/ left = found \/ left = Disk(found.file, Cut) \/ left = Disk(found.file, l)
        \/ left = Disk(Cut, l) \/ left = Disk(l, l)
    BY <2>1 DEF Interrupted
  <2>3. QED
    BY <1>3, <2>2
<1>5. ASSUME left \notin NotRecovered(d), left \in NotReplaced(d, l)
      PROVE  /\ left \in DiskType /\ DiskOk(left)
             /\ Stored(d) \in BanLists => Stored(left) \in BanLists
  <2>1. PICK found \in Recovered(d) :
          left \in Discarded(found) \cup Discarded(Disk(found.file, Cut))
                   \cup {Disk(found.file, Absent), Disk(found.file, l), Disk(Cut, l), Disk(l, l)}
    BY <1>5 DEF NotReplaced
  <2>2. \/ left = found \/ left = Disk(found.file, Absent) \/ left = Disk(found.file, Cut)
        \/ left = Disk(found.file, l) \/ left = Disk(Cut, l) \/ left = Disk(l, l)
    BY <2>1 DEF Discarded, Disk
  <2>3. QED
    BY <1>3, <2>2
<1>6. QED
  BY <1>2, <1>4, <1>5

-------------------------------------------------------------------------------
(* The walk *)

\* A page is read of the list as it stood at the revision the walk reads.
LEMMA Gathering ==
  ASSUME IInv, NEW s \in Servers, page[s].stage = "reading"
  PROVE  /\ Pinned(s) = page[s].rev /\ Pinned(s) \in DOMAIN lists /\ Pinned(s) \in Nat
         /\ lists[Pinned(s)] \in SUBSET Entries
         /\ plug[s].walked = {e \in lists[Pinned(s)] : e.who <= plug[s].after}
         /\ Following(s) = {e \in lists[Pinned(s)] : e.who > plug[s].after}
         /\ IsFiniteSet(Following(s)) /\ plug[s].after \in Nat /\ plug[s].walking
<1> DEFINE p == plug[s]
           L == EntriesAt(hub.bans, page[s].rev)
<1>1. /\ p.walking /\ page[s].rev \in DOMAIN lists /\ lists[page[s].rev] = L
      /\ p.rev # None => page[s].rev = p.rev
  BY DEF IInv, Fits, PageOk
<1>2. Pinned(s) = page[s].rev
  BY <1>1 DEF Pinned
<1>3. page[s].rev \in Nat
  BY <1>1 DEF IInv, Register
<1>4. L \in SUBSET Entries /\ IsFiniteSet(L)
  <2>1. hub.bans \in BanMaps
    BY DEF IInv, ListTyped
  <2>2. QED
    BY <2>1, EntriesTyped
<1>5. p.after \in Nat
  BY DEF IInv, Fits, PlugType
<1>6. \A e \in L : e.who \in Nat /\ e.who > 0
  <2>1. \A e \in Entries : e.who \in Nat \ {0}
    BY BansAssumption DEF Entries
  <2>2. \A e \in Entries : e.who \in Nat /\ e.who > 0
    BY <2>1
  <2> HIDE DEF L
  <2>3. QED
    BY <1>4, <2>2
<1>7. p.walked = {e \in L : e.who <= p.after}
  <2>1. \/ p.rev = None /\ p.after = 0 /\ p.walked = {}
        \/ /\ p.rev \in DOMAIN lists /\ p.after > 0
           /\ p.walked = {e \in lists[p.rev] : e.who <= p.after}
    BY <1>1 DEF IInv, Fits, PlugOk
  <2>2. CASE p.rev = None /\ p.after = 0 /\ p.walked = {}
    <3>1. \A e \in L : ~(e.who <= 0)
      BY <1>6
    <3>2. QED
      BY <2>2, <3>1
  <2>3. CASE p.rev \in DOMAIN lists /\ p.walked = {e \in lists[p.rev] : e.who <= p.after}
    <3>1. p.rev # None
      BY <2>3 DEF IInv, Register, None
    <3>2. QED
      BY <1>1, <2>3, <3>1
  <2>4. QED
    BY <2>1, <2>2, <2>3
<1>8. Following(s) = {e \in L : e.who > p.after}
  BY DEF Following
<1> HIDE DEF L, p
<1>9. IsFiniteSet(Following(s))
  BY <1>4, <1>8, FS_Subset
<1>10. QED
  BY <1>1, <1>2, <1>3, <1>4, <1>5, <1>7, <1>8, <1>9 DEF p

\* With nothing more to read, the walk has the whole list.
LEMMA WholeWalk ==
  ASSUME IInv, NEW s \in Servers, page[s].stage = "reading", ~More(s)
  PROVE  Walked(s) \in BanLists /\ Served(Walked(s))
<1> DEFINE L == lists[Pinned(s)]
<1>1. /\ Pinned(s) \in DOMAIN lists /\ Pinned(s) \in Nat /\ L \in SUBSET Entries
      /\ plug[s].walked = {e \in L : e.who <= plug[s].after}
      /\ PageEntries(s) = {e \in L : e.who > plug[s].after} /\ plug[s].after \in Nat
  BY Gathering DEF More
<1>2. \A e \in L : e.who \in Nat
  BY <1>1, BansAssumption DEF Entries
<1>3. \A e \in L : e.who <= plug[s].after \/ e.who > plug[s].after
  BY <1>1, <1>2
<1>4. Gathered(s) = L
  BY <1>1, <1>3 DEF Gathered
<1>5. QED
  BY <1>1, <1>4 DEF Walked, BanLists, Served

\* A page holds the entries that follow the cursor, without a gap.
LEMMA NoGap ==
  ASSUME IInv, NEW s \in Servers, page[s].stage = "reading",
         NEW e \in PageEntries(s), NEW f \in Following(s), f.who <= e.who
  PROVE  f \in PageEntries(s)
<1> DEFINE Before(x) == {g \in Following(s) : g.who < x.who}
<1>1. IsFiniteSet(Following(s)) /\ Following(s) \in SUBSET Entries
  BY Gathering
<1>2. \A g \in Following(s) : g.who \in Nat
  BY <1>1, BansAssumption DEF Entries
<1>3. e \in Following(s) /\ Cardinality(Before(e)) < PageLimit
  BY DEF PageEntries
<1>4. Before(f) \in SUBSET Before(e)
  BY <1>2, <1>3
<1>5. Before(e) \in SUBSET Following(s)
  OBVIOUS
<1> HIDE DEF Before
<1>6. IsFiniteSet(Before(e))
  BY <1>1, <1>5, FS_Subset
<1>7. IsFiniteSet(Before(f)) /\ Cardinality(Before(f)) <= Cardinality(Before(e))
  BY <1>4, <1>6, FS_Subset
<1>8. Cardinality(Before(f)) \in Nat /\ Cardinality(Before(e)) \in Nat /\ PageLimit \in Nat
  BY <1>6, <1>7, FS_CardinalityType, BansAssumption
<1>9. Cardinality(Before(f)) < PageLimit
  BY <1>3, <1>7, <1>8
<1>10. QED
  BY <1>9 DEF PageEntries, Before

\* While more follows, a page is not empty.
LEMMA PageNotEmpty ==
  ASSUME IInv, NEW s \in Servers, page[s].stage = "reading", More(s)
  PROVE  PageEntries(s) # {}
<1> DEFINE W == {e.who : e \in Following(s)}
<1>1. Following(s) # {} /\ Following(s) \in SUBSET Entries
  BY Gathering DEF More, PageEntries
<1>2. W \in SUBSET Nat /\ W # {}
  BY <1>1, BansAssumption DEF Entries
<1>3. PICK w \in W : \A v \in W : w <= v
  <2> HIDE DEF W
  <2>1. QED
    BY <1>2, LeastOf
<1>4. PICK e \in Following(s) : e.who = w
  OBVIOUS
<1>5. \A f \in Following(s) : f.who \in Nat /\ w \in Nat /\ w <= f.who
  BY <1>2, <1>3
<1>6. {f \in Following(s) : f.who < e.who} = {}
  BY <1>4, <1>5
<1>7. Cardinality({}) = 0 /\ 0 < PageLimit
  BY FS_EmptySet, BansAssumption
<1>8. QED
  BY <1>6, <1>7 DEF PageEntries

\* The cursor of the next page: the walk has exactly what is not beyond it.
LEMMA NextCursor ==
  ASSUME IInv, NEW s \in Servers, page[s].stage = "reading", More(s),
         NEW a, a = LastOf({e.who : e \in PageEntries(s)})
  PROVE  /\ a \in Nat /\ a > 0
         /\ Gathered(s) = {e \in lists[Pinned(s)] : e.who <= a}
<1> DEFINE L == lists[Pinned(s)]
           W == {e.who : e \in PageEntries(s)}
<1>1. /\ L \in SUBSET Entries /\ plug[s].after \in Nat
      /\ plug[s].walked = {e \in L : e.who <= plug[s].after}
      /\ Following(s) = {e \in L : e.who > plug[s].after}
  BY Gathering
<1>2. PageEntries(s) \in SUBSET Following(s) /\ PageEntries(s) # {}
  BY PageNotEmpty DEF PageEntries
<1>3. \A e \in L : e.who \in Players /\ e.who \in Nat
  BY <1>1, BansAssumption DEF Entries
<1>4. W \in SUBSET Players /\ W \in SUBSET Nat /\ W # {}
  BY <1>1, <1>2, <1>3
<1>5. a \in W /\ \A w \in W : w <= a
  <2> HIDE DEF W
  <2>1. IsFiniteSet(W)
    BY <1>4, FS_Subset, BansAssumption
  <2>2. QED
    BY <1>4, <2>1, LastIsGreatest DEF W
<1>6. PICK last \in PageEntries(s) : last.who = a
  BY <1>5
<1>7. a \in Nat /\ a > plug[s].after
  BY <1>1, <1>2, <1>3, <1>6
<1>8. \A e \in PageEntries(s) : e \in L /\ e.who <= a
  BY <1>1, <1>2, <1>5
<1>9. \A e \in L : e.who > plug[s].after /\ e.who <= a => e \in PageEntries(s)
  BY <1>1, <1>6, NoGap
<1>10. \A e \in L : e.who <= a <=> (e.who <= plug[s].after \/ e \in PageEntries(s))
  <2> SUFFICES ASSUME NEW e \in L
               PROVE  e.who <= a <=> (e.who <= plug[s].after \/ e \in PageEntries(s))
    OBVIOUS
  <2> HIDE DEF L, W
  <2>1. e.who \in Nat
    BY <1>3
  <2>2. e.who <= plug[s].after => e.who <= a
    BY <1>1, <1>7, <2>1
  <2>3. e.who <= plug[s].after \/ e.who > plug[s].after
    BY <1>1, <2>1
  <2>4. QED
    BY <1>8, <1>9, <2>2, <2>3
<1> HIDE DEF L, W
<1>11. Gathered(s) = {e \in L : e.who <= a}
  BY <1>1, <1>8, <1>10 DEF Gathered
<1>12. QED
  BY <1>1, <1>7, <1>11 DEF L

\* What a step of one server leaves of the rest.
LEMMA OneServer ==
  ASSUME IInv, NEW s \in Servers, UNCHANGED <<clock, hub, notices, change, lists, live>>,
         answer' = answer \/ answer' = [answer EXCEPT ![s] = NoAnswer]
  PROVE  SameList /\ LinkTyped' /\ plug \in [Servers -> PlugType] /\ page \in [Servers -> PageType]
         /\ disk \in [Servers -> DiskType]
<1>1. ListTyped /\ LinkTyped /\ PlugTyped
  BY DEF IInv
<1>2. SameList /\ plug \in [Servers -> PlugType] /\ page \in [Servers -> PageType]
      /\ disk \in [Servers -> DiskType]
  BY <1>1 DEF SameList, ListTyped, PlugTyped
<1>3. NoAnswer \in [sess : Nat, rev : Nat]
  BY DEF NoAnswer
<1>4. LinkTyped'
  BY <1>1, <1>3 DEF LinkTyped
<1>5. QED
  BY <1>2, <1>4

\* A walk begun, or given up, has nothing.
LEMMA EmptyWalks ==
  ASSUME IInv, NEW s \in Servers, NEW g \in PageType, g.stage # "reading", plug[s].up
  PROVE  /\ Fits(Begun(plug[s]), g, disk[s]) /\ Fits(Failed(plug[s]), g, disk[s])
         /\ Begun(plug[s]).walking /\ Begun(plug[s]).rev = None /\ Begun(plug[s]).after = 0
         /\ Begun(plug[s]).up
<1> DEFINE p == plug[s]
<1>1. p \in PlugType /\ Fits(p, page[s], disk[s])
  BY DEF IInv, Fits
<1>2. /\ Begun(p) \in PlugType /\ Begun(p).list = p.list /\ Begun(p).walking /\ Begun(p).rev = None
      /\ Begun(p).after = 0 /\ Begun(p).walked = {} /\ Begun(p).up = p.up
  BY <1>1 DEF Begun, PlugType
<1>3. Failed(p) \in PlugType /\ Failed(p).list = p.list /\ ~Failed(p).walking /\ Failed(p).up = p.up
  BY <1>1 DEF Failed, PlugType
<1> HIDE DEF p
<1>4. Fits(Begun(p), g, disk[s]) /\ Fits(Failed(p), g, disk[s])
  BY <1>1, <1>2, <1>3 DEF p, Fits, PlugOk, PageOk, KeptOk
<1>5. QED
  BY <1>2, <1>4 DEF p

\* The hub serves a cursor's revision only while its list still says what it said.
LEMMA AdmissionFits ==
  ASSUME IInv, NEW s \in Servers, NEW p \in PlugType, PlugOk(p), p.walking, p.up
  PROVE  Admission(s, p) \in PageType /\ PageOk(p, Admission(s, p))
<1> DEFINE g == Admission(s, p)
<1>1. p.token \in Nat /\ p.after \in Nat /\ p.rev \in Nat \cup {None} /\ hub.revision \in Nat
  BY DEF PlugType, IInv, ListTyped
<1>2. /\ hub.revision \in hub.minted /\ hub.minted \subseteq DOMAIN lists /\ 0 \in DOMAIN lists
      /\ DOMAIN lists \subseteq Nat
      /\ \A r \in hub.minted \cup {0} : lists[r] = EntriesAt(hub.bans, r)
  BY DEF IInv, Register
<1>3. p.after = 0 <=> p.rev = None
  BY <1>1, <1>2 DEF PlugOk, None
<1>4. \/ g = Page("invalid", 0, p.token) \/ g = Page("conflict", 0, p.token)
      \/ p.after = 0 /\ g = Page("reading", hub.revision, p.token)
      \/ p.after # 0 /\ Servable(p.rev) /\ g = Page("reading", p.rev, p.token)
  <2>1. CASE p.token # live[s]
    BY <2>1 DEF Admission
  <2>2. CASE p.token = live[s] /\ p.after = 0
    BY <2>2 DEF Admission
  <2>3. CASE p.token = live[s] /\ p.after # 0 /\ Servable(p.rev)
    BY <2>3 DEF Admission
  <2>4. CASE p.token = live[s] /\ p.after # 0 /\ ~Servable(p.rev)
    BY <2>4 DEF Admission
  <2>5. QED
    BY <2>1, <2>2, <2>3, <2>4
<1> HIDE DEF g
<1>5. CASE g = Page("invalid", 0, p.token) \/ g = Page("conflict", 0, p.token)
  BY <1>1, <1>5 DEF g, Page, PageType, PageOk
<1>6. CASE p.after = 0 /\ g = Page("reading", hub.revision, p.token)
  <2>1. lists[hub.revision] = EntriesAt(hub.bans, hub.revision) /\ hub.revision \in DOMAIN lists
    BY <1>2
  <2>2. g \in PageType /\ g.stage = "reading" /\ g.rev = hub.revision
    BY <1>1, <1>6 DEF Page, PageType
  <2>3. QED
    BY <1>3, <1>6, <2>1, <2>2 DEF g, PageOk
<1>7. CASE p.after # 0 /\ Servable(p.rev) /\ g = Page("reading", p.rev, p.token)
  <2>1. p.rev \in hub.minted \cup {0}
    BY <1>2, <1>7 DEF Servable
  <2>2. p.rev \in Nat /\ p.rev \in DOMAIN lists /\ lists[p.rev] = EntriesAt(hub.bans, p.rev)
    BY <1>2, <2>1
  <2>3. g \in PageType /\ g.stage = "reading" /\ g.rev = p.rev
    BY <1>1, <1>7, <2>2 DEF Page, PageType
  <2>4. QED
    BY <2>2, <2>3 DEF g, PageOk
<1>8. QED
  BY <1>4, <1>5, <1>6, <1>7 DEF g

LEMMA NoPageTyped == NoPage \in PageType /\ NoPage.stage = "none"
BY DEF NoPage, PageType

LEMMA WalkKeeps ==
  ASSUME IInv, NEW s \in Servers,
         \/ RequestPage(s) \/ TakePage(s) \/ TakeLastPage(s) \/ LoseLastPage(s) \/ TakeInvalid(s)
         \/ TakeConflict(s) \/ LosePage(s)
  PROVE  IInv'
<1>1. /\ SameList /\ LinkTyped' /\ plug \in [Servers -> PlugType] /\ page \in [Servers -> PageType]
      /\ disk \in [Servers -> DiskType]
  <2>1. UNCHANGED <<clock, hub, notices, change, lists, live, answer>>
    BY DEF RequestPage, TakePage, TakeLastPage, LoseLastPage, TakeInvalid, TakeConflict, LosePage,
           hubVars, linkVars
  <2>2. QED
    BY <2>1, OneServer
<1>2. Fits(plug[s], page[s], disk[s])
  BY DEF IInv
<1>3. page[s] # NoPage => plug[s].up
  BY <1>2 DEF Fits, PageOk
<1>4. disk = [disk EXCEPT ![s] = disk[s]]
  BY <1>1
<1>5. ASSUME RequestPage(s) PROVE IInv'
  <2> DEFINE p == IF plug[s].walking THEN plug[s] ELSE Begun(plug[s])
             g == Admission(s, p)
  <2>1. plug[s].up /\ plug' = [plug EXCEPT ![s] = p] /\ page' = [page EXCEPT ![s] = g] /\ disk' = disk
    BY <1>5 DEF RequestPage
  <2>2. Fits(p, NoPage, disk[s]) /\ p.walking /\ p.up
    <3>1. CASE plug[s].walking
      BY <1>2, <2>1, <3>1, NoPageTyped DEF Fits, PageOk
    <3>2. CASE ~plug[s].walking
      BY <2>1, <3>2, EmptyWalks, NoPageTyped
    <3>3. QED
      BY <3>1, <3>2
  <2> HIDE DEF p
  <2>3. g \in PageType /\ PageOk(p, g)
    BY <2>2, AdmissionFits DEF Fits
  <2> HIDE DEF g
  <2>4. Fits(p, g, disk[s])
    BY <2>2, <2>3 DEF Fits
  <2>5. disk' = [disk EXCEPT ![s] = disk[s]]
    BY <1>4, <2>1
  <2>6. plug' = [plug EXCEPT ![s] = p] /\ page' = [page EXCEPT ![s] = g]
    BY <2>1
  <2>7. QED
    BY <1>1, <2>4, <2>5, <2>6, ServerStep
<1>6. ASSUME TakePage(s) PROVE IInv'
  <2> DEFINE a == LastOf({e.who : e \in PageEntries(s)})
             p == [plug[s] EXCEPT !.rev = Pinned(s), !.walked = Gathered(s), !.after = a]
  <2>1. /\ page[s].stage = "reading" /\ More(s) /\ plug' = [plug EXCEPT ![s] = p]
        /\ page' = [page EXCEPT ![s] = NoPage] /\ disk' = disk
    BY <1>6 DEF TakePage
  <2>2. a \in Nat /\ a > 0 /\ Gathered(s) = {e \in lists[Pinned(s)] : e.who <= a}
    BY <2>1, NextCursor
  <2>3. /\ Pinned(s) \in DOMAIN lists /\ Pinned(s) \in Nat /\ lists[Pinned(s)] \in SUBSET Entries
        /\ plug[s].walking
    BY <2>1, Gathering
  <2>4. Gathered(s) \in SUBSET Entries /\ plug[s] \in PlugType
    BY <1>1, <2>2, <2>3
  <2> HIDE DEF a
  <2>5. /\ p \in PlugType /\ p.list = plug[s].list /\ p.walking /\ p.rev = Pinned(s) /\ p.after = a
        /\ p.walked = Gathered(s) /\ p.up = plug[s].up
    BY <2>2, <2>3, <2>4 DEF PlugType
  <2>6. plug' = [plug EXCEPT ![s] = p] /\ page' = [page EXCEPT ![s] = NoPage]
    BY <2>1
  <2>7. disk' = [disk EXCEPT ![s] = disk[s]]
    BY <1>4, <2>1
  <2> HIDE DEF p
  <2>8. Fits(p, NoPage, disk[s])
    BY <1>2, <2>2, <2>3, <2>5, NoPageTyped DEF Fits, PlugOk, PageOk, KeptOk
  <2>9. QED
    BY <1>1, <2>6, <2>7, <2>8, ServerStep
<1>7. ASSUME TakeLastPage(s) PROVE IInv'
  <2>1. PICK left \in Replaced(disk[s], Walked(s)) : disk' = [disk EXCEPT ![s] = left]
    BY <1>7 DEF TakeLastPage
  <2>2. /\ page[s].stage = "reading" /\ ~More(s)
        /\ plug' = [plug EXCEPT ![s] = Finished(s)] /\ page' = [page EXCEPT ![s] = NoPage]
    BY <1>7 DEF TakeLastPage
  <2>3. Walked(s) \in BanLists /\ Served(Walked(s)) /\ Pinned(s) \in Nat
    BY <2>2, WholeWalk, Gathering
  <2>4. disk[s] \in DiskType /\ plug[s] \in PlugType
    BY <1>1
  <2>5. left \in DiskType /\ DiskOk(left) /\ Stored(left) \in BanLists
    BY <2>1, <2>3, <2>4, ReplacedDisks
  <2>6. /\ Finished(s) \in PlugType /\ Finished(s).list = Walked(s) /\ ~Finished(s).walking
        /\ Finished(s).up = plug[s].up
    BY <2>3, <2>4 DEF Finished, PlugType
  <2>7. Fits(Finished(s), NoPage, left)
    BY <2>3, <2>5, <2>6, NoPageTyped DEF Fits, PlugOk, PageOk, KeptOk
  <2>8. QED
    BY <1>1, <2>1, <2>2, <2>7, ServerStep
<1>8. ASSUME LoseLastPage(s) PROVE IInv'
  <2>1. PICK left \in NotReplaced(disk[s], Walked(s)) : disk' = [disk EXCEPT ![s] = left]
    BY <1>8 DEF LoseLastPage
  <2>2. /\ page[s].stage = "reading" /\ ~More(s)
        /\ plug' = [plug EXCEPT ![s] = Failed(plug[s])] /\ page' = [page EXCEPT ![s] = NoPage]
    BY <1>8 DEF LoseLastPage
  <2>3. Walked(s) \in BanLists /\ Served(Walked(s))
    BY <2>2, WholeWalk
  <2>4. disk[s] \in DiskType /\ plug[s] \in PlugType /\ DiskOk(disk[s]) /\ plug[s].up
    <3>1. page[s] # NoPage
      BY <2>2, NoPageTyped
    <3>2. QED
      BY <1>1, <1>2, <1>3, <3>1 DEF Fits
  <2>5. /\ left \in DiskType /\ DiskOk(left)
        /\ Stored(disk[s]) \in BanLists => Stored(left) \in BanLists
    BY <2>1, <2>3, <2>4, OtherDisks
  <2>6. Fits(Failed(plug[s]), NoPage, disk[s]) /\ Failed(plug[s]).list = plug[s].list
    BY <2>4, EmptyWalks, NoPageTyped DEF Failed, PlugType
  <2>7. Fits(Failed(plug[s]), NoPage, left)
    BY <2>5, <2>6 DEF Fits, KeptOk
  <2>8. QED
    BY <1>1, <2>1, <2>2, <2>7, ServerStep
<1>9. ASSUME TakeInvalid(s) PROVE IInv'
  <2> DEFINE p == [plug[s] EXCEPT !.refused = page[s].sess]
  <2>1. plug' = [plug EXCEPT ![s] = p] /\ page' = [page EXCEPT ![s] = NoPage] /\ disk' = disk
    BY <1>1, <1>9 DEF TakeInvalid
  <2>2. /\ p \in PlugType /\ p.list = plug[s].list /\ p.walking = plug[s].walking /\ p.rev = plug[s].rev
        /\ p.after = plug[s].after /\ p.walked = plug[s].walked /\ p.up = plug[s].up
    BY <1>1 DEF PlugType, PageType
  <2>3. Fits(plug[s], NoPage, disk[s])
    BY <1>2, NoPageTyped DEF Fits, PageOk
  <2>4. plug' = [plug EXCEPT ![s] = p] /\ page' = [page EXCEPT ![s] = NoPage]
    BY <2>1
  <2>5. disk' = [disk EXCEPT ![s] = disk[s]]
    BY <1>4, <2>1
  <2> HIDE DEF p
  <2>6. Fits(p, NoPage, disk[s])
    BY <2>2, <2>3, SameWalk
  <2>7. QED
    BY <1>1, <2>4, <2>5, <2>6, ServerStep
<1>10. ASSUME TakeConflict(s) \/ LosePage(s) PROVE IInv'
  <2>1. /\ page[s] # NoPage /\ page' = [page EXCEPT ![s] = NoPage] /\ disk' = disk
        /\ \/ plug' = [plug EXCEPT ![s] = Begun(plug[s])]
           \/ plug' = [plug EXCEPT ![s] = Failed(plug[s])]
    BY <1>10, NoPageTyped DEF TakeConflict, LosePage
  <2>2. Fits(Begun(plug[s]), NoPage, disk[s]) /\ Fits(Failed(plug[s]), NoPage, disk[s])
    BY <1>3, <2>1, EmptyWalks, NoPageTyped
  <2>3. disk' = [disk EXCEPT ![s] = disk[s]]
    BY <1>4, <2>1
  <2>4. page' = [page EXCEPT ![s] = NoPage]
    BY <2>1
  <2>5. CASE plug' = [plug EXCEPT ![s] = Begun(plug[s])]
    BY <1>1, <2>2, <2>3, <2>4, <2>5, ServerStep
  <2>6. CASE plug' = [plug EXCEPT ![s] = Failed(plug[s])]
    BY <1>1, <2>2, <2>3, <2>4, <2>6, ServerStep
  <2>7. QED
    BY <2>1, <2>5, <2>6
<1>11. QED
  BY <1>5, <1>6, <1>7, <1>8, <1>9, <1>10

-------------------------------------------------------------------------------
(* Crashes *)

LEMMA CrashKeeps ==
  ASSUME IInv, NEW s \in Servers, Crash(s)
  PROVE  IInv'
<1> DEFINE p == [Down EXCEPT !.list = plug[s].list]
<1>1. PICK left : /\ Die(s, left)
                  /\ \/ left = disk[s]
                     \/ page[s].stage = "reading" /\ ~More(s) /\ left \in Crashed(disk[s], Walked(s))
  BY DEF Crash
<1>2. /\ plug' = [plug EXCEPT ![s] = p] /\ disk' = [disk EXCEPT ![s] = left]
      /\ page' = [page EXCEPT ![s] = NoPage]
  BY <1>1 DEF Die
<1>3. /\ SameList /\ LinkTyped' /\ plug \in [Servers -> PlugType] /\ page \in [Servers -> PageType]
      /\ disk \in [Servers -> DiskType]
  <2>1. /\ UNCHANGED <<clock, hub, notices, change, lists, live>>
        /\ answer' = [answer EXCEPT ![s] = NoAnswer]
    BY <1>1 DEF Die, hubVars
  <2>2. QED
    BY <2>1, OneServer
<1>4. Fits(plug[s], page[s], disk[s]) /\ disk[s] \in DiskType /\ DiskOk(disk[s])
  BY DEF IInv, Fits
<1>5. /\ left \in DiskType /\ DiskOk(left)
      /\ Stored(disk[s]) \in BanLists => Stored(left) \in BanLists
  <2>1. CASE left = disk[s]
    BY <1>4, <2>1
  <2>2. CASE page[s].stage = "reading" /\ ~More(s) /\ left \in Crashed(disk[s], Walked(s))
    <3>1. Walked(s) \in BanLists /\ Served(Walked(s))
      BY <2>2, WholeWalk
    <3>2. QED
      BY <1>4, <2>2, <3>1, OtherDisks
  <2>3. QED
    BY <1>1, <2>1, <2>2
<1>6. p \in PlugType /\ p.list = plug[s].list /\ ~p.walking
  <2>1. plug[s].list \in BanLists \cup {NoList}
    BY <1>3 DEF PlugType
  <2>2. QED
    BY <2>1 DEF Down, Booted, PlugType
<1> HIDE DEF p
<1>7. Fits(p, NoPage, left)
  BY <1>4, <1>5, <1>6, NoPageTyped DEF Fits, PlugOk, PageOk, KeptOk
<1>8. QED
  BY <1>2, <1>3, <1>7, ServerStep

\* What a boot reads, all copies opened or not, is a copy of what the disk
\* holds, and what it leaves stores what was stored.
LEMMA ReadOutcomes ==
  ASSUME NEW d \in DiskType, DiskOk(d), NEW outcome \in Reads(d) \cup Misreads(d)
  PROVE  /\ outcome.left \in DiskType /\ DiskOk(outcome.left)
         /\ Stored(d) \in BanLists => Stored(outcome.left) \in BanLists
         /\ outcome.read \in Contents /\ Served(outcome.read)
         /\ outcome.read \in BanLists => Stored(d) \in BanLists
         /\ outcome \in Reads(d) => outcome.read = Stored(d)
<1>1. /\ d.file \in Contents /\ d.staged \in Contents /\ Served(d.file) /\ Served(d.staged)
      /\ Absent \in Contents /\ Served(Absent) /\ Absent \notin BanLists
  BY Contained DEF DiskType, DiskOk, Served, Contents
<1>2. Stored(d) \in Contents /\ Served(Stored(d))
  BY <1>1 DEF Stored
<1>3. d.file \in BanLists => Stored(d) \in BanLists
  BY <1>1, Contained DEF Stored
<1>4. CASE outcome \in Reads(d)
  <2>1. PICK left \in Recovered(d) \cup NotRecovered(d) : outcome = Outcome(left, Stored(d))
    BY <1>4 DEF Reads
  <2>2. outcome.left = left /\ outcome.read = Stored(d)
    BY <2>1 DEF Outcome
  <2>3. QED
    BY <1>2, <2>2, RecoveredDisks
<1>5. CASE outcome \in Misreads(d) /\ outcome \notin Reads(d)
  <2>1. PICK left \in {d} \cup Recovered(d), content \in {d.file, Absent} :
          outcome = Outcome(left, content)
    BY <1>5 DEF Misreads
  <2>2. outcome.left = left /\ outcome.read = content
    BY <2>1 DEF Outcome
  <2>3. /\ left \in DiskType /\ DiskOk(left)
        /\ Stored(d) \in BanLists => Stored(left) \in BanLists
    BY RecoveredDisks
  <2>4. QED
    BY <1>1, <1>3, <1>5, <2>2, <2>3
<1>6. QED
  BY <1>4, <1>5

\* A server boots with the list it read, if that is whole.
LEMMA BootList ==
  ASSUME NEW content \in Contents, Served(content)
  PROVE  /\ InForce(content) \in BanLists \cup {NoList} /\ Served(InForce(content))
         /\ InForce(content) # NoList <=> content \in BanLists
         /\ content \in BanLists => InForce(content) = content
<1>1. Whole(content) <=> content \in BanLists
  BY Contained
<1>2. Served(NoList) /\ NoList \notin BanLists
  BY Contained DEF Served
<1>3. QED
  BY <1>1, <1>2 DEF InForce

LEMMA BootKeeps ==
  ASSUME IInv, NEW s \in Servers, Boot(s) \/ BootUnread(s)
  PROVE  IInv'
<1>1. PICK outcome \in Reads(disk[s]) \cup Misreads(disk[s]) :
        /\ disk' = [disk EXCEPT ![s] = outcome.left]
        /\ plug' = [plug EXCEPT ![s] = Booted(InForce(outcome.read))]
  BY DEF Boot, BootUnread, Load
<1> DEFINE p == Booted(InForce(outcome.read))
           left == outcome.left
<1>2. /\ plug' = [plug EXCEPT ![s] = p] /\ UNCHANGED page /\ ~plug[s].up
      /\ UNCHANGED <<clock, hub, notices, change, lists, live, answer>>
  BY <1>1 DEF Boot, BootUnread, Load, hubVars, linkVars
<1>3. /\ SameList /\ LinkTyped' /\ plug \in [Servers -> PlugType] /\ page \in [Servers -> PageType]
      /\ disk \in [Servers -> DiskType]
  BY <1>2, OneServer
<1>4. Fits(plug[s], page[s], disk[s]) /\ disk[s] \in DiskType /\ DiskOk(disk[s])
  BY DEF IInv, Fits
<1>5. page[s] = NoPage
  BY <1>2, <1>4 DEF Fits, PageOk
<1>6. /\ left \in DiskType /\ DiskOk(left)
      /\ Stored(disk[s]) \in BanLists => Stored(left) \in BanLists
  BY <1>1, <1>4, ReadOutcomes
<1>7. /\ InForce(outcome.read) \in BanLists \cup {NoList} /\ Served(InForce(outcome.read))
      /\ InForce(outcome.read) # NoList => Stored(disk[s]) \in BanLists
  <2>1. /\ outcome.read \in Contents /\ Served(outcome.read)
        /\ outcome.read \in BanLists => Stored(disk[s]) \in BanLists
    BY <1>1, <1>4, ReadOutcomes
  <2>2. QED
    BY <2>1, BootList
<1>8. p \in PlugType /\ p.list = InForce(outcome.read) /\ ~p.walking /\ p.up
  BY <1>7 DEF Booted, PlugType
<1>9. page' = [page EXCEPT ![s] = NoPage]
  BY <1>2, <1>3, <1>5
<1>10. plug' = [plug EXCEPT ![s] = p] /\ disk' = [disk EXCEPT ![s] = left]
  BY <1>1, <1>2
<1> HIDE DEF p, left
<1>11. Fits(p, NoPage, left)
  BY <1>6, <1>7, <1>8, NoPageTyped DEF Fits, PlugOk, PageOk, KeptOk
<1>12. QED
  BY <1>3, <1>9, <1>10, <1>11, ServerStep

-------------------------------------------------------------------------------
(* The theorems *)

LEMMA IInvNext ==
  ASSUME IInv, [Next]_vars
  PROVE  IInv'
<1>1. CASE UNCHANGED vars
  <2>1. UNCHANGED <<clock, hub, notices, change, lists, live, answer, plug, page, disk>>
    BY <1>1 DEF vars, hubVars, linkVars
  <2>2. LinkTyped' /\ SameList
    BY <2>1 DEF IInv, LinkTyped, ListTyped, SameList
  <2>3. QED
    BY <2>1, <2>2, LinkOnly
<1>2. CASE Next
  <2>1. CASE Tick \/ CommitChange \/ Restore
    BY <2>1, TickKeeps, CommitKeeps, RestoreKeeps
  <2>2. CASE SweepExpiredBans \/ \E b \in BanIds : CreateBan(b) \/ LiftBan(b)
    BY <2>2, ListKeeps
  <2>3. ASSUME NEW s \in Servers, LinkStep(s) \/ LoseSession(s) \/ EndSession(s) PROVE IInv'
    BY <2>3, LinkKeeps DEF LinkStep
  <2>4. ASSUME NEW s \in Servers, WalkStep(s) \/ LosePage(s) \/ LoseLastPage(s) PROVE IInv'
    BY <2>4, WalkKeeps DEF WalkStep
  <2>5. ASSUME NEW s \in Servers, Crash(s) \/ Boot(s) \/ BootUnread(s) PROVE IInv'
    BY <2>5, CrashKeeps, BootKeeps
  <2>6. QED
    BY <1>2, <2>1, <2>2, <2>3, <2>4, <2>5 DEF Next, ListStep, FaultStep
<1>3. QED
  BY <1>1, <1>2

LEMMA Invariance == Spec => []IInv
<1>1. Init => IInv
  BY IInvInit
<1>2. IInv /\ [Next]_vars => IInv'
  BY IInvNext
<1>3. QED
  BY <1>1, <1>2, PTL DEF Spec

\* What a server enforces is the list of one revision (BanListAt's two reads
\* of a page, nextBanRevision, the plugin's Finish and Load): no change, sweep
\* or restore during a walk, and no crash, makes it a mixture of two.
THEOREM NoMixture == Spec => []EnforcedIsServed
<1>1. IInv => EnforcedIsServed
  <2> SUFFICES ASSUME IInv, NEW s \in Servers, plug[s].list.rev # None
               PROVE  /\ plug[s].list.rev \in DOMAIN lists
                      /\ plug[s].list.bans = lists[plug[s].list.rev]
    BY DEF EnforcedIsServed
  <2>1. plug[s].list \in BanLists \cup {NoList} /\ Served(plug[s].list)
    BY DEF IInv, Fits, PlugType, PlugOk
  <2>2. plug[s].list \in BanLists
    BY <2>1, Contained
  <2>3. QED
    BY <2>1, <2>2 DEF Served
<1>2. QED
  BY <1>1, Invariance, PTL

\* No step takes a whole list from the disk that stores one.
LEMMA DiskKeeps ==
  ASSUME IInv, [Next]_vars, NEW s \in Servers, Whole(Stored(disk[s]))
  PROVE  Whole(Stored(disk'[s]))
<1>1. /\ disk \in [Servers -> DiskType]
      /\ \A q \in Servers : disk[q] \in DiskType /\ DiskOk(disk[q])
  BY DEF IInv, PlugTyped, Fits
<1>2. Stored(disk[s]) \in BanLists
  BY <1>1, Contained DEF DiskType, Stored
<1>3. ASSUME NEW q \in Servers, NEW left, disk' = [disk EXCEPT ![q] = left],
             Stored(disk[q]) \in BanLists => Stored(left) \in BanLists
      PROVE  Whole(Stored(disk'[s]))
  BY <1>1, <1>2, <1>3, Contained
<1>4. ASSUME NEW q \in Servers, TakeLastPage(q) PROVE Whole(Stored(disk'[s]))
  <2>1. PICK left \in Replaced(disk[q], Walked(q)) : disk' = [disk EXCEPT ![q] = left]
    BY <1>4 DEF TakeLastPage
  <2>2. Walked(q) \in BanLists /\ Served(Walked(q))
    BY <1>4, WholeWalk DEF TakeLastPage
  <2>3. QED
    BY <1>1, <1>3, <2>1, <2>2, ReplacedDisks
<1>5. ASSUME NEW q \in Servers, LoseLastPage(q) PROVE Whole(Stored(disk'[s]))
  <2>1. PICK left \in NotReplaced(disk[q], Walked(q)) : disk' = [disk EXCEPT ![q] = left]
    BY <1>5 DEF LoseLastPage
  <2>2. Walked(q) \in BanLists /\ Served(Walked(q))
    BY <1>5, WholeWalk DEF LoseLastPage
  <2>3. QED
    BY <1>1, <1>3, <2>1, <2>2, OtherDisks
<1>6. ASSUME NEW q \in Servers, Crash(q) PROVE Whole(Stored(disk'[s]))
  <2>1. CASE disk' = [disk EXCEPT ![q] = disk[q]]
    BY <1>3, <2>1
  <2>2. CASE page[q].stage = "reading" /\ ~More(q)
             /\ \E left \in Crashed(disk[q], Walked(q)) : disk' = [disk EXCEPT ![q] = left]
    <3>1. Walked(q) \in BanLists /\ Served(Walked(q))
      BY <2>2, WholeWalk
    <3>2. QED
      BY <1>1, <1>3, <2>2, <3>1, OtherDisks
  <2>3. QED
    BY <1>6, <2>1, <2>2 DEF Crash, Die
<1>7. ASSUME NEW q \in Servers, Boot(q) \/ BootUnread(q) PROVE Whole(Stored(disk'[s]))
  <2>1. PICK outcome \in Reads(disk[q]) \cup Misreads(disk[q]) :
          disk' = [disk EXCEPT ![q] = outcome.left]
    BY <1>7 DEF Boot, BootUnread, Load
  <2>2. QED
    BY <1>1, <1>3, <2>1, ReadOutcomes
<1>8. \/ disk' = disk
      \/ \E q \in Servers : TakeLastPage(q) \/ LoseLastPage(q) \/ Crash(q) \/ Boot(q) \/ BootUnread(q)
  BY DEF Next, vars, Tick, ListStep, CreateBan, LiftBan, SweepExpiredBans, Begin, CommitChange,
         LinkStep, StartSession, TakeSession, PublishManifest, SendNotices, TakeNotice, AckNotice,
         WalkStep, RequestPage, TakePage, TakeInvalid, TakeConflict,
         FaultStep, LoseSession, EndSession, LosePage, Restore
<1>9. QED
  BY <1>4, <1>5, <1>6, <1>7, <1>8

\* A list once kept stays (VyshkaFiles' replace and recovery, Load): after any
\* crash, full disk or failed delete the disk stores a whole list, also when a
\* copy cannot be opened for a time, and only a boot that meets such a copy can
\* come without the list that was in force.
THEOREM BansStay == Spec => OutageKeepsBans
<1> DEFINE Stays(s) == plug[s].list.rev # None => plug'[s].list.rev # None \/ BootUnread(s)
<1>1. IInv /\ [Next]_vars => [\A s \in Servers : Stays(s)]_vars
  <2> SUFFICES ASSUME IInv, Next, NEW s \in Servers, plug[s].list.rev # None, ~BootUnread(s)
               PROVE  plug'[s].list.rev # None
    OBVIOUS
  <2>0. plug \in [Servers -> PlugType]
    BY DEF IInv, PlugTyped
  <2>1. CASE plug'[s] = plug[s]
    BY <2>1
  <2>2. ASSUME NEW q \in Servers, TakeLastPage(q) PROVE plug'[s].list.rev # None
    <3>1. Walked(q) \in BanLists
      BY <2>2, WholeWalk DEF TakeLastPage
    <3>2. Finished(q).list = Walked(q)
      BY <2>0 DEF Finished, PlugType
    <3>3. plug' = [plug EXCEPT ![q] = Finished(q)]
      BY <2>2 DEF TakeLastPage
    <3>4. QED
      BY <2>0, <3>1, <3>2, <3>3, Contained
  <2>3. ASSUME NEW q \in Servers, Boot(q) PROVE plug'[s].list.rev # None
    <3>1. DiskOk(disk[q]) /\ disk[q] \in DiskType /\ KeptOk(plug[q], disk[q])
      BY DEF IInv, Fits
    <3>2. PICK outcome \in Reads(disk[q]) :
            plug' = [plug EXCEPT ![q] = Booted(InForce(outcome.read))]
      BY <2>3 DEF Boot, Load
    <3>3. plug[q].list # NoList => InForce(outcome.read) \in BanLists
      <4>1. outcome.read = Stored(disk[q]) /\ outcome.read \in Contents /\ Served(outcome.read)
        BY <3>1, ReadOutcomes
      <4>2. QED
        BY <3>1, <4>1, BootList DEF KeptOk
    <3>4. Booted(InForce(outcome.read)).list = InForce(outcome.read)
      BY DEF Booted
    <3>5. QED
      BY <2>0, <3>2, <3>3, <3>4, Contained
  <2>4. ASSUME NEW q \in Servers, NEW p, plug' = [plug EXCEPT ![q] = p], p.list = plug[q].list
        PROVE  plug'[s].list.rev # None
    BY <2>0, <2>4
  <2>5. ASSUME NEW q \in Servers, TakeSession(q) \/ TakeNotice(q) PROVE plug'[s].list.rev # None
    <3>1. \A rev : Heard(q, rev).list = plug[q].list
      BY <2>0 DEF Heard, PlugType
    <3>2. \A rev, token : [Heard(q, rev) EXCEPT !.token = token].list = plug[q].list
      BY <2>0 DEF Heard, PlugType
    <3>3. CASE TakeSession(q)
      <4> DEFINE p == [Heard(q, answer[q].rev) EXCEPT !.token = answer[q].sess]
      <4>1. plug' = [plug EXCEPT ![q] = p]
        BY <3>3 DEF TakeSession
      <4>2. p.list = plug[q].list
        BY <3>2
      <4> HIDE DEF p
      <4>3. QED
        BY <2>4, <4>1, <4>2
    <3>4. CASE TakeNotice(q)
      <4>1. PICK i : plug' = [plug EXCEPT ![q] = Heard(q, notices[q][i].rev)]
        BY <3>4 DEF TakeNotice
      <4>2. QED
        BY <2>4, <3>1, <4>1
    <3>5. QED
      BY <2>5, <3>3, <3>4
  <2>6. ASSUME NEW q \in Servers,
               \/ RequestPage(q) \/ TakePage(q) \/ LoseLastPage(q) \/ TakeInvalid(q) \/ TakeConflict(q)
               \/ LosePage(q)
        PROVE  plug'[s].list.rev # None
    <3>1. Begun(plug[q]).list = plug[q].list /\ Failed(plug[q]).list = plug[q].list
      BY <2>0 DEF Begun, Failed, PlugType
    <3>2. \A a, b, c : [plug[q] EXCEPT !.rev = a, !.walked = b, !.after = c].list = plug[q].list
      BY <2>0 DEF PlugType
    <3>3. \A a : [plug[q] EXCEPT !.refused = a].list = plug[q].list
      BY <2>0 DEF PlugType
    <3>4. CASE RequestPage(q)
      BY <2>4, <3>1, <3>4 DEF RequestPage
    <3>5. CASE TakePage(q)
      <4> DEFINE p == [plug[q] EXCEPT !.rev = Pinned(q), !.walked = Gathered(q),
                                      !.after = LastOf({e.who : e \in PageEntries(q)})]
      <4>1. plug' = [plug EXCEPT ![q] = p]
        BY <3>5 DEF TakePage
      <4>2. p.list = plug[q].list
        BY <3>2
      <4> HIDE DEF p
      <4>3. QED
        BY <2>4, <4>1, <4>2
    <3>6. CASE TakeInvalid(q)
      BY <2>0, <2>4, <3>3, <3>6 DEF TakeInvalid
    <3>7. CASE LoseLastPage(q) \/ TakeConflict(q) \/ LosePage(q)
      BY <2>4, <3>1, <3>7 DEF LoseLastPage, TakeConflict, LosePage
    <3>8. QED
      BY <2>6, <3>4, <3>5, <3>6, <3>7
  <2>7. ASSUME NEW q \in Servers, Crash(q) PROVE plug'[s].list.rev # None
    <3>1. plug' = [plug EXCEPT ![q] = [Down EXCEPT !.list = plug[q].list]]
      BY <2>7 DEF Crash, Die
    <3>2. [Down EXCEPT !.list = plug[q].list].list = plug[q].list
      BY DEF Down, Booted
    <3>3. QED
      BY <2>4, <3>1, <3>2
  <2>8. \/ plug' = plug
        \/ \E q \in Servers : q # s /\ BootUnread(q)
        \/ \E q \in Servers : WalkStep(q) \/ LosePage(q) \/ LoseLastPage(q) \/ Crash(q) \/ Boot(q)
                              \/ TakeSession(q) \/ TakeNotice(q)
    BY DEF Next, Tick, ListStep, CreateBan, LiftBan, SweepExpiredBans, Begin, CommitChange, LinkStep,
           StartSession, PublishManifest, SendNotices, AckNotice, FaultStep, LoseSession, EndSession, Restore
  <2>9. ASSUME NEW q \in Servers, q # s, BootUnread(q) PROVE plug'[s].list.rev # None
    BY <2>1, <2>9, <2>0 DEF BootUnread, Load
  <2>10. QED
    BY <2>1, <2>2, <2>3, <2>5, <2>6, <2>7, <2>8, <2>9 DEF WalkStep
<1>2. IInv /\ [Next]_vars => [\A s \in Servers : KeepsBans(s)]_vars
  <2> SUFFICES ASSUME IInv, Next, ~UNCHANGED vars, NEW s \in Servers
               PROVE  KeepsBans(s)
    OBVIOUS
  <2>1. Stays(s)
    BY <1>1
  <2>2. Whole(Stored(disk[s])) => Whole(Stored(disk'[s]))
    BY DiskKeeps
  <2>3. QED
    BY <2>1, <2>2 DEF KeepsBans
<1>3. QED
  BY <1>2, Invariance, PTL DEF Spec, OutageKeepsBans

-------------------------------------------------------------------------------
(* The news of a change *)

\* The queue of a server: a notice not sent is the last, the ones taken come
\* first, and for a server that counts the last one says what stands.
Ordered(q) ==
  \A i \in 1..Len(q) : /\ q[i].state = "unsent" => i = Len(q)
                       /\ q[i].state = "taken" => \A j \in 1..(i - 1) : q[j].state = "taken"
Current(q, r) == q # <<>> => q[Len(q)].rev = r
NoneTaken(q) == \A i \in 1..Len(q) : q[i].state # "taken"
AllTaken(q) == q # <<>> => q[Len(q)].state = "taken"

\* A plugin that heard the revision r: it enforces it or owes a walk it can
\* go on with, and a walk that no report overtook reads r.
Owes(p, g, r) ==
  /\ p.known = r
  /\ p.due \/ p.list.rev = r
  /\ p.walking /\ ~p.told => /\ p.rev \in {None, r}
                             /\ g.stage = "reading" /\ p.rev = None => g.rev = r

\* A call refused as of no session was of an older session than the live one.
Session(p, g, l) ==
  /\ p.refused <= p.token /\ g.sess <= p.token
  /\ p.up /\ l # 0 /\ p.token = l => p.refused # l /\ (g.stage = "invalid" => g.sess # l)

Response(q, a, l, p, r, counts) ==
  a # NoAnswer => /\ a.sess = l /\ p.token < l /\ p.up
                  /\ NoneTaken(q)
                  /\ counts /\ q = <<>> => a.rev = r

NewsFit(q, a, l, p, g, r, counts) ==
  /\ Ordered(q) /\ (counts => Current(q, r))
  /\ Session(p, g, l) /\ Response(q, a, l, p, r, counts)
  /\ counts /\ p.up /\ l # 0 /\ p.token = l /\ AllTaken(q) => Owes(p, g, r)

Counts(s) == dropped[s] = "never" /\ s \in hub.declared
NewsOf(s) == NewsFit(notices[s], answer[s], live[s], plug[s], page[s], hub.revision, Counts(s))

TInv ==
  /\ IInv
  /\ dropped \in [Servers -> {"never", "missed", "told"}]
  /\ change # NoChange => change.targets = hub.declared
  /\ \A s \in Servers : NewsOf(s)

\* Whoever does not enforce the list that stands is going to: its server is
\* down or has no session, and the one being answered is the live one; or its
\* manifest, or a notice of what stands, is still to come; or it owes a walk
\* that will not end with an older list taken for the current.
ServerTold(s) ==
  dropped[s] = "never" /\ plug[s].list.rev # hub.revision =>
    \/ ~plug[s].up
    \/ ~Linked(s) /\ (answer[s] = NoAnswer \/ answer[s].sess = live[s])
    \/ s \notin hub.declared
    \/ \E i \in 1..Len(notices[s]) :
         notices[s][i].state # "taken" /\ notices[s][i].rev = hub.revision
    \/ plug[s].due /\ plug[s].refused # plug[s].token /\ Owes(plug[s], page[s], hub.revision)
NewsIsNotLost == \A s \in Servers : ServerTold(s)

LEMMA ToldInit == Init => TInv
<1> SUFFICES ASSUME Init PROVE TInv
  OBVIOUS
<1>0. /\ change = NoChange /\ notices = [s \in Servers |-> <<>>] /\ live = [s \in Servers |-> 0]
      /\ answer = [s \in Servers |-> NoAnswer] /\ plug = [s \in Servers |-> Booted(NoList)]
      /\ page = [s \in Servers |-> NoPage] /\ dropped = [s \in Servers |-> "never"]
  BY DEF Init
<1>1. IInv
  BY IInvInit
<1>2. ASSUME NEW s \in Servers PROVE NewsOf(s)
  <2>1. /\ notices[s] = <<>> /\ live[s] = 0 /\ answer[s] = NoAnswer /\ plug[s] = Booted(NoList)
        /\ page[s] = NoPage
    BY <1>0
  <2>2. Ordered(<<>>) /\ Current(<<>>, hub.revision)
    BY DEF Ordered, Current
  <2>3. Session(plug[s], page[s], live[s])
    BY <2>1 DEF Session, Booted, NoPage
  <2>4. QED
    BY <2>1, <2>2, <2>3 DEF NewsOf, NewsFit, Response
<1>3. QED
  BY <1>0, <1>1, <1>2 DEF TInv

\* Queues of notices: sent, or sent again.
LEMMA SentQueue ==
  ASSUME NEW q \in Seq(NoticeType), Ordered(q), NEW from \in {"unsent", "taken"},
         NEW f, f = [i \in 1..Len(q) |-> IF q[i].state = from THEN [q[i] EXCEPT !.state = "sent"] ELSE q[i]]
  PROVE  /\ f \in Seq(NoticeType) /\ Len(f) = Len(q) /\ (f = <<>> <=> q = <<>>)
         /\ Ordered(f)
         /\ \A r : Current(q, r) => Current(f, r)
         /\ from = "taken" => NoneTaken(f)
         /\ from = "unsent" /\ AllTaken(f) => AllTaken(q)
         /\ from = "unsent" /\ NoneTaken(q) => NoneTaken(f)
<1>0. Len(q) \in Nat
  OBVIOUS
<1>1. \A i \in 1..Len(q) :
        /\ q[i] \in NoticeType /\ f[i] \in NoticeType /\ f[i].rev = q[i].rev
        /\ f[i].state = IF q[i].state = from THEN "sent" ELSE q[i].state
  <2>1. \A i \in 1..Len(q) : q[i] \in NoticeType
    OBVIOUS
  <2>2. \A n \in NoticeType : /\ [n EXCEPT !.state = "sent"] \in NoticeType
                              /\ [n EXCEPT !.state = "sent"].rev = n.rev
                              /\ [n EXCEPT !.state = "sent"].state = "sent"
    BY DEF NoticeType
  <2>3. QED
    BY <2>1, <2>2
<1>2. f \in [1..Len(q) -> NoticeType]
  BY <1>1
<1>3. f \in Seq(NoticeType) /\ Len(f) = Len(q)
  BY <1>0, <1>2, MapNotices
<1>4. q # <<>> => Len(q) \in 1..Len(q)
  BY <1>0
<1>5. f = <<>> <=> q = <<>>
  BY <1>3
<1>6. Ordered(f)
  BY <1>1, <1>3 DEF Ordered
<1>7. \A r : Current(q, r) => Current(f, r)
  BY <1>1, <1>3, <1>4, <1>5 DEF Current
<1>8. /\ from = "taken" => NoneTaken(f)
      /\ from = "unsent" /\ NoneTaken(q) => NoneTaken(f)
  BY <1>1, <1>3 DEF NoneTaken
<1>9. from = "unsent" /\ AllTaken(f) => AllTaken(q)
  BY <1>1, <1>3, <1>4, <1>5 DEF AllTaken
<1>10. QED
  BY <1>3, <1>5, <1>6, <1>7, <1>8, <1>9

\* A queue with a notice of the revision that stands, for a change or a manifest.
LEMMA NoticedQueue ==
  ASSUME LinkTyped, NEW s \in Servers, NEW rev \in Nat, Ordered(notices[s])
  PROVE  /\ Ordered(Noticed(s, rev)) /\ Current(Noticed(s, rev), rev)
         /\ Noticed(s, rev) # <<>> /\ ~AllTaken(Noticed(s, rev))
         /\ NoneTaken(notices[s]) => NoneTaken(Noticed(s, rev))
<1> DEFINE q == notices[s]
           f == [i \in 1..Len(q) |-> IF i \in Unsent(s) THEN [q[i] EXCEPT !.rev = rev] ELSE q[i]]
           n == [rev |-> rev, state |-> "unsent"]
<1>1. q \in Seq(NoticeType) /\ Len(q) \in Nat /\ n \in NoticeType
  BY DEF LinkTyped, NoticeType
<1>2. Unsent(s) = {i \in 1..Len(q) : q[i].state = "unsent"}
  BY DEF Unsent
<1>3. \A i \in 1..Len(q) : q[i] \in NoticeType
  <2> HIDE DEF q
  <2>1. QED
    BY <1>1
<1>4. CASE Unsent(s) # {}
  <2>1. Noticed(s, rev) = f
    BY <1>4 DEF Noticed
  <2>2. \A i \in 1..Len(q) : /\ f[i] \in NoticeType /\ f[i].state = q[i].state
                             /\ i \in Unsent(s) => f[i].rev = rev
    <3>1. \A m \in NoticeType : /\ [m EXCEPT !.rev = rev] \in NoticeType
                                /\ [m EXCEPT !.rev = rev].rev = rev
                                /\ [m EXCEPT !.rev = rev].state = m.state
      BY DEF NoticeType
    <3> HIDE DEF q
    <3>2. QED
      BY <1>3, <3>1
  <2>3. f \in [1..Len(q) -> NoticeType]
    BY <2>2
  <2> HIDE DEF f, q
  <2>4. f \in Seq(NoticeType) /\ Len(f) = Len(q)
    BY <1>1, <2>3, MapNotices
  <2>5. Len(q) \in Unsent(s) /\ Len(q) \in 1..Len(q) /\ q[Len(q)].state = "unsent"
    <3>1. PICK i \in 1..Len(q) : q[i].state = "unsent"
      BY <1>2, <1>4
    <3>2. i = Len(q)
      BY <3>1 DEF Ordered, q
    <3>3. QED
      BY <1>2, <3>1, <3>2
  <2>6. Ordered(f)
    BY <2>2, <2>4 DEF Ordered, q
  <2>7. Current(f, rev) /\ f # <<>> /\ ~AllTaken(f)
    BY <2>2, <2>4, <2>5 DEF Current, AllTaken
  <2>8. NoneTaken(q) => NoneTaken(f)
    BY <2>2, <2>4 DEF NoneTaken
  <2>9. QED
    BY <2>1, <2>6, <2>7, <2>8 DEF q
<1>5. CASE Unsent(s) = {}
  <2> DEFINE h == Append(q, n)
  <2>1. Noticed(s, rev) = h
    BY <1>5 DEF Noticed
  <2>2. \A i \in 1..Len(q) : q[i].state # "unsent"
    BY <1>2, <1>5
  <2> HIDE DEF q
  <2>3. /\ h \in Seq(NoticeType) /\ Len(h) = Len(q) + 1 /\ h[Len(q) + 1] = n
        /\ \A i \in 1..Len(q) : h[i] = q[i]
    BY <1>1
  <2>4. n.rev = rev /\ n.state = "unsent"
    OBVIOUS
  <2> HIDE DEF h, n
  <2>5. Ordered(h)
    <3> SUFFICES ASSUME NEW i \in 1..Len(h)
                 PROVE  /\ h[i].state = "unsent" => i = Len(h)
                        /\ h[i].state = "taken" => \A j \in 1..(i - 1) : h[j].state = "taken"
      BY DEF Ordered
    <3>1. CASE i = Len(q) + 1
      BY <2>3, <2>4, <3>1
    <3>2. CASE i \in 1..Len(q)
      <4>1. h[i] = q[i] /\ \A j \in 1..(i - 1) : j \in 1..Len(q) /\ h[j] = q[j]
        BY <1>1, <2>3, <3>2
      <4>2. h[i].state # "unsent"
        BY <2>2, <3>2, <4>1
      <4>3. q[i].state = "taken" => \A j \in 1..(i - 1) : q[j].state = "taken"
        BY <3>2 DEF Ordered, q
      <4>4. QED
        BY <4>1, <4>2, <4>3
    <3>3. QED
      BY <1>1, <2>3, <3>1, <3>2
  <2>6. Current(h, rev) /\ h # <<>> /\ ~AllTaken(h)
    BY <1>1, <2>3, <2>4 DEF Current, AllTaken
  <2>7. NoneTaken(q) => NoneTaken(h)
    BY <1>1, <2>3, <2>4 DEF NoneTaken
  <2>8. QED
    BY <2>1, <2>5, <2>6, <2>7 DEF q
<1>6. QED
  BY <1>4, <1>5

Marked(q, i) == [q EXCEPT ![i] = [rev |-> q[i].rev, state |-> "taken"]]

LEMMA TakenQueue ==
  ASSUME NEW q \in Seq(NoticeType), Ordered(q), NEW i \in 1..Len(q), q[i].state = "sent",
         \A j \in 1..(i - 1) : q[j].state = "taken"
  PROVE  /\ Ordered(Marked(q, i))
         /\ \A r : Current(q, r) => Current(Marked(q, i), r)
         /\ \A r : AllTaken(Marked(q, i)) /\ Current(q, r) => q[i].rev = r
<1> DEFINE f == Marked(q, i)
<1> USE DEF Marked
<1>0. Len(q) \in Nat /\ q # <<>> /\ Len(q) \in 1..Len(q)
  OBVIOUS
<1>1. f \in Seq(NoticeType) /\ Len(f) = Len(q) /\ f # <<>>
  <2>1. [rev |-> q[i].rev, state |-> "taken"] \in NoticeType
    <3>1. q[i] \in NoticeType
      OBVIOUS
    <3>2. QED
      BY <3>1 DEF NoticeType
  <2>2. QED
    BY <1>0, <2>1
<1>2. \A k \in 1..Len(q) : k # i => f[k] = q[k]
  OBVIOUS
<1>3. f[i].rev = q[i].rev /\ f[i].state = "taken"
  BY <1>0
<1>4. ASSUME NEW k \in 1..Len(q)
      PROVE  /\ f[k].state = "unsent" => k = Len(q)
             /\ f[k].state = "taken" => \A j \in 1..(k - 1) : f[j].state = "taken"
  <2>1. CASE k = i
    <3>1. \A j \in 1..(k - 1) : j # i /\ j \in 1..Len(q)
      BY <1>0, <2>1
    <3>2. QED
      BY <1>2, <1>3, <2>1, <3>1
  <2>2. CASE k # i
    <3>1. f[k] = q[k]
      BY <1>2, <2>2
    <3>2. q[k].state = "taken" => \A j \in 1..(k - 1) : q[j].state = "taken" /\ j # i /\ j \in 1..Len(q)
      BY <1>0 DEF Ordered
    <3>3. QED
      BY <1>2, <3>1, <3>2 DEF Ordered
  <2>3. QED
    BY <2>1, <2>2
<1>5. Ordered(f)
  BY <1>1, <1>4 DEF Ordered
<1>6. \A r : Current(q, r) => Current(f, r)
  <2>1. f[Len(q)].rev = q[Len(q)].rev
    BY <1>0, <1>2, <1>3
  <2>2. QED
    BY <1>0, <1>1, <2>1 DEF Current
<1>7. AllTaken(f) => i = Len(q)
  <2>1. ASSUME AllTaken(f), i # Len(q) PROVE FALSE
    <3>1. q[Len(q)].state = "taken" /\ i \in 1..(Len(q) - 1)
      BY <1>0, <1>1, <1>2, <2>1 DEF AllTaken
    <3>2. q[i].state = "taken"
      BY <1>0, <3>1 DEF Ordered
    <3>3. QED
      BY <3>2
  <2>2. QED
    BY <2>1
<1>8. QED
  BY <1>0, <1>5, <1>6, <1>7 DEF Current

LEMMA AckedQueue ==
  ASSUME NEW q \in Seq(NoticeType), Ordered(q), q # <<>>, Head(q).state = "taken"
  PROVE  /\ Ordered(Tail(q)) /\ (AllTaken(Tail(q)) => AllTaken(q))
         /\ \A r : Current(q, r) => Current(Tail(q), r)
<1> DEFINE f == Tail(q)
<1>1. /\ Len(q) \in Nat /\ Len(q) >= 1 /\ f \in Seq(NoticeType) /\ Len(f) = Len(q) - 1
      /\ \A i \in 1..Len(f) : f[i] = q[i + 1] /\ i + 1 \in 1..Len(q)
      /\ Head(q) = q[1]
  OBVIOUS
<1> HIDE DEF f
<1>2. ASSUME NEW i \in 1..Len(f)
      PROVE  /\ f[i].state = "unsent" => i = Len(f)
             /\ f[i].state = "taken" => \A j \in 1..(i - 1) : f[j].state = "taken"
  <2>1. f[i] = q[i + 1] /\ i + 1 \in 1..Len(q)
    BY <1>1
  <2>2. \A j \in 1..(i - 1) : f[j] = q[j + 1] /\ j + 1 \in 1..((i + 1) - 1)
    BY <1>1
  <2>3. /\ q[i + 1].state = "unsent" => i + 1 = Len(q)
        /\ q[i + 1].state = "taken" => \A j \in 1..((i + 1) - 1) : q[j].state = "taken"
    BY <2>1 DEF Ordered
  <2>4. QED
    BY <1>1, <2>1, <2>2, <2>3
<1>3. Ordered(f)
  BY <1>2 DEF Ordered
<1>4. f # <<>> => Len(f) \in 1..Len(f) /\ f[Len(f)] = q[Len(q)]
  BY <1>1
<1>5. f = <<>> => q[Len(q)].state = "taken"
  <2>1. f = <<>> => Len(q) = 1
    BY <1>1
  <2>2. QED
    BY <1>1, <2>1
<1>6. QED
  BY <1>3, <1>4, <1>5 DEF f, AllTaken, Current

\* A step of one server leaves the others as they are.
LEMMA OneServersNews ==
  ASSUME TInv, IInv', NEW s \in Servers, hub'.revision = hub.revision,
         hub'.declared \in {hub.declared, hub.declared \cup {s}},
         change' = change, change = NoChange \/ hub'.declared = hub.declared,
         dropped' \in [Servers -> {"never", "missed", "told"}],
         \A x \in Servers \ {s} :
           /\ notices'[x] = notices[x] /\ answer'[x] = answer[x] /\ live'[x] = live[x]
           /\ plug'[x] = plug[x] /\ page'[x] = page[x] /\ dropped'[x] = dropped[x],
         NewsOf(s)'
  PROVE  TInv'
<1>1. \A x \in Servers \ {s} : Counts(x)' <=> Counts(x)
  BY DEF Counts
<1>2. ASSUME NEW x \in Servers \ {s} PROVE NewsOf(x)'
  <2>1. NewsOf(x)
    BY DEF TInv
  <2>2. Counts(x)' = Counts(x)
    BY <1>1 DEF Counts
  <2>3. QED
    BY <2>1, <2>2 DEF NewsOf
<1>3. change' # NoChange => change'.targets = hub'.declared
  BY DEF TInv
<1>4. QED
  BY <1>2, <1>3 DEF TInv

\* A change and its notices are one transaction.
LEMMA CommitNews ==
  ASSUME TInv, IInv', CommitChange
  PROVE  TInv'
<1> DEFINE next == change.next
           r == hub.revision
<1>0. /\ change # NoChange /\ change' = NoChange /\ change.targets = hub.declared
      /\ hub' = [hub EXCEPT !.bans = change.bans, !.revision = next, !.minted = hub.minted \cup {next}]
      /\ UNCHANGED <<live, answer, plug, page>> /\ next \in Nat
  BY DEF CommitChange, Unlocked, linkVars, TInv, IInv, ListTyped
<1>1. hub'.revision = next /\ hub'.declared = hub.declared
  BY <1>0 DEF TInv, IInv, ListTyped
<1>2. PICK full \in SUBSET {s \in change.targets : Unsent(s) = {}} :
        /\ notices' = [s \in Servers |-> IF s \in change.targets \ full
                                         THEN Noticed(s, change.next) ELSE notices[s]]
        /\ dropped' = [s \in Servers |-> IF s \in full THEN "missed" ELSE dropped[s]]
  BY DEF CommitChange
<1>3. dropped' \in [Servers -> {"never", "missed", "told"}]
  BY <1>2 DEF TInv
<1>4. ASSUME NEW s \in Servers PROVE NewsOf(s)'
  <2>1. NewsOf(s) /\ Ordered(notices[s])
    BY DEF TInv, NewsOf, NewsFit
  <2>2. /\ Ordered(Noticed(s, next)) /\ Current(Noticed(s, next), next)
        /\ Noticed(s, next) # <<>> /\ ~AllTaken(Noticed(s, next))
        /\ NoneTaken(notices[s]) => NoneTaken(Noticed(s, next))
    BY <1>0, <2>1, NoticedQueue DEF TInv, IInv
  <2>3. \/ notices'[s] = Noticed(s, next)
        \/ notices'[s] = notices[s] /\ ~Counts(s)'
    BY <1>0, <1>1, <1>2 DEF Counts
  <2>4. Ordered(notices'[s]) /\ (Counts(s)' => Current(notices'[s], next) /\ ~AllTaken(notices'[s]) /\ notices'[s] # <<>>)
    BY <2>1, <2>2, <2>3
  <2>5. NoneTaken(notices[s]) => NoneTaken(notices'[s])
    BY <2>2, <2>3
  <2> HIDE DEF next
  <2>6. Session(plug[s], page[s], live[s]) /\ Response(notices[s], answer[s], live[s], plug[s], r, Counts(s))
    BY <2>1 DEF NewsOf, NewsFit
  <2>7. Response(notices'[s], answer[s], live[s], plug[s], next, Counts(s)')
    BY <2>4, <2>5, <2>6 DEF Response
  <2>8. NewsFit(notices'[s], answer[s], live[s], plug[s], page[s], next, Counts(s)')
    BY <2>4, <2>6, <2>7 DEF NewsFit
  <2>9. QED
    BY <1>0, <1>1, <2>8 DEF NewsOf
<1>5. QED
  BY <1>0, <1>3, <1>4 DEF TInv

\* After a restore nobody counts until its manifest has come again.
LEMMA RestoreNews ==
  ASSUME TInv, IInv', Restore
  PROVE  TInv'
<1>1. /\ hub'.declared = {} /\ change' = NoChange /\ UNCHANGED <<plug, dropped>>
      /\ notices' = [s \in Servers |-> <<>>] /\ live' = [s \in Servers |-> 0]
      /\ answer' = [s \in Servers |-> NoAnswer]
      /\ page' = [s \in Servers |-> IF page[s] = NoPage THEN NoPage ELSE Page("invalid", 0, page[s].sess)]
  BY DEF Restore, Backup
<1>2. ASSUME NEW s \in Servers PROVE NewsOf(s)'
  <2>1. notices'[s] = <<>> /\ live'[s] = 0 /\ answer'[s] = NoAnswer /\ ~Counts(s)' /\ plug'[s] = plug[s]
    BY <1>1 DEF Counts
  <2>2. Ordered(<<>>)
    BY DEF Ordered
  <2>3. page'[s].sess = page[s].sess
    BY <1>1 DEF NoPage, Page
  <2>4. Session(plug[s], page'[s], 0)
    BY <2>3 DEF TInv, NewsOf, NewsFit, Session
  <2>5. QED
    BY <2>1, <2>2, <2>4 DEF NewsOf, NewsFit, Response
<1>3. QED
  BY <1>1, <1>2 DEF TInv

\* What neither hub nor server hears of.
LEMMA QuietNews ==
  ASSUME TInv, IInv', UNCHANGED <<hub, notices, answer, live, plug, page, dropped>>,
         change' = change \/ change'.targets = hub.declared
  PROVE  TInv'
<1>1. \A s \in Servers : NewsOf(s)'
  BY DEF TInv, NewsOf, Counts
<1>2. QED
  BY <1>1 DEF TInv

\* What is known of the server that takes a step.
LEMMA ServerNews ==
  ASSUME TInv, NEW s \in Servers
  PROVE  /\ notices \in [Servers -> Seq(NoticeType)] /\ live \in [Servers -> Nat]
         /\ answer \in [Servers -> [sess : Nat, rev : Nat]]
         /\ plug \in [Servers -> PlugType] /\ page \in [Servers -> PageType]
         /\ dropped \in [Servers -> {"never", "missed", "told"}]
         /\ hub.revision \in Nat
         /\ Ordered(notices[s]) /\ (Counts(s) => Current(notices[s], hub.revision))
         /\ Session(plug[s], page[s], live[s])
         /\ Response(notices[s], answer[s], live[s], plug[s], hub.revision, Counts(s))
         /\ Counts(s) /\ Linked(s) /\ AllTaken(notices[s]) => Owes(plug[s], page[s], hub.revision)
         /\ Linked(s) => answer[s] = NoAnswer
<1>1. /\ notices \in [Servers -> Seq(NoticeType)] /\ live \in [Servers -> Nat]
      /\ answer \in [Servers -> [sess : Nat, rev : Nat]]
      /\ plug \in [Servers -> PlugType] /\ page \in [Servers -> PageType]
      /\ dropped \in [Servers -> {"never", "missed", "told"}] /\ hub.revision \in Nat
  BY DEF TInv, IInv, LinkTyped, PlugTyped, ListTyped
<1>2. NewsOf(s)
  BY DEF TInv
<1>3. Response(notices[s], answer[s], live[s], plug[s], hub.revision, Counts(s))
  BY <1>2 DEF NewsOf, NewsFit
<1>4. Linked(s) => answer[s] = NoAnswer
  <2>1. live[s] \in Nat /\ plug[s].token \in Nat
    BY <1>1 DEF PlugType
  <2>2. ASSUME Linked(s), answer[s] # NoAnswer PROVE FALSE
    BY <1>3, <2>1, <2>2 DEF Linked, Response
  <2>3. QED
    BY <2>2
<1>5. QED
  BY <1>1, <1>2, <1>3, <1>4 DEF NewsOf, NewsFit, Linked

\* What a plugin hears of the revision that stands.
LEMMA HeardNews ==
  ASSUME TInv, NEW s \in Servers, NEW rev \in Nat, NEW token \in Nat
  PROVE  LET h == Heard(s, rev)
             t == [h EXCEPT !.token = token]
         IN  /\ \A g : Owes(h, g, rev) /\ Owes(t, g, rev)
             /\ h.up = plug[s].up /\ h.token = plug[s].token /\ h.refused = plug[s].refused
             /\ t.up = plug[s].up /\ t.token = token /\ t.refused = plug[s].refused
<1> DEFINE p == plug[s]
           h == Heard(s, rev)
           t == [h EXCEPT !.token = token]
<1>1. p \in PlugType
  BY ServerNews
<1>2. /\ h \in PlugType /\ h.known = rev /\ h.list = p.list /\ h.walking = p.walking /\ h.rev = p.rev
      /\ h.told = (p.told \/ p.walking) /\ h.due = (p.due \/ rev # p.list.rev)
      /\ h.up = p.up /\ h.token = p.token /\ h.refused = p.refused
  BY <1>1 DEF Heard, PlugType
<1> HIDE DEF h
<1>3. /\ t.known = h.known /\ t.list = h.list /\ t.walking = h.walking /\ t.rev = h.rev
      /\ t.told = h.told /\ t.due = h.due /\ t.up = h.up /\ t.token = token /\ t.refused = h.refused
  BY <1>2 DEF PlugType
<1> HIDE DEF t
<1>4. \A g : Owes(h, g, rev)
  BY <1>2 DEF Owes
<1>5. \A g : Owes(t, g, rev)
  BY <1>2, <1>3 DEF Owes
<1>6. QED
  BY <1>2, <1>3, <1>4, <1>5 DEF h, t

LEMMA LinkNews ==
  ASSUME TInv, IInv', NEW s \in Servers,
         \/ StartSession(s) \/ TakeSession(s) \/ PublishManifest(s) \/ SendNotices(s) \/ TakeNotice(s)
         \/ AckNotice(s) \/ LoseSession(s) \/ EndSession(s)
  PROVE  TInv'
<1> DEFINE p == plug[s]
           q == notices[s]
           r == hub.revision
<1>0. /\ notices \in [Servers -> Seq(NoticeType)] /\ live \in [Servers -> Nat]
      /\ answer \in [Servers -> [sess : Nat, rev : Nat]]
      /\ plug \in [Servers -> PlugType] /\ page \in [Servers -> PageType]
      /\ dropped \in [Servers -> {"never", "missed", "told"}] /\ r \in Nat
  BY ServerNews
<1>1. /\ Ordered(q) /\ (Counts(s) => Current(q, r)) /\ Session(p, page[s], live[s])
      /\ Response(q, answer[s], live[s], p, r, Counts(s))
      /\ Counts(s) /\ Linked(s) /\ AllTaken(q) => Owes(p, page[s], r)
      /\ Linked(s) => answer[s] = NoAnswer
  BY ServerNews
<1>2. /\ p \in PlugType /\ q \in Seq(NoticeType) /\ live[s] \in Nat /\ p.token \in Nat
      /\ p.refused \in Nat /\ page[s].sess \in Nat
  BY <1>0 DEF PlugType, PageType
<1>3. CASE StartSession(s)
  <2> DEFINE new == 1 + (IF live[s] > p.token THEN live[s] ELSE p.token)
             f == [i \in 1..Len(q) |-> IF q[i].state = "taken" THEN [q[i] EXCEPT !.state = "sent"] ELSE q[i]]
             a == [sess |-> new, rev |-> r]
  <2>1. /\ live' = [live EXCEPT ![s] = new] /\ answer' = [answer EXCEPT ![s] = a]
        /\ notices' = [notices EXCEPT ![s] = f] /\ p.up
        /\ dropped' = [dropped EXCEPT ![s] = IF dropped[s] = "missed" THEN "told" ELSE dropped[s]]
        /\ UNCHANGED <<hub, change, plug, page>>
    BY <1>3 DEF StartSession
  <2>2. new \in Nat /\ p.token < new /\ new # 0
    BY <1>2
  <2>3. /\ Ordered(f) /\ (Current(q, r) => Current(f, r)) /\ NoneTaken(f)
    BY <1>1, <1>2, SentQueue
  <2>4. dropped' \in [Servers -> {"never", "missed", "told"}] /\ (Counts(s)' <=> Counts(s))
    BY <1>0, <2>1 DEF Counts
  <2>5. /\ notices'[s] = f /\ answer'[s] = a /\ live'[s] = new /\ a.sess = new /\ a.rev = r
    BY <1>0, <2>1
  <2> HIDE DEF f, new, a
  <2>6. Session(p, page[s], new)
    BY <1>1, <2>2 DEF Session
  <2>7. NewsOf(s)'
    BY <1>1, <1>2, <2>1, <2>2, <2>3, <2>4, <2>5, <2>6 DEF NewsOf, NewsFit, Response
  <2>8. QED
    BY <1>0, <2>1, <2>4, <2>7, OneServersNews
<1>4. CASE TakeSession(s)
  <2> DEFINE t == [Heard(s, answer[s].rev) EXCEPT !.token = answer[s].sess]
  <2>1. /\ plug' = [plug EXCEPT ![s] = t] /\ answer' = [answer EXCEPT ![s] = NoAnswer]
        /\ answer[s] # NoAnswer /\ UNCHANGED <<hub, notices, change, dropped, live, page>>
    BY <1>4 DEF TakeSession, hubVars
  <2>2. answer[s].rev \in Nat /\ answer[s].sess \in Nat
    BY <1>0
  <2>3. /\ t.up = p.up /\ t.token = answer[s].sess /\ t.refused = p.refused
        /\ Owes(t, page[s], answer[s].rev)
    BY <2>2, HeardNews
  <2>4. /\ plug'[s] = t /\ answer'[s] = NoAnswer
    BY <1>0, <2>1
  <2> HIDE DEF t
  <2>5. answer[s].sess = live[s] /\ p.token < live[s] /\ NoneTaken(q)
        /\ (Counts(s) /\ q = <<>> => answer[s].rev = r)
    BY <1>1, <2>1 DEF Response
  <2>6. Session(t, page[s], live[s])
    BY <1>1, <1>2, <2>3, <2>5 DEF Session
  <2>7. AllTaken(q) => q = <<>>
    <3>1. q # <<>> => Len(q) \in 1..Len(q)
      BY <1>2
    <3>2. QED
      BY <2>5, <3>1 DEF AllTaken, NoneTaken
  <2>8. Counts(s)' <=> Counts(s)
    BY <2>1 DEF Counts
  <2>9. NewsOf(s)'
    BY <1>1, <2>1, <2>3, <2>4, <2>5, <2>6, <2>7, <2>8 DEF NewsOf, NewsFit, Response
  <2>10. QED
    BY <1>0, <2>1, <2>9, OneServersNews
<1>5. CASE PublishManifest(s)
  <2>1. /\ hub' = [hub EXCEPT !.declared = hub.declared \cup {s}] /\ change = NoChange /\ Linked(s)
        /\ notices' = [notices EXCEPT ![s] = Noticed(s, r)]
        /\ UNCHANGED <<change, dropped, live, answer, plug, page>>
    BY <1>5 DEF PublishManifest, ListLock, Unlocked, linkVars
  <2>2. hub'.revision = r /\ hub'.declared = hub.declared \cup {s}
    BY <2>1 DEF TInv, IInv, ListTyped
  <2>3. /\ Ordered(Noticed(s, r)) /\ Current(Noticed(s, r), r) /\ ~AllTaken(Noticed(s, r))
    BY <1>0, <1>1, NoticedQueue DEF TInv, IInv
  <2>4. notices'[s] = Noticed(s, r)
    BY <1>0, <2>1
  <2>5. NewsOf(s)'
    BY <1>1, <2>1, <2>2, <2>3, <2>4 DEF NewsOf, NewsFit, Response
  <2>6. QED
    BY <1>0, <2>1, <2>2, <2>5, OneServersNews
<1>6. CASE SendNotices(s)
  <2> DEFINE f == [i \in 1..Len(q) |-> IF q[i].state = "unsent" THEN [q[i] EXCEPT !.state = "sent"] ELSE q[i]]
  <2>1. /\ notices' = [notices EXCEPT ![s] = f] /\ Linked(s)
        /\ UNCHANGED <<hub, change, dropped, live, answer, plug, page>>
    <3>1. f = [i \in 1..Len(q) |-> IF i \in Unsent(s) THEN [q[i] EXCEPT !.state = "sent"] ELSE q[i]]
      BY DEF Unsent
    <3>2. QED
      BY <1>6, <3>1 DEF SendNotices, linkVars
  <2>2. /\ Ordered(f) /\ (Current(q, r) => Current(f, r)) /\ (AllTaken(f) => AllTaken(q))
    BY <1>1, <1>2, SentQueue
  <2>3. notices'[s] = f
    BY <1>0, <2>1
  <2> HIDE DEF f
  <2>4. Counts(s)' <=> Counts(s)
    BY <2>1 DEF Counts
  <2>5. NewsOf(s)'
    BY <1>1, <2>1, <2>2, <2>3, <2>4 DEF NewsOf, NewsFit, Response, Linked
  <2>6. QED
    BY <1>0, <2>1, <2>5, OneServersNews
<1>7. CASE TakeNotice(s)
  <2>1. PICK i \in 1..Len(q) :
          /\ q[i].state = "sent" /\ \A j \in 1..(i - 1) : q[j].state = "taken"
          /\ plug' = [plug EXCEPT ![s] = Heard(s, q[i].rev)]
          /\ notices' = [notices EXCEPT ![s] = Marked(q, i)]
    BY <1>7 DEF TakeNotice, Marked
  <2> DEFINE f == Marked(q, i)
             h == Heard(s, q[i].rev)
  <2>2. Linked(s) /\ UNCHANGED <<hub, change, dropped, live, answer, page>>
    BY <1>7 DEF TakeNotice, linkVars
  <2>3. /\ Ordered(f) /\ (Current(q, r) => Current(f, r))
        /\ AllTaken(f) /\ Current(q, r) => q[i].rev = r
    <3>1. Ordered(q) /\ q \in Seq(NoticeType) /\ q[i].state = "sent" /\ \A j \in 1..(i - 1) : q[j].state = "taken"
      BY <1>1, <1>2, <2>1
    <3> HIDE DEF q
    <3>2. /\ Ordered(f) /\ \A x : Current(q, x) => Current(f, x)
          /\ \A x : AllTaken(f) /\ Current(q, x) => q[i].rev = x
      BY <3>1, TakenQueue
    <3>3. QED
      BY <3>2
  <2>4. q[i].rev \in Nat
    <3>1. q[i] \in NoticeType
      BY <1>2
    <3>2. QED
      BY <3>1 DEF NoticeType
  <2>5. h.up = p.up /\ h.token = p.token /\ h.refused = p.refused /\ Owes(h, page[s], q[i].rev)
    BY <1>2, <2>4, HeardNews
  <2>6. notices'[s] = f /\ plug'[s] = h
    BY <1>0, <2>1
  <2>7. plug' = [plug EXCEPT ![s] = h] /\ notices' = [notices EXCEPT ![s] = f]
    BY <2>1
  <2> HIDE DEF f, h
  <2>8. Counts(s)' <=> Counts(s)
    BY <2>2 DEF Counts
  <2>9. Session(h, page[s], live[s])
    BY <1>1, <2>5 DEF Session
  <2>10. NewsOf(s)'
    BY <1>1, <2>2, <2>3, <2>5, <2>6, <2>8, <2>9 DEF NewsOf, NewsFit, Response
  <2>11. QED
    BY <1>0, <2>2, <2>7, <2>10, OneServersNews
<1>8. CASE AckNotice(s)
  <2>1. /\ notices' = [notices EXCEPT ![s] = Tail(q)] /\ Linked(s) /\ q # <<>> /\ Head(q).state = "taken"
        /\ UNCHANGED <<hub, change, dropped, live, answer, plug, page>>
    BY <1>8 DEF AckNotice, linkVars
  <2>2. Ordered(Tail(q)) /\ (Current(q, r) => Current(Tail(q), r)) /\ (AllTaken(Tail(q)) => AllTaken(q))
    BY <1>1, <1>2, <2>1, AckedQueue
  <2>3. notices'[s] = Tail(q)
    BY <1>0, <2>1
  <2>4. Counts(s)' <=> Counts(s)
    BY <2>1 DEF Counts
  <2>5. NewsOf(s)'
    BY <1>1, <2>1, <2>2, <2>3, <2>4 DEF NewsOf, NewsFit, Response, Linked
  <2>6. QED
    BY <1>0, <2>1, <2>5, OneServersNews
<1>9. CASE LoseSession(s) \/ EndSession(s)
  <2>1. /\ live' = [live EXCEPT ![s] = 0]
        /\ UNCHANGED <<hub, notices, change, dropped, plug, page>>
        /\ answer' = [answer EXCEPT ![s] = NoAnswer]
    <3>1. CASE LoseSession(s)
      BY <3>1 DEF LoseSession, hubVars
    <3>2. CASE EndSession(s)
      <4>1. answer[s] = NoAnswer /\ answer' = answer
        BY <1>1, <3>2 DEF EndSession
      <4>2. answer' = [answer EXCEPT ![s] = NoAnswer]
        BY <1>0, <4>1
      <4>3. QED
        BY <3>2, <4>2 DEF EndSession, hubVars
    <3>3. QED
      BY <1>9, <3>1, <3>2
  <2>2. live'[s] = 0 /\ answer'[s] = NoAnswer
    BY <1>0, <2>1
  <2>3. Session(p, page[s], 0)
    BY <1>1 DEF Session
  <2>4. Counts(s)' <=> Counts(s)
    BY <2>1 DEF Counts
  <2>5. NewsOf(s)'
    BY <1>1, <2>1, <2>2, <2>3, <2>4 DEF NewsOf, NewsFit, Response
  <2>6. QED
    BY <1>0, <2>1, <2>5, OneServersNews
<1>10. QED
  BY <1>3, <1>4, <1>5, <1>6, <1>7, <1>8, <1>9

\* A step of the walk, told by what it leaves of the plugin and the request.
LEMMA WalkerNews ==
  ASSUME TInv, IInv', NEW s \in Servers, NEW p, NEW g,
         plug' = [plug EXCEPT ![s] = p], page' = [page EXCEPT ![s] = g],
         UNCHANGED <<hub, notices, change, dropped, live, answer>>,
         p.up = plug[s].up, p.token = plug[s].token, Session(p, g, live[s]),
         Linked(s) /\ Owes(plug[s], page[s], hub.revision) => Owes(p, g, hub.revision)
  PROVE  TInv'
<1>1. /\ plug \in [Servers -> PlugType] /\ page \in [Servers -> PageType]
      /\ dropped \in [Servers -> {"never", "missed", "told"}]
      /\ Ordered(notices[s]) /\ (Counts(s) => Current(notices[s], hub.revision))
      /\ Response(notices[s], answer[s], live[s], plug[s], hub.revision, Counts(s))
      /\ Counts(s) /\ Linked(s) /\ AllTaken(notices[s]) => Owes(plug[s], page[s], hub.revision)
  BY ServerNews
<1>2. plug'[s] = p /\ page'[s] = g
  BY <1>1
<1>4. Response(notices[s], answer[s], live[s], p, hub.revision, Counts(s))
  BY <1>1 DEF Response
<1>5. NewsFit(notices[s], answer[s], live[s], p, g, hub.revision, Counts(s))
  BY <1>1, <1>4 DEF NewsFit, Linked
<1>6. NewsOf(s)'
  BY <1>2, <1>5 DEF NewsOf, Counts
<1>7. QED
  BY <1>1, <1>6, OneServersNews

\* Where a request is admitted, and at which revision its first page is.
LEMMA AdmittedNews ==
  ASSUME IInv, NEW s \in Servers, NEW p \in PlugType, PlugOk(p), p.walking
  PROVE  LET g == Admission(s, p)
         IN  /\ g.sess = p.token /\ (g.stage = "invalid" => p.token # live[s])
             /\ g.stage = "reading" /\ p.rev = None => g.rev = hub.revision
<1> DEFINE g == Admission(s, p)
<1>1. p.rev = None => p.after = 0
  <2>1. DOMAIN lists \subseteq Nat
    BY DEF IInv, Register
  <2>2. QED
    BY <2>1 DEF PlugOk, None
<1>2. CASE p.token # live[s]
  <2>1. g = Page("invalid", 0, p.token)
    BY <1>2 DEF Admission
  <2>2. QED
    BY <1>2, <2>1 DEF Page
<1>3. CASE p.token = live[s] /\ p.after = 0
  <2>1. g = Page("reading", hub.revision, p.token)
    BY <1>3 DEF Admission
  <2>2. QED
    BY <2>1 DEF Page
<1>4. CASE p.token = live[s] /\ p.after # 0
  <2>1. g = Page("reading", p.rev, p.token) \/ g = Page("conflict", 0, p.token)
    <3>1. CASE Servable(p.rev)
      BY <1>4, <3>1 DEF Admission
    <3>2. CASE ~Servable(p.rev)
      BY <1>4, <3>2 DEF Admission
    <3>3. QED
      BY <3>1, <3>2
  <2>2. QED
    BY <1>1, <1>4, <2>1 DEF Page
<1>5. QED
  BY <1>2, <1>3, <1>4

LEMMA WalkNews ==
  ASSUME TInv, IInv', NEW s \in Servers,
         \/ RequestPage(s) \/ TakePage(s) \/ TakeLastPage(s) \/ LoseLastPage(s) \/ TakeInvalid(s)
         \/ TakeConflict(s) \/ LosePage(s)
  PROVE  TInv'
<1> DEFINE p == plug[s]
           g == page[s]
           r == hub.revision
<1>0. UNCHANGED <<hub, notices, change, dropped, live, answer>>
  BY DEF RequestPage, TakePage, TakeLastPage, LoseLastPage, TakeInvalid, TakeConflict, LosePage,
         hubVars, linkVars
<1>1. /\ p \in PlugType /\ g \in PageType /\ PlugOk(p) /\ PageOk(p, g) /\ IInv
  BY DEF TInv, IInv, Fits
<1>2. Session(p, g, live[s]) /\ live[s] \in Nat
  BY ServerNews
<1>3. p.token \in Nat /\ p.refused \in Nat /\ NoPage.sess = 0 /\ NoPage.stage = "none"
  BY <1>1 DEF PlugType, NoPage
<1>4. \A x \in PlugType : /\ x.up = p.up /\ x.token = p.token /\ x.refused = p.refused
                          => Session(x, NoPage, live[s])
  BY <1>2, <1>3 DEF Session
<1>5. /\ Begun(p) \in PlugType /\ Begun(p).up = p.up /\ Begun(p).token = p.token
      /\ Begun(p).refused = p.refused /\ Begun(p).known = p.known /\ Begun(p).due = p.due
      /\ Begun(p).list = p.list /\ Begun(p).walking /\ ~Begun(p).told /\ Begun(p).rev = None
      /\ Begun(p).after = 0 /\ Begun(p).walked = {}
  BY <1>1 DEF Begun, PlugType
<1>6. /\ Failed(p) \in PlugType /\ Failed(p).up = p.up /\ Failed(p).token = p.token
      /\ Failed(p).refused = p.refused /\ Failed(p).known = p.known /\ Failed(p).due = p.due
      /\ Failed(p).list = p.list /\ ~Failed(p).walking
  BY <1>1 DEF Failed, PlugType
<1>7. CASE RequestPage(s)
  <2> DEFINE x == IF p.walking THEN p ELSE Begun(p)
             y == Admission(s, x)
  <2>1. plug' = [plug EXCEPT ![s] = x] /\ page' = [page EXCEPT ![s] = y] /\ page[s] = NoPage
    BY <1>7 DEF RequestPage
  <2>2. /\ x \in PlugType /\ x.walking /\ x.up = p.up /\ x.token = p.token /\ x.refused = p.refused
        /\ x.known = p.known /\ x.due = p.due /\ x.list = p.list
    BY <1>1, <1>5
  <2>3. PlugOk(x)
    BY <1>1, <1>5 DEF PlugOk
  <2>4. x = p \/ (x.rev = None /\ ~x.told)
    BY <1>5
  <2> HIDE DEF x
  <2>5. /\ y.sess = x.token /\ (y.stage = "invalid" => x.token # live[s])
        /\ y.stage = "reading" /\ x.rev = None => y.rev = r
    BY <1>1, <2>2, <2>3, AdmittedNews
  <2> HIDE DEF y
  <2>6. Session(x, y, live[s])
    BY <1>2, <1>3, <2>2, <2>5 DEF Session
  <2>7. Owes(p, g, r) => Owes(x, y, r)
    BY <2>2, <2>4, <2>5 DEF Owes
  <2>8. QED
    BY <1>0, <2>1, <2>2, <2>6, <2>7, WalkerNews
<1>8. CASE TakePage(s)
  <2> DEFINE x == [p EXCEPT !.rev = Pinned(s), !.walked = Gathered(s),
                            !.after = LastOf({e.who : e \in PageEntries(s)})]
  <2>1. plug' = [plug EXCEPT ![s] = x] /\ page' = [page EXCEPT ![s] = NoPage] /\ g.stage = "reading"
    BY <1>8 DEF TakePage
  <2>2. /\ x.up = p.up /\ x.token = p.token /\ x.refused = p.refused /\ x.known = p.known
        /\ x.due = p.due /\ x.list = p.list /\ x.walking = p.walking /\ x.told = p.told
        /\ x.rev = Pinned(s)
    BY <1>1 DEF PlugType
  <2> HIDE DEF x
  <2>3. p.walking
    BY <1>1, <2>1 DEF PageOk
  <2>4. Session(x, NoPage, live[s])
    BY <1>2, <1>3, <2>2 DEF Session
  <2>5. Owes(p, g, r) => Owes(x, NoPage, r)
    BY <1>3, <2>1, <2>2, <2>3 DEF Owes, Pinned
  <2>6. QED
    BY <1>0, <2>1, <2>2, <2>4, <2>5, WalkerNews
<1>9. CASE TakeLastPage(s)
  <2> DEFINE x == Finished(s)
  <2>1. plug' = [plug EXCEPT ![s] = x] /\ page' = [page EXCEPT ![s] = NoPage] /\ g.stage = "reading"
    BY <1>9 DEF TakeLastPage
  <2>2. /\ x.up = p.up /\ x.token = p.token /\ x.refused = p.refused /\ ~x.walking
        /\ x.list = Walked(s) /\ x.known = (IF p.told THEN p.known ELSE Pinned(s))
        /\ x.due = (x.known # Pinned(s))
    BY <1>1 DEF Finished, PlugType
  <2> HIDE DEF x
  <2>3. p.walking /\ Walked(s).rev = Pinned(s)
    BY <1>1, <2>1 DEF PageOk, Walked
  <2>4. Session(x, NoPage, live[s])
    BY <1>2, <1>3, <2>2 DEF Session
  <2>5. Owes(p, g, r) => Owes(x, NoPage, r)
    BY <1>3, <2>1, <2>2, <2>3 DEF Owes, Pinned
  <2>6. QED
    BY <1>0, <2>1, <2>2, <2>4, <2>5, WalkerNews
<1>10. CASE TakeInvalid(s)
  <2> DEFINE x == [p EXCEPT !.refused = g.sess]
  <2>1. /\ plug' = [plug EXCEPT ![s] = x] /\ page' = [page EXCEPT ![s] = NoPage]
        /\ g.stage = "invalid"
    BY <1>10 DEF TakeInvalid
  <2>2. /\ x.up = p.up /\ x.token = p.token /\ x.refused = g.sess /\ x.known = p.known
        /\ x.due = p.due /\ x.list = p.list /\ x.walking = p.walking /\ x.told = p.told
        /\ x.rev = p.rev
    BY <1>1 DEF PlugType
  <2> HIDE DEF x
  <2>3. Session(x, NoPage, live[s])
    BY <1>2, <1>3, <2>1, <2>2 DEF Session
  <2>4. Owes(p, g, r) => Owes(x, NoPage, r)
    BY <1>3, <2>2 DEF Owes
  <2>5. QED
    BY <1>0, <2>1, <2>2, <2>3, <2>4, WalkerNews
<1>11. CASE LoseLastPage(s) \/ LosePage(s)
  <2>1. plug' = [plug EXCEPT ![s] = Failed(p)] /\ page' = [page EXCEPT ![s] = NoPage]
    BY <1>11 DEF LoseLastPage, LosePage
  <2>2. Owes(p, g, r) => Owes(Failed(p), NoPage, r)
    BY <1>6 DEF Owes
  <2>3. QED
    BY <1>0, <1>4, <1>6, <2>1, <2>2, WalkerNews
<1>12. CASE TakeConflict(s)
  <2>1. plug' = [plug EXCEPT ![s] = Begun(p)] /\ page' = [page EXCEPT ![s] = NoPage]
    BY <1>12 DEF TakeConflict
  <2>2. Owes(p, g, r) => Owes(Begun(p), NoPage, r)
    BY <1>3, <1>5 DEF Owes
  <2>3. QED
    BY <1>0, <1>4, <1>5, <2>1, <2>2, WalkerNews
<1>13. QED
  BY <1>7, <1>8, <1>9, <1>10, <1>11, <1>12

\* A server that died, or has just started, has no session.
LEMMA DownNews ==
  ASSUME TInv, IInv', NEW s \in Servers, Crash(s) \/ Boot(s) \/ BootUnread(s)
  PROVE  TInv'
<1>1. /\ plug \in [Servers -> PlugType] /\ page \in [Servers -> PageType]
      /\ answer \in [Servers -> [sess : Nat, rev : Nat]] /\ live \in [Servers -> Nat]
      /\ dropped \in [Servers -> {"never", "missed", "told"}]
      /\ Ordered(notices[s]) /\ (Counts(s) => Current(notices[s], hub.revision))
      /\ Response(notices[s], answer[s], live[s], plug[s], hub.revision, Counts(s))
  BY ServerNews
<1>2. UNCHANGED <<hub, notices, change, dropped, live>>
  BY DEF Crash, Boot, BootUnread, Load, Die, hubVars, linkVars
<1>3. Fits(plug[s], page[s], disk[s])
  BY DEF TInv, IInv
<1>4. /\ page' = [page EXCEPT ![s] = NoPage] /\ answer' = [answer EXCEPT ![s] = NoAnswer]
  <2>1. CASE Crash(s)
    BY <2>1 DEF Crash, Die
  <2>2. CASE Boot(s) \/ BootUnread(s)
    <3>1. ~plug[s].up /\ page' = page /\ answer' = answer
      BY <2>2 DEF Boot, BootUnread, Load, linkVars
    <3>2. page[s] = NoPage /\ answer[s] = NoAnswer
      BY <1>1, <1>3, <3>1 DEF Fits, PageOk, Response
    <3>3. QED
      BY <1>1, <3>1, <3>2
  <2>3. QED
    BY <2>1, <2>2
<1>5. PICK p : plug' = [plug EXCEPT ![s] = p] /\ p.token = 0 /\ p.refused = 0
  <2>1. CASE Crash(s)
    <3>1. plug' = [plug EXCEPT ![s] = [Down EXCEPT !.list = plug[s].list]]
      BY <2>1 DEF Crash, Die
    <3>2. [Down EXCEPT !.list = plug[s].list].token = 0 /\ [Down EXCEPT !.list = plug[s].list].refused = 0
      BY DEF Down, Booted
    <3>3. QED
      BY <3>1, <3>2
  <2>2. CASE Boot(s) \/ BootUnread(s)
    <3>1. PICK outcome \in Reads(disk[s]) \cup Misreads(disk[s]) :
            plug' = [plug EXCEPT ![s] = Booted(InForce(outcome.read))]
      BY <2>2 DEF Boot, BootUnread, Load
    <3>2. /\ Booted(InForce(outcome.read)).token = 0
          /\ Booted(InForce(outcome.read)).refused = 0
      BY DEF Booted
    <3>3. QED
      BY <3>1, <3>2
  <2>3. QED
    BY <2>1, <2>2
<1>6. plug'[s] = p /\ page'[s] = NoPage /\ answer'[s] = NoAnswer /\ NoPage.sess = 0
  BY <1>1, <1>4, <1>5 DEF NoPage
<1>7. Session(p, NoPage, live[s])
  BY <1>5, <1>6 DEF Session
<1>9. NewsFit(notices[s], NoAnswer, live[s], p, NoPage, hub.revision, Counts(s))
  BY <1>1, <1>5, <1>7 DEF NewsFit, Response
<1>10. NewsOf(s)'
  BY <1>2, <1>6, <1>9 DEF NewsOf, Counts
<1>11. QED
  BY <1>1, <1>2, <1>4, <1>5, <1>10, OneServersNews

LEMMA ToldNext ==
  ASSUME TInv, [Next]_vars
  PROVE  TInv'
<1>0. IInv'
  BY IInvNext DEF TInv
<1>1. CASE UNCHANGED vars
  BY <1>0, <1>1, QuietNews DEF vars, hubVars, linkVars
<1>2. CASE Tick
  BY <1>0, <1>2, QuietNews DEF Tick, hubVars, linkVars
<1>3. CASE SweepExpiredBans \/ \E b \in BanIds : CreateBan(b) \/ LiftBan(b)
  <2>1. PICK bans : Begin(bans)
    BY <1>3 DEF SweepExpiredBans, CreateBan, LiftBan
  <2>2. /\ UNCHANGED <<hub, notices, answer, live, plug, page, dropped>>
        /\ change'.targets = hub.declared
    BY <2>1 DEF Begin, linkVars
  <2>3. QED
    BY <1>0, <2>2, QuietNews
<1>4. CASE CommitChange \/ Restore
  BY <1>0, <1>4, CommitNews, RestoreNews
<1>5. ASSUME NEW s \in Servers, LinkStep(s) \/ LoseSession(s) \/ EndSession(s) PROVE TInv'
  BY <1>0, <1>5, LinkNews DEF LinkStep
<1>6. ASSUME NEW s \in Servers, WalkStep(s) \/ LosePage(s) \/ LoseLastPage(s) PROVE TInv'
  BY <1>0, <1>6, WalkNews DEF WalkStep
<1>7. ASSUME NEW s \in Servers, Crash(s) \/ Boot(s) \/ BootUnread(s) PROVE TInv'
  BY <1>0, <1>7, DownNews
<1>8. QED
  BY <1>1, <1>2, <1>3, <1>4, <1>5, <1>6, <1>7 DEF Next, ListStep, FaultStep

\* No change of the list is lost on a server no notice to which was dropped
\* (queueBanNotices, handleCreateSession, Told, Owe and Finish): while it
\* enforces another list, what will tell it is queued, on its way or already
\* owed, and a walk that reads an older list cannot end with nothing owed.
\* Without a dropped notice, fairness is all that ChangesReachServers adds.
THEOREM ChangesAreOwed == Spec => []NewsIsNotLost
<1>1. TInv => NewsIsNotLost
  <2> SUFFICES ASSUME TInv, NEW s \in Servers, dropped[s] = "never", plug[s].list.rev # hub.revision,
                      plug[s].up, s \in hub.declared
               PROVE  \/ ~Linked(s) /\ (answer[s] = NoAnswer \/ answer[s].sess = live[s])
                      \/ \E i \in 1..Len(notices[s]) :
                           notices[s][i].state # "taken" /\ notices[s][i].rev = hub.revision
                      \/ plug[s].due /\ plug[s].refused # plug[s].token /\ Owes(plug[s], page[s], hub.revision)
    BY DEF NewsIsNotLost, ServerTold
  <2>1. /\ notices[s] \in Seq(NoticeType) /\ Current(notices[s], hub.revision)
        /\ Session(plug[s], page[s], live[s])
        /\ Response(notices[s], answer[s], live[s], plug[s], hub.revision, Counts(s))
        /\ Linked(s) /\ AllTaken(notices[s]) => Owes(plug[s], page[s], hub.revision)
    BY ServerNews DEF Counts
  <2>2. CASE ~Linked(s)
    BY <2>1, <2>2 DEF Response
  <2>3. CASE Linked(s) /\ AllTaken(notices[s])
    BY <2>1, <2>3 DEF Owes, Session, Linked
  <2>4. CASE Linked(s) /\ ~AllTaken(notices[s])
    <3>1. Len(notices[s]) \in 1..Len(notices[s])
      BY <2>1, <2>4 DEF AllTaken
    <3>2. QED
      BY <2>1, <2>4, <3>1 DEF AllTaken, Current
  <2>5. QED
    BY <2>2, <2>3, <2>4
<1>2. QED
  BY <1>1, ToldInit, ToldNext, PTL DEF Spec
===============================================================================
