---------------------------- MODULE FollowsProofs ----------------------------
(***************************************************************************)
(* Theorems about the followed users, for any devices, ids, case folding   *)
(* and bounds.  The rule of one id is shown to be the join of a total      *)
(* order on cells (MergeIsNewest and its corollaries); everything else     *)
(* follows from that and from where the stamps of a section come from.     *)
(***************************************************************************)
EXTENDS Follows, TLAPS

(***************************************************************************)
(* The rule of one id                                                      *)
(***************************************************************************)

\* Whatever the mode, what a merge leaves is a cell: never an entry and a
\* tombstone of one id at once (mergeSection).
LEMMA MergeCellType ==
  ASSUME NEW r \in Cell, NEW l \in Cell, NEW restore \in BOOLEAN
  PROVE  MergeCell(r, l, restore) \in Cell
<1>1. /\ r.item \in Nat \union {-1} /\ l.item \in Nat \union {-1}
      /\ r.grave \in Nat /\ l.grave \in Nat
  BY DEF Cell, Absent
<1> DEFINE item == Later(l.item, r.item)
           grave == Later(l.grave, r.grave)
<1>2. item \in Nat \union {-1} /\ grave \in Nat
  BY <1>1 DEF Later
<1>3. \A i \in Nat \union {-1}, g \in Nat :
        i = Absent \/ g = NoGrave => [item |-> i, grave |-> g] \in Cell
  BY DEF Cell, Absent, NoGrave
<1>4. [item |-> item, grave |-> NoGrave] \in Cell
  BY <1>2, <1>3 DEF NoGrave
<1>5. [item |-> Absent, grave |-> grave] \in Cell
  BY <1>2, <1>3 DEF Absent
<1>6. CASE item # Absent /\ grave # NoGrave
  BY <1>4, <1>5, <1>6 DEF MergeCell
<1>7. CASE ~(item # Absent /\ grave # NoGrave)
  <2>1. [item |-> item, grave |-> grave] \in Cell
    BY <1>2, <1>3, <1>7
  <2> QED
    BY <2>1, <1>7 DEF MergeCell
<1> QED
  BY <1>6, <1>7

\* A cell is determined by its rank.
LEMMA RankInjective ==
  ASSUME NEW a \in Cell, NEW b \in Cell, Rank(a) = Rank(b)
  PROVE  a = b
<1>1. /\ a = [item |-> a.item, grave |-> a.grave]
      /\ b = [item |-> b.item, grave |-> b.grave]
  BY DEF Cell
<1>2. /\ a.item \in Nat \union {-1} /\ b.item \in Nat \union {-1}
      /\ a.grave \in Nat /\ b.grave \in Nat
      /\ a.item = -1 \/ a.grave = 0
      /\ b.item = -1 \/ b.grave = 0
  BY DEF Cell, Absent, NoGrave
<1> DEFINE rank(i, g) == IF i # -1 THEN 2 * i + 1 ELSE IF g # 0 THEN 2 * g + 2 ELSE 0
<1>3. rank(a.item, a.grave) = rank(b.item, b.grave)
  BY DEF Rank, Absent, NoGrave
<1>4. \A i, j \in Nat \union {-1}, g, h \in Nat :
        (i = -1 \/ g = 0) /\ (j = -1 \/ h = 0) /\ rank(i, g) = rank(j, h)
          => i = j /\ g = h
  OBVIOUS
<1> HIDE DEF rank
<1>5. a.item = b.item /\ a.grave = b.grave
  BY <1>2, <1>3, <1>4
<1> QED
  BY <1>1, <1>5

LEMMA RankNat == ASSUME NEW c \in Cell PROVE Rank(c) \in Nat
<1>1. c.item \in Nat \union {-1} /\ c.grave \in Nat
  BY DEF Cell, Absent
<1> QED
  BY <1>1 DEF Rank, Absent, NoGrave

\* A background pass keeps, for every id, the copy of higher rank: the newer
\* one, and the tombstone on a tie ("On a tie the tombstone wins, so an
\* unfollow is not undone by the entry it deleted", mergeSection).
THEOREM MergeIsNewest ==
  ASSUME NEW r \in Cell, NEW l \in Cell
  PROVE  MergeCell(r, l, FALSE) = IF Rank(r) > Rank(l) THEN r ELSE l
<1>1. /\ r = [item |-> r.item, grave |-> r.grave]
      /\ l = [item |-> l.item, grave |-> l.grave]
  BY DEF Cell
<1>2. /\ r.item \in Nat \union {-1} /\ l.item \in Nat \union {-1}
      /\ r.grave \in Nat /\ l.grave \in Nat
      /\ r.item = -1 \/ r.grave = 0
      /\ l.item = -1 \/ l.grave = 0
  BY DEF Cell, Absent, NoGrave
<1> DEFINE m == MergeCell(r, l, FALSE)
           w == IF Rank(r) > Rank(l) THEN r ELSE l
<1>3. m = [item |-> m.item, grave |-> m.grave]
  BY DEF MergeCell
<1>4. w = [item |-> w.item, grave |-> w.grave]
  BY <1>1
<1>5. CASE r.item = -1 /\ l.item = -1
  <2>1. m.item = -1 /\ m.grave = Later(l.grave, r.grave)
    BY <1>2, <1>5 DEF MergeCell, Later, Absent, NoGrave
  <2>2. w.item = -1 /\ w.grave = Later(l.grave, r.grave)
    BY <1>2, <1>5 DEF Later, Rank, Absent, NoGrave
  <2> QED
    BY <2>1, <2>2, <1>3, <1>4
<1>6. CASE r.item # -1 /\ l.item # -1
  <2>1. m.item = Later(l.item, r.item) /\ m.grave = 0
    BY <1>2, <1>6 DEF MergeCell, Later, Absent, NoGrave
  <2>2. w.item = Later(l.item, r.item) /\ w.grave = 0
    BY <1>2, <1>6 DEF Later, Rank, Absent, NoGrave
  <2> QED
    BY <2>1, <2>2, <1>3, <1>4
<1>7. CASE r.item # -1 /\ l.item = -1
  <2>1. /\ m.item = IF r.item > l.grave \/ l.grave = 0 THEN r.item ELSE -1
        /\ m.grave = IF r.item > l.grave \/ l.grave = 0 THEN 0 ELSE l.grave
    BY <1>2, <1>7 DEF MergeCell, Later, Survives, Absent, NoGrave
  <2>2. /\ w.item = IF r.item > l.grave \/ l.grave = 0 THEN r.item ELSE -1
        /\ w.grave = IF r.item > l.grave \/ l.grave = 0 THEN 0 ELSE l.grave
    BY <1>2, <1>7 DEF Rank, Absent, NoGrave
  <2> QED
    BY <2>1, <2>2, <1>3, <1>4
<1>8. CASE r.item = -1 /\ l.item # -1
  <2>1. /\ m.item = IF l.item > r.grave \/ r.grave = 0 THEN l.item ELSE -1
        /\ m.grave = IF l.item > r.grave \/ r.grave = 0 THEN 0 ELSE r.grave
    BY <1>2, <1>8 DEF MergeCell, Later, Survives, Absent, NoGrave
  <2>2. /\ w.item = IF l.item > r.grave \/ r.grave = 0 THEN l.item ELSE -1
        /\ w.grave = IF l.item > r.grave \/ r.grave = 0 THEN 0 ELSE r.grave
    BY <1>2, <1>8 DEF Rank, Absent, NoGrave
  <2> QED
    BY <2>1, <2>2, <1>3, <1>4
<1> QED
  BY <1>5, <1>6, <1>7, <1>8

\* The rule is a join, so the order in which devices meet and how often they
\* do cannot matter: it is commutative, associative and idempotent.
THEOREM MergeIsJoin ==
  ASSUME NEW a \in Cell, NEW b \in Cell, NEW c \in Cell
  PROVE  /\ MergeCell(a, b, FALSE) = MergeCell(b, a, FALSE)
         /\ MergeCell(a, MergeCell(b, c, FALSE), FALSE)
              = MergeCell(MergeCell(a, b, FALSE), c, FALSE)
         /\ MergeCell(a, a, FALSE) = a
<1>1. Rank(a) \in Nat /\ Rank(b) \in Nat /\ Rank(c) \in Nat
  BY RankNat
<1>2. Rank(a) = Rank(b) => a = b
  BY RankInjective
<1> DEFINE m(x, y) == MergeCell(x, y, FALSE)
<1>3. \A x, y \in Cell : m(x, y) = IF Rank(x) > Rank(y) THEN x ELSE y
  BY MergeIsNewest
<1>4. m(b, c) \in Cell /\ m(a, b) \in Cell
  BY MergeCellType
<1> HIDE DEF m
<1>5. m(a, b) = m(b, a)
  BY <1>1, <1>2, <1>3
<1>6. m(a, m(b, c)) = m(m(a, b), c)
  <2>1. CASE Rank(b) > Rank(c)
    BY <2>1, <1>1, <1>3, <1>4
  <2>2. CASE ~(Rank(b) > Rank(c))
    BY <2>2, <1>1, <1>3, <1>4
  <2> QED
    BY <2>1, <2>2
<1>7. MergeCell(a, a, FALSE) = a
  BY MergeIsNewest
<1> QED
  BY <1>5, <1>6, <1>7 DEF m

(***************************************************************************)
(* Type correctness                                                        *)
(***************************************************************************)

LEMMA EmptyIsSection == EmptySection \in Section
<1>1. EmptyCell \in Cell
  BY DEF EmptyCell, Cell, Absent, NoGrave
<1> QED
  BY <1>1 DEF EmptySection, Section

LEMMA MergeSectionType ==
  ASSUME NEW r \in Section, NEW l \in Section, NEW restore \in BOOLEAN
  PROVE  MergeSection(r, l, restore) \in Section
BY MergeCellType DEF MergeSection, Section

LEMMA RemoteType == ASSUME TypeOK PROVE Remote \in Section
BY EmptyIsSection DEF Remote, TypeOK

LEMMA EntryCellType ==
  ASSUME NEW c \in Cell, NEW at \in Nat
  PROVE  EntryCell(c, at) \in Cell
BY DEF EntryCell, Cell, NoGrave

\* What Unfollow buries is a spelling of the user it was given, and every
\* entry of that spelling is dropped.
LEMMA BuriedIsSameUser ==
  ASSUME NEW s \in Section, NEW u \in Ids
  PROVE  Buried(s, u) \in Ids /\ SameUser(u, Buried(s, u))
<1> DEFINE matches == {v \in Held(s) : SameUser(u, v)}
<1>1. CASE matches = {}
  BY <1>1 DEF Buried, SameUser
<1>2. CASE matches # {}
  <2>1. \E v \in matches : \A w \in matches : w <= v
    BY <1>2, IdsAssumption DEF Held
  <2>2. Buried(s, u) \in matches
    BY <2>1, <1>2 DEF Buried
  <2> QED
    BY <2>2 DEF Held
<1> QED
  BY <1>1, <1>2

LEMMA UnfollowedType ==
  ASSUME NEW s \in Section, NEW u \in Ids, NEW at \in Nat
  PROVE  Unfollowed(s, u, at) \in Section
<1> DEFINE cell(v) == [item  |-> IF SameUser(u, v) THEN Absent ELSE s[v].item,
                       grave |-> IF v = Buried(s, u) THEN at ELSE s[v].grave]
<1>1. ASSUME NEW v \in Ids PROVE cell(v) \in Cell
  <2>1. s[v] \in Cell
    BY DEF Section
  <2>2. CASE v = Buried(s, u)
    BY <2>2, BuriedIsSameUser DEF Cell, Absent
  <2>3. CASE v # Buried(s, u)
    BY <2>1, <2>3 DEF Cell, Absent
  <2> QED
    BY <2>2, <2>3
<1> QED
  BY <1>1 DEF Unfollowed, Section

LEMMA StoredType ==
  ASSUME NEW l \in Section, NEW out \in Section
  PROVE  Stored(l, out) \in Section
BY DEF Stored

LEMMA FollowType ==
  ASSUME TypeOK, NEW d \in Devices, NEW u \in Ids, Follow(d, u)
  PROVE  TypeOK'
<1> USE FollowsAssumption
<1>1. now + 1 \in 0 .. MaxClock /\ now + 1 \in Nat
  BY DEF Follow, TypeOK
<1>2. follows[d] \in Section /\ follows[d][u] \in Cell
  BY DEF TypeOK, Section
<1>3. follows' \in [Devices -> Section]
  <2>1. EntryCell(follows[d][u], now + 1) \in Cell
    BY <1>1, <1>2, EntryCellType
  <2>2. [follows[d] EXCEPT ![u] = EntryCell(follows[d][u], now + 1)] \in Section
    BY <2>1, <1>2 DEF Section
  <2> QED
    BY <2>2 DEF Follow, TypeOK
<1>4. newest' \in Section
  <2>1. [item |-> now + 1, grave |-> NoGrave] \in Cell
    BY <1>1 DEF Cell, NoGrave
  <2> QED
    BY <2>1 DEF Follow, TypeOK, Section
<1>5. /\ dirty' \in [Devices -> BOOLEAN]
      /\ author' \in [Ids -> Devices \union {Nobody}]
      /\ restored' \subseteq Devices \X Ids
      /\ now' \in 0 .. MaxClock
  BY <1>1 DEF Follow, TypeOK
<1> QED
  BY <1>3, <1>4, <1>5 DEF Follow, TypeOK

LEMMA UnfollowType ==
  ASSUME TypeOK, NEW d \in Devices, NEW u \in Ids, Unfollow(d, u)
  PROVE  TypeOK'
<1> USE FollowsAssumption
<1>1. now + 1 \in 0 .. MaxClock /\ now + 1 \in Nat
  BY DEF Unfollow, TypeOK
<1>2. follows' \in [Devices -> Section]
  <2>1. Unfollowed(follows[d], u, now + 1) \in Section
    BY <1>1, UnfollowedType DEF TypeOK
  <2> QED
    BY <2>1 DEF Unfollow, TypeOK
<1>3. newest' \in Section
  <2>1. [item |-> Absent, grave |-> now + 1] \in Cell
    BY <1>1 DEF Cell, Absent
  <2> QED
    BY <2>1 DEF Unfollow, TypeOK, Section
<1>4. author' \in [Ids -> Devices \union {Nobody}]
  BY DEF Unfollow, TypeOK
<1>5. /\ dirty' \in [Devices -> BOOLEAN]
      /\ restored' \subseteq Devices \X Ids
      /\ now' \in 0 .. MaxClock
  BY <1>1 DEF Unfollow, TypeOK
<1> QED
  BY <1>2, <1>3, <1>4, <1>5 DEF Unfollow, TypeOK

LEMMA SyncType ==
  ASSUME TypeOK, NEW d \in Devices, NEW import \in BOOLEAN, Sync(d, import)
  PROVE  TypeOK'
<1>1. MergeSection(Remote, follows[d], FALSE) \in Section
  BY RemoteType, MergeSectionType DEF TypeOK
<1>2. Stored(follows[d], MergeSection(Remote, follows[d], FALSE)) \in Section
  BY <1>1, StoredType DEF TypeOK
<1>3. follows' \in [Devices -> Section]
  BY <1>2 DEF Sync, TypeOK
<1>4. doc' \in Section
  BY <1>1 DEF Sync, Written
<1> QED
  BY <1>3, <1>4 DEF Sync, TypeOK

LEMMA RestoreType ==
  ASSUME TypeOK, NEW d \in Devices, NEW part \in Section, Restore(d, part)
  PROVE  TypeOK'
<1>1. MergeSection(part, follows[d], TRUE) \in Section
  BY MergeSectionType DEF TypeOK
<1>2. Stored(follows[d], MergeSection(part, follows[d], TRUE)) \in Section
  BY <1>1, StoredType DEF TypeOK
<1>3. follows' \in [Devices -> Section]
  BY <1>2 DEF Restore, TypeOK
<1>4. dirty' \in [Devices -> BOOLEAN]
  BY DEF Restore, TypeOK
<1>5. restores' \in 0 .. MaxRestores
  BY FollowsAssumption DEF Restore, TypeOK
<1>6. restored' \subseteq Devices \X Ids
  BY DEF Restore, TypeOK, Held
<1> QED
  BY <1>3, <1>4, <1>5, <1>6 DEF Restore, TypeOK

LEMMA TypeStep == TypeOK /\ [Next]_vars => TypeOK'
<1> SUFFICES ASSUME TypeOK, [Next]_vars PROVE TypeOK'
  OBVIOUS
<1>1. CASE Edit
  BY <1>1, FollowType, UnfollowType DEF Edit
<1>2. CASE \E d \in Devices : Sync(d, TRUE) \/ Sync(d, FALSE)
  BY <1>2, SyncType
<1>3. CASE \E d \in Devices : Restore(d, doc) \/ Restore(d, file)
  <2>1. doc \in Section /\ file \in Section
    BY DEF TypeOK
  <2> QED
    BY <1>3, <2>1, RestoreType
<1>4. CASE \E d \in Devices : Export(d)
  BY <1>4 DEF Export, TypeOK
<1>5. CASE Lose
  <2>1. losses \in 0 .. MaxLosses /\ losses < MaxLosses /\ losses' = losses + 1
    BY <1>5 DEF Lose, TypeOK
  <2>2. losses' \in 0 .. MaxLosses
    BY <2>1, FollowsAssumption
  <2>3. readable' \in BOOLEAN
    BY <1>5 DEF Lose
  <2> QED
    BY <1>5, <2>2, <2>3 DEF Lose, TypeOK
<1>6. CASE UNCHANGED vars
  BY <1>6 DEF vars, TypeOK
<1> QED
  BY <1>1, <1>2, <1>3, <1>4, <1>5, <1>6 DEF Next

\* Every section anywhere, stored or shared, keeps an id as an entry or as a
\* tombstone and never as both, whatever the fold, the edits and the imports.
THEOREM FollowsType == Spec => []TypeOK
<1>1. Init => TypeOK
  BY EmptyIsSection, FollowsAssumption DEF Init, TypeOK
<1> QED
  BY <1>1, TypeStep, PTL DEF Spec

(***************************************************************************)
(* What a pass does to the document                                        *)
(***************************************************************************)

LEMMA MergeRank ==
  ASSUME NEW r \in Cell, NEW l \in Cell
  PROVE  /\ Rank(MergeCell(r, l, FALSE)) >= Rank(r)
         /\ Rank(MergeCell(r, l, FALSE)) >= Rank(l)
         /\ MergeCell(r, l, FALSE) \in {r, l}
<1>1. Rank(r) \in Nat /\ Rank(l) \in Nat
  BY RankNat
<1> DEFINE m == MergeCell(r, l, FALSE)
<1>2. m = IF Rank(r) > Rank(l) THEN r ELSE l
  BY MergeIsNewest
<1> HIDE DEF m
<1>3. Rank(m) >= Rank(r) /\ Rank(m) >= Rank(l) /\ m \in {r, l}
  BY <1>1, <1>2
<1> QED
  BY <1>3 DEF m

\* No step of any device makes a readable document forget: for every id it
\* only ever moves to a newer copy.
THEOREM FollowsDocumentGrows == Spec => DocumentGrows
<1> DEFINE Grows == readable => \A u \in Ids : Rank(doc'[u]) >= Rank(doc[u])
<1>1. ASSUME TypeOK, Next PROVE Grows
  <2>1. \A u \in Ids : Rank(doc[u]) \in Nat
    BY <1>1, RankNat DEF TypeOK, Section
  <2>2. ASSUME NEW d \in Devices, NEW import \in BOOLEAN, Sync(d, import), readable,
               NEW u \in Ids
        PROVE  Rank(doc'[u]) >= Rank(doc[u])
    <3>1. doc'[u] = MergeCell(doc[u], follows[d][u], FALSE)
      BY <2>2 DEF Sync, Written, MergeSection, Remote
    <3>2. doc[u] \in Cell /\ follows[d][u] \in Cell
      BY <1>1 DEF TypeOK, Section
    <3> QED
      BY <3>1, <3>2, MergeRank
  <2>3. (\A d \in Devices : ~Sync(d, TRUE) /\ ~Sync(d, FALSE)) => UNCHANGED doc
    BY <1>1 DEF Next, Edit, Follow, Unfollow, Restore, Export, Lose
  <2>4. CASE UNCHANGED doc
    BY <2>1, <2>4
  <2>5. CASE \E d \in Devices : Sync(d, TRUE) \/ Sync(d, FALSE)
    BY <2>2, <2>5
  <2> QED
    BY <2>3, <2>4, <2>5
<1>2. ASSUME TypeOK, UNCHANGED vars PROVE Grows
  <2>1. \A u \in Ids : Rank(doc[u]) \in Nat
    BY <1>2, RankNat DEF TypeOK, Section
  <2> QED
    BY <1>2, <2>1 DEF vars
<1>3. TypeOK /\ [Next]_vars => [Grows]_vars
  BY <1>1, <1>2
<1> QED
  BY <1>3, FollowsType, PTL DEF Spec, DocumentGrows

(***************************************************************************)
(* The device of the latest edit keeps its outcome                         *)
(***************************************************************************)

\* Stamps come from the edits, so none is ahead of the clock.
PastStamps == \A u \in Ids : newest[u].item <= now /\ newest[u].grave <= now

IInv == TypeOK /\ PastStamps /\ NothingAhead /\ AuthorHolds

\* What an edit writes outranks everything stamped before it.
LEMMA EditOutranks ==
  ASSUME NEW c \in Cell, NEW t \in Nat, c.item <= t, c.grave <= t
  PROVE  /\ Rank(c) <= Rank([item |-> t + 1, grave |-> NoGrave])
         /\ Rank(c) <= Rank([item |-> Absent, grave |-> t + 1])
<1>1. c.item \in Nat \union {-1} /\ c.grave \in Nat
  BY DEF Cell, Absent
<1> QED
  BY <1>1 DEF Rank, Absent, NoGrave

\* An edit that sets the latest cell of some ids on the device, to something
\* that outranks the one before, keeps the invariant.
LEMMA EditKeeps ==
  ASSUME IInv, TypeOK', NEW d \in Devices, NEW gone \in SUBSET Ids,
         UNCHANGED <<doc, file>>,
         \A e \in Devices, u \in Ids \ gone : <<e, u>> \in restored => <<e, u>> \in restored',
         \A e \in Devices : e # d => follows'[e] = follows[e],
         \A u \in gone : follows'[d][u] = newest'[u] /\ author'[u] = d
                         /\ Rank(newest[u]) <= Rank(newest'[u]),
         \A u \in Ids \ gone : /\ follows'[d][u] = follows[d][u]
                               /\ newest'[u] = newest[u]
                               /\ author'[u] = author[u]
  PROVE  NothingAhead' /\ AuthorHolds'
<1>1. ASSUME NEW u \in Ids PROVE NothingAhead!(u)'
  <2>1. /\ Rank(newest[u]) \in Nat /\ Rank(newest'[u]) \in Nat
        /\ Rank(doc[u]) \in Nat /\ Rank(file[u]) \in Nat
        /\ \A e \in Devices : Rank(follows[e][u]) \in Nat
    BY RankNat DEF IInv, TypeOK, Section
  <2>2. Rank(newest[u]) <= Rank(newest'[u])
    BY <2>1
  <2>3. Rank(doc'[u]) <= Rank(newest'[u]) /\ Rank(file'[u]) <= Rank(newest'[u])
    BY <2>1, <2>2 DEF IInv, NothingAhead
  <2>4. ASSUME NEW e \in Devices PROVE Rank(follows'[e][u]) <= Rank(newest'[u])
    <3>1. CASE e = d /\ u \in gone
      BY <3>1, <2>1
    <3>2. CASE ~(e = d /\ u \in gone)
      <4>1. follows'[e][u] = follows[e][u]
        BY <3>2
      <4> QED
        BY <4>1, <2>1, <2>2 DEF IInv, NothingAhead
    <3> QED
      BY <3>1, <3>2
  <2> QED
    BY <2>3, <2>4
<1>2. ASSUME NEW u \in Ids, author'[u] # Nobody, <<author'[u], u>> \notin restored'
      PROVE  follows'[author'[u]][u] = newest'[u]
  <2>1. CASE u \in gone
    BY <2>1
  <2>2. CASE u \notin gone
    <3>1. author[u] # Nobody /\ author[u] \in Devices /\ <<author[u], u>> \notin restored
      BY <1>2, <2>2 DEF IInv, TypeOK
    <3>2. follows'[author[u]][u] = follows[author[u]][u]
      BY <2>2, <3>1
    <3> QED
      BY <2>2, <3>1, <3>2 DEF IInv, AuthorHolds
  <2> QED
    BY <2>1, <2>2
<1> QED
  BY <1>1, <1>2 DEF NothingAhead, AuthorHolds

LEMMA FollowKeeps ==
  ASSUME IInv, TypeOK', NEW d \in Devices, NEW u \in Ids, Follow(d, u)
  PROVE  IInv'
<1> DEFINE entry == [item |-> now + 1, grave |-> NoGrave]
<1>1. now \in Nat /\ newest[u] \in Cell
  BY DEF IInv, TypeOK, Section
<1>2. Rank(newest[u]) <= Rank(entry)
  BY <1>1, EditOutranks DEF IInv, PastStamps
<1>3. /\ follows' = [follows EXCEPT ![d] = [@ EXCEPT ![u] = entry]]
      /\ newest' = [newest EXCEPT ![u] = entry]
      /\ author' = [author EXCEPT ![u] = d]
      /\ doc' = doc /\ file' = file
      /\ now' = now + 1
      /\ restored' = {r \in restored : r[2] # u}
  BY DEF Follow, EntryCell
<1>4. follows'[d][u] = entry /\ newest'[u] = entry /\ author'[u] = d
  BY <1>3 DEF IInv, TypeOK, Section
<1>5. \A v \in Ids \ {u} : /\ follows'[d][v] = follows[d][v]
                           /\ newest'[v] = newest[v]
                           /\ author'[v] = author[v]
  BY <1>3 DEF IInv, TypeOK, Section
<1>6. \A e \in Devices : e # d => follows'[e] = follows[e]
  BY <1>3 DEF IInv, TypeOK
<1>7. NothingAhead' /\ AuthorHolds'
  <2> DEFINE gone == {u}
  <2>1. gone \in SUBSET Ids
    OBVIOUS
  <2>2. \A v \in gone : follows'[d][v] = newest'[v] /\ author'[v] = d
                       /\ Rank(newest[v]) <= Rank(newest'[v])
    BY <1>2, <1>4
  <2>3. \A v \in Ids \ gone : /\ follows'[d][v] = follows[d][v]
                              /\ newest'[v] = newest[v]
                              /\ author'[v] = author[v]
    BY <1>5
  <2>4. \A e \in Devices, v \in Ids \ gone :
          <<e, v>> \in restored => <<e, v>> \in restored'
    BY <1>3
  <2> HIDE DEF gone
  <2> QED
    BY <1>3, <1>6, <2>1, <2>2, <2>3, <2>4, EditKeeps
<1>8. PastStamps'
  <2>1. ASSUME NEW v \in Ids PROVE newest'[v].item <= now + 1 /\ newest'[v].grave <= now + 1
    <3>1. CASE v = u
      BY <3>1, <1>1, <1>4 DEF NoGrave
    <3>2. CASE v # u
      <4>1. /\ newest[v].item \in Int /\ newest[v].grave \in Int
            /\ newest[v].item <= now /\ newest[v].grave <= now
        BY DEF IInv, TypeOK, Section, Cell, Absent, PastStamps
      <4> QED
        BY <3>2, <1>1, <1>5, <4>1
    <3> QED
      BY <3>1, <3>2
  <2> QED
    BY <2>1, <1>3 DEF PastStamps
<1> QED
  BY <1>7, <1>8 DEF IInv

LEMMA UnfollowKeeps ==
  ASSUME \A u, v \in Ids : Fold[u] = Fold[v] => u = v,
         IInv, TypeOK', NEW d \in Devices, NEW u \in Ids, Unfollow(d, u)
  PROVE  IInv'
<1> DEFINE grave == [item |-> Absent, grave |-> now + 1]
<1>1. now \in Nat /\ newest[u] \in Cell /\ follows[d] \in Section
  BY DEF IInv, TypeOK, Section
<1>2. Rank(newest[u]) <= Rank(grave)
  BY <1>1, EditOutranks DEF IInv, PastStamps
<1>3. Buried(follows[d], u) = u /\ \A v \in Ids : SameUser(u, v) <=> v = u
  BY <1>1, BuriedIsSameUser DEF SameUser
<1>4. {v \in Held(follows[d]) : SameUser(u, v)} \union {Buried(follows[d], u)} = {u}
  BY <1>3 DEF Held
<1>5. /\ follows' = [follows EXCEPT ![d] = Unfollowed(@, u, now + 1)]
      /\ newest' = [v \in Ids |-> IF v = u THEN grave ELSE newest[v]]
      /\ author' = [v \in Ids |-> IF v = u THEN d ELSE author[v]]
      /\ doc' = doc /\ file' = file
      /\ now' = now + 1
      /\ restored' = {r \in restored : r[2] # u}
  <2>1. restored' = {r \in restored : r[2] # u}
    <3>1. \A r \in restored : ~SameUser(u, r[2]) <=> r[2] # u
      BY <1>3 DEF IInv, TypeOK
    <3> QED
      BY <3>1 DEF Unfollow
  <2> QED
    BY <1>4, <2>1 DEF Unfollow
<1>6. /\ follows'[d] = Unfollowed(follows[d], u, now + 1)
      /\ \A e \in Devices : e # d => follows'[e] = follows[e]
  BY <1>5 DEF IInv, TypeOK
<1>7. \A v \in Ids : follows'[d][v] = IF v = u THEN grave ELSE follows[d][v]
  <2>1. ASSUME NEW v \in Ids
        PROVE  follows'[d][v] = [item  |-> IF v = u THEN Absent ELSE follows[d][v].item,
                                 grave |-> IF v = u THEN now + 1 ELSE follows[d][v].grave]
    BY <1>3, <1>6 DEF Unfollowed
  <2>2. \A v \in Ids : follows[d][v] = [item |-> follows[d][v].item,
                                       grave |-> follows[d][v].grave]
    BY <1>1 DEF Section, Cell
  <2> QED
    BY <2>1, <2>2
<1>8. NothingAhead' /\ AuthorHolds'
  <2> DEFINE gone == {u}
  <2>1. gone \in SUBSET Ids
    OBVIOUS
  <2>2. \A v \in gone : follows'[d][v] = newest'[v] /\ author'[v] = d
                       /\ Rank(newest[v]) <= Rank(newest'[v])
    BY <1>2, <1>5, <1>7
  <2>3. \A v \in Ids \ gone : /\ follows'[d][v] = follows[d][v]
                              /\ newest'[v] = newest[v]
                              /\ author'[v] = author[v]
    BY <1>5, <1>7
  <2>4. \A e \in Devices, v \in Ids \ gone :
          <<e, v>> \in restored => <<e, v>> \in restored'
    BY <1>5
  <2> HIDE DEF gone
  <2> QED
    BY <1>5, <1>6, <2>1, <2>2, <2>3, <2>4, EditKeeps
<1>9. PastStamps'
  <2>1. ASSUME NEW v \in Ids PROVE newest'[v].item <= now + 1 /\ newest'[v].grave <= now + 1
    <3>1. CASE v = u
      BY <3>1, <1>1, <1>5 DEF Absent
    <3>2. CASE v # u
      <4>1. /\ newest[v].item \in Int /\ newest[v].grave \in Int
            /\ newest[v].item <= now /\ newest[v].grave <= now
        BY DEF IInv, TypeOK, Section, Cell, Absent, PastStamps
      <4> QED
        BY <3>2, <1>1, <1>5, <4>1
    <3> QED
      BY <3>1, <3>2
  <2> QED
    BY <2>1, <1>5 DEF PastStamps
<1> QED
  BY <1>8, <1>9 DEF IInv

\* A pass brings nothing newer than the latest edit, so the device of that
\* edit sees only copies it outranks.
LEMMA SyncKeeps ==
  ASSUME IInv, TypeOK', NEW d \in Devices, NEW import \in BOOLEAN, Sync(d, import)
  PROVE  IInv'
<1> DEFINE out == MergeSection(Remote, follows[d], FALSE)
<1>1. ASSUME NEW u \in Ids
      PROVE  /\ Remote[u] \in Cell /\ follows[d][u] \in Cell /\ newest[u] \in Cell
             /\ Rank(Remote[u]) <= Rank(newest[u])
             /\ Rank(follows[d][u]) <= Rank(newest[u])
             /\ out[u] = MergeCell(Remote[u], follows[d][u], FALSE)
  <2>1. Remote[u] \in Cell /\ follows[d][u] \in Cell /\ newest[u] \in Cell
    BY RemoteType DEF IInv, TypeOK, Section
  <2>2. Rank(EmptyCell) = 0
    BY DEF Rank, EmptyCell, Absent, NoGrave
  <2>3. Rank(newest[u]) \in Nat
    BY <2>1, RankNat
  <2>4. Rank(Remote[u]) <= Rank(newest[u])
    BY <2>2, <2>3 DEF Remote, EmptySection, IInv, NothingAhead
  <2>5. out[u] = MergeCell(Remote[u], follows[d][u], FALSE)
    BY DEF MergeSection
  <2> QED
    BY <2>1, <2>4, <2>5 DEF IInv, NothingAhead
<1>2. ASSUME NEW u \in Ids PROVE Rank(out[u]) <= Rank(newest[u])
  <2>1. out[u] \in {Remote[u], follows[d][u]}
    BY <1>1, MergeRank
  <2> QED
    BY <1>1, <2>1
<1>3. ASSUME NEW u \in Ids, author[u] = d, <<d, u>> \notin restored
      PROVE  out[u] = follows[d][u]
  <2>1. follows[d][u] = newest[u]
    BY <1>3, FollowsAssumption DEF IInv, AuthorHolds
  <2>2. Rank(Remote[u]) \in Nat /\ Rank(newest[u]) \in Nat
    BY <1>1, RankNat
  <2>3. Rank(Remote[u]) <= Rank(newest[u])
    BY <1>1
  <2>4. ~(Rank(Remote[u]) > Rank(follows[d][u]))
    BY <2>1, <2>2, <2>3
  <2> QED
    BY <1>1, <2>4, MergeIsNewest
<1>4. \A e \in Devices, u \in Ids :
        \/ follows'[e][u] = follows[e][u]
        \/ e = d /\ follows'[e][u] = out[u]
  BY DEF Sync, Stored, IInv, TypeOK
<1>5. doc' = out /\ UNCHANGED <<newest, author, now, file, restored>>
  BY DEF Sync, Written
<1> HIDE DEF out
<1>6. NothingAhead'
  BY <1>2, <1>4, <1>5 DEF IInv, NothingAhead
<1>7. AuthorHolds'
  <2> SUFFICES ASSUME NEW u \in Ids, author[u] # Nobody, <<author[u], u>> \notin restored
               PROVE  follows'[author[u]][u] = newest[u]
    BY <1>5 DEF AuthorHolds
  <2>1. author[u] \in Devices /\ follows[author[u]][u] = newest[u]
    BY DEF IInv, TypeOK, AuthorHolds
  <2> QED
    BY <1>3, <1>4, <2>1
<1>8. PastStamps'
  BY <1>5 DEF IInv, PastStamps
<1> QED
  BY <1>6, <1>7, <1>8 DEF IInv

\* An import brings no id above both sides ...
LEMMA RestoreRank ==
  ASSUME NEW r \in Cell, NEW l \in Cell, NEW n \in Nat, Rank(r) <= n, Rank(l) <= n
  PROVE  Rank(MergeCell(r, l, TRUE)) <= n
<1>1. /\ r.item \in Nat \union {-1} /\ l.item \in Nat \union {-1}
      /\ r.grave \in Nat /\ l.grave \in Nat
      /\ r.item = -1 \/ r.grave = 0
      /\ l.item = -1 \/ l.grave = 0
  BY DEF Cell, Absent, NoGrave
<1> DEFINE item == Later(l.item, r.item)
           grave == Later(l.grave, r.grave)
           out == MergeCell(r, l, TRUE)
<1>2. /\ item = IF l.item > r.item THEN l.item ELSE r.item
      /\ grave = IF l.grave > r.grave THEN l.grave ELSE r.grave
  BY DEF Later
<1>3. /\ out.item = item
      /\ out.grave = IF item # -1 /\ grave # 0 THEN 0 ELSE grave
  BY DEF MergeCell, Survives, Absent, NoGrave
<1> HIDE DEF item, grave, out
<1>4. Rank(out) <= n
  <2>1. CASE item # -1
    <3>1. Rank(out) = 2 * item + 1
      BY <1>3, <2>1 DEF Rank, Absent
    <3>2. CASE item = r.item
      BY <1>1, <2>1, <3>1, <3>2 DEF Rank, Absent
    <3>3. CASE item = l.item
      BY <1>1, <2>1, <3>1, <3>3 DEF Rank, Absent
    <3> QED
      BY <1>2, <3>2, <3>3
  <2>2. CASE item = -1
    <3>1. out.item = -1 /\ out.grave = grave /\ r.item = -1 /\ l.item = -1
      BY <1>1, <1>2, <1>3, <2>2
    <3>2. CASE grave = r.grave
      BY <1>1, <3>1, <3>2 DEF Rank, Absent, NoGrave
    <3>3. CASE grave = l.grave
      BY <1>1, <3>1, <3>3 DEF Rank, Absent, NoGrave
    <3> QED
      BY <1>2, <3>2, <3>3
  <2> QED
    BY <2>1, <2>2
<1> QED
  BY <1>4 DEF out

\* ... and leaves a copy that outranks the file's alone, but for undoing its
\* tombstone.
LEMMA RestoreLeaves ==
  ASSUME NEW r \in Cell, NEW l \in Cell, Rank(r) <= Rank(l),
         l.grave # NoGrave => MergeCell(r, l, TRUE).item = Absent
  PROVE  MergeCell(r, l, TRUE) = l
<1>1. /\ r.item \in Nat \union {-1} /\ l.item \in Nat \union {-1}
      /\ r.grave \in Nat /\ l.grave \in Nat
      /\ r.item = -1 \/ r.grave = 0
      /\ l.item = -1 \/ l.grave = 0
      /\ l = [item |-> l.item, grave |-> l.grave]
  BY DEF Cell, Absent, NoGrave
<1> DEFINE item == Later(l.item, r.item)
           grave == Later(l.grave, r.grave)
           out == MergeCell(r, l, TRUE)
<1>2. /\ item = IF l.item > r.item THEN l.item ELSE r.item
      /\ grave = IF l.grave > r.grave THEN l.grave ELSE r.grave
  BY DEF Later
<1>3. out = IF item # -1 /\ grave # 0
            THEN [item |-> item, grave |-> 0]
            ELSE [item |-> item, grave |-> grave]
  BY DEF MergeCell, Survives, Absent, NoGrave
<1>0. l.grave # 0 => out.item = -1
  BY DEF Absent, NoGrave
<1> HIDE DEF item, grave, out
<1>4. ASSUME l.item # -1 PROVE out = l
  <2>1. Rank(l) = 2 * l.item + 1 /\ l.grave = 0
    BY <1>1, <1>4 DEF Rank, Absent
  <2>2. r.item # -1 => Rank(r) = 2 * r.item + 1
    BY DEF Rank, Absent
  <2>3. item = l.item
    BY <1>1, <1>2, <1>4, <2>1, <2>2
  <2>4. item # -1 /\ grave # 0 => out = l
    BY <1>1, <1>3, <2>1, <2>3
  <2>5. grave = 0 => out = l
    BY <1>1, <1>3, <2>1, <2>3
  <2> QED
    BY <1>4, <2>3, <2>4, <2>5
<1>5. ASSUME l.item = -1 PROVE out = l
  <2>1. item = -1 /\ r.item = -1
    <3>1. CASE l.grave # 0
      <4>1. out.item = item
        <5>1. CASE item # -1 /\ grave # 0
          BY <1>3, <5>1
        <5>2. CASE ~(item # -1 /\ grave # 0)
          BY <1>3, <5>2
        <5> QED
          BY <5>1, <5>2
      <4>2. item = -1
        BY <1>0, <3>1, <4>1
      <4> QED
        BY <1>1, <1>2, <1>5, <4>2
    <3>2. CASE l.grave = 0
      <4>1. Rank(l) = 0
        BY <1>5, <3>2 DEF Rank, Absent, NoGrave
      <4>2. r.item = -1
        BY <1>1, <4>1 DEF Rank, Absent
      <4> QED
        BY <1>1, <1>2, <1>5, <4>2
    <3> QED
      BY <3>1, <3>2
  <2>2. r.grave <= l.grave
    BY <1>1, <1>5, <2>1 DEF Rank, Absent, NoGrave
  <2>3. grave = l.grave
    BY <1>1, <1>2, <2>2
  <2> QED
    BY <1>1, <1>3, <1>5, <2>1, <2>3
<1> QED
  BY <1>4, <1>5 DEF out

LEMMA RestoreKeeps ==
  ASSUME IInv, TypeOK', NEW d \in Devices, NEW part \in Section, Restore(d, part),
         \A u \in Ids : Rank(part[u]) <= Rank(newest[u])
  PROVE  IInv'
<1> DEFINE out == MergeSection(part, follows[d], TRUE)
<1>1. ASSUME NEW u \in Ids
      PROVE  /\ part[u] \in Cell /\ follows[d][u] \in Cell
             /\ Rank(newest[u]) \in Nat
             /\ Rank(follows[d][u]) <= Rank(newest[u])
             /\ out[u] = MergeCell(part[u], follows[d][u], TRUE)
  <2>1. part[u] \in Cell /\ follows[d][u] \in Cell /\ newest[u] \in Cell
    BY DEF IInv, TypeOK, Section
  <2> QED
    BY <2>1, RankNat DEF IInv, NothingAhead, MergeSection
<1>2. ASSUME NEW u \in Ids PROVE Rank(out[u]) <= Rank(newest[u])
  BY <1>1, RestoreRank
<1>3. ASSUME NEW u \in Ids, author[u] = d, <<d, u>> \notin restored'
      PROVE  follows[d][u] = newest[u] /\ out[u] = follows[d][u]
  <2>1. <<d, u>> \notin restored
    BY <1>3 DEF Restore
  <2>2. follows[d][u] = newest[u]
    BY <1>3, <2>1, FollowsAssumption DEF IInv, AuthorHolds
  <2>3. follows[d][u].grave # NoGrave => u \notin Held(out)
    BY <1>3 DEF Restore
  <2>4. follows[d][u].grave # NoGrave => out[u].item = Absent
    BY <2>3 DEF Held
  <2> QED
    BY <1>1, <2>2, <2>4, RestoreLeaves
<1>4. \A e \in Devices, u \in Ids :
        \/ follows'[e][u] = follows[e][u]
        \/ e = d /\ follows'[e][u] = out[u]
  BY DEF Restore, Stored, IInv, TypeOK
<1>5. UNCHANGED <<newest, author, now, file, doc>> /\ restored \subseteq restored'
  BY DEF Restore
<1> HIDE DEF out
<1>6. NothingAhead'
  BY <1>2, <1>4, <1>5 DEF IInv, NothingAhead
<1>7. AuthorHolds'
  <2> SUFFICES ASSUME NEW u \in Ids, author[u] # Nobody, <<author[u], u>> \notin restored'
               PROVE  follows'[author[u]][u] = newest[u]
    BY <1>5 DEF AuthorHolds
  <2>1. author[u] \in Devices /\ follows[author[u]][u] = newest[u]
    BY <1>5 DEF IInv, TypeOK, AuthorHolds
  <2> QED
    BY <1>3, <1>4, <2>1
<1>8. PastStamps'
  BY <1>5 DEF IInv, PastStamps
<1> QED
  BY <1>6, <1>7, <1>8 DEF IInv

\* Where no two ids are spellings of one user, the outcome of the latest edit
\* of every user stands on the device that made it: no pass of any device, in
\* any order, over any document, undoes it there, and no import of any backup
\* file does, but for an unfollow it is asked to undo on that very device.
THEOREM FollowsAuthorHolds ==
  ASSUME \A u, v \in Ids : Fold[u] = Fold[v] => u = v
  PROVE  Spec => [](AuthorHolds /\ NothingAhead)
<1>1. Init => IInv
  <2> SUFFICES ASSUME Init PROVE IInv
    OBVIOUS
  <2>1. TypeOK
    BY EmptyIsSection, FollowsAssumption DEF Init, TypeOK
  <2>2. PastStamps
    BY DEF Init, PastStamps, EmptySection, EmptyCell, Absent, NoGrave
  <2>3. Rank(EmptyCell) = 0
    BY DEF Rank, EmptyCell, Absent, NoGrave
  <2>4. NothingAhead
    BY <2>3 DEF Init, NothingAhead, EmptySection
  <2>5. AuthorHolds
    BY DEF Init, AuthorHolds
  <2> QED
    BY <2>1, <2>2, <2>4, <2>5 DEF IInv
<1>2. IInv /\ [Next]_vars => IInv'
  <2> SUFFICES ASSUME IInv, [Next]_vars PROVE IInv'
    OBVIOUS
  <2>1. TypeOK'
    BY TypeStep DEF IInv
  <2>2. CASE Edit
    BY <2>1, <2>2, FollowKeeps, UnfollowKeeps DEF Edit
  <2>3. CASE \E d \in Devices : Sync(d, TRUE) \/ Sync(d, FALSE)
    BY <2>1, <2>3, SyncKeeps
  <2>4. CASE \E d \in Devices : Restore(d, doc) \/ Restore(d, file)
    BY <2>1, <2>4, RestoreKeeps DEF IInv, TypeOK, NothingAhead
  <2>5. CASE \E d \in Devices : Export(d)
    <3>1. PICK d \in Devices : Export(d)
      BY <2>5
    <3>2. file' = follows[d] /\ UNCHANGED <<follows, doc, newest, author, now, restored>>
      BY <3>1 DEF Export
    <3> QED
      BY <2>1, <3>2 DEF IInv, PastStamps, NothingAhead, AuthorHolds
  <2>6. CASE Lose \/ UNCHANGED vars
    <3>1. UNCHANGED <<follows, doc, file, newest, author, now, restored>>
      BY <2>6 DEF Lose, vars
    <3> QED
      BY <2>1, <3>1 DEF IInv, PastStamps, NothingAhead, AuthorHolds
  <2> QED
    BY <2>2, <2>3, <2>4, <2>5, <2>6 DEF Next
<1>3. IInv => AuthorHolds /\ NothingAhead
  BY DEF IInv
<1> QED
  BY <1>1, <1>2, <1>3, PTL DEF Spec

\* What the follows keep at every step, for every number of devices and users
\* with one spelling each.
THEOREM FollowsSafety ==
  ASSUME \A u, v \in Ids : Fold[u] = Fold[v] => u = v
  PROVE  Spec => []FollowsSafe
<1>1. Spec => []TypeOK
  BY FollowsType
<1>2. Spec => [](AuthorHolds /\ NothingAhead)
  BY FollowsAuthorHolds
<1> QED
  BY <1>1, <1>2, PTL DEF FollowsSafe
=============================================================================
