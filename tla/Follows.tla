------------------------------- MODULE Follows -------------------------------
(***************************************************************************)
(* The followed users of several devices and the section of the document   *)
(* they share (internal/follows).  Each device has its own store; a pass   *)
(* merges the document into the store under the store's lock and writes    *)
(* the union back.  Here a pass is one step: what happens between reading  *)
(* and writing the file is the business of FolderSync.                     *)
(*                                                                         *)
(* Ids are numbers in the order of their bytes, the order a merged list is *)
(* stored in; Fold maps an id to its case-folded form, so two ids that     *)
(* strings.EqualFold equates have the same image.                          *)
(***************************************************************************)
EXTENDS Tombstones, FiniteSets

CONSTANTS Devices, Ids, Fold,
          Nobody,       \* no device
          MaxClock,     \* bound on the number of edits, each at its own moment
          MaxRestores,  \* bound on the explicit imports of a backup file
          MaxLosses     \* bound on how often the document becomes unreadable

ASSUME FollowsAssumption ==
  /\ Ids \subseteq Nat
  /\ Nobody \notin Devices
  /\ Fold \in [Ids -> Ids]
  /\ MaxClock \in Nat
  /\ MaxRestores \in Nat
  /\ MaxLosses \in Nat

\* A stored list is finite: ids that match have a last one.
ASSUME IdsAssumption ==
  \A S \in SUBSET Ids : S # {} => \E v \in S : \A w \in S : w <= v

VARIABLES
  follows,   \* follows[d]: the section device d stores
  dirty,     \* dirty[d]: the store changed since the last pass
  doc,       \* the follows section of the shared document
  readable,  \* the document parses
  file,      \* the section of a backup file the user exported
  now,       \* the moment of the latest edit
  restores, losses,  \* how many imports and losses happened
  newest,    \* history: newest[u] is the cell the latest edit of u wrote
  author,    \* history: the device of that edit
  restored   \* history: <<d, u>> whose unfollow an import undid, not edited since

vars == <<follows, dirty, doc, readable, file, now, restores, losses,
          newest, author, restored>>

Section == [Ids -> Cell]
EmptySection == [u \in Ids |-> EmptyCell]
Held(section) == {u \in Ids : section[u].item # Absent}

TypeOK ==
  /\ follows \in [Devices -> Section]
  /\ dirty \in [Devices -> BOOLEAN]
  /\ doc \in Section
  /\ readable \in BOOLEAN
  /\ file \in Section
  /\ now \in 0 .. MaxClock
  /\ restores \in 0 .. MaxRestores
  /\ losses \in 0 .. MaxLosses
  /\ newest \in Section
  /\ author \in [Ids -> Devices \union {Nobody}]
  /\ restored \subseteq Devices \X Ids

Init ==
  /\ follows = [d \in Devices |-> EmptySection]
  /\ dirty = [d \in Devices |-> FALSE]
  /\ doc = EmptySection
  /\ readable = TRUE
  /\ file = EmptySection
  /\ now = 0
  /\ restores = 0
  /\ losses = 0
  /\ newest = EmptySection
  /\ author = [u \in Ids |-> Nobody]
  /\ restored = {}

-----------------------------------------------------------------------------
(* The user's edits                                                        *)

SameUser(u, v) == Fold[u] = Fold[v]

\* The cell of a user who is followed at the given moment: the tombstone of
\* the very id is dropped.
EntryCell(cell, at) == [item |-> at, grave |-> NoGrave]

\* Follow on d.  A user already followed, in any case, changes nothing.
Follow(d, u) ==
  LET entry == EntryCell(follows[d][u], now + 1)
  IN  /\ now < MaxClock
      /\ ~ \E v \in Held(follows[d]) : SameUser(u, v)
      /\ follows' = [follows EXCEPT ![d] = [@ EXCEPT ![u] = entry]]
      /\ dirty' = [dirty EXCEPT ![d] = TRUE]
      /\ now' = now + 1
      /\ newest' = [newest EXCEPT ![u] = [item |-> now + 1, grave |-> NoGrave]]
      /\ author' = [author EXCEPT ![u] = d]
      /\ restored' = {r \in restored : r[2] # u}
      /\ UNCHANGED <<doc, readable, file, restores, losses>>

\* The id Unfollow buries: the last match of the stored list, or the id it
\* was given when the list holds no match.
Buried(section, u) ==
  LET matches == {v \in Held(section) : SameUser(u, v)}
  IN  IF matches = {} THEN u
      ELSE CHOOSE v \in matches : \A w \in matches : w <= v

\* The section after Unfollow at the given moment: every match is dropped,
\* one of them gets the tombstone.
UnfollowForgets(section, u, at) ==       \* mutated: no tombstone
  [v \in Ids |-> IF SameUser(u, v) THEN EmptyCell ELSE section[v]]
Unfollowed(section, u, at) ==
  [v \in Ids |->
     [item  |-> IF SameUser(u, v) THEN Absent ELSE section[v].item,
      grave |-> IF v = Buried(section, u) THEN at ELSE section[v].grave]]

Unfollow(d, u) ==
  LET gone == {v \in Held(follows[d]) : SameUser(u, v)} \union {Buried(follows[d], u)}
  IN
  /\ now < MaxClock
  /\ follows' = [follows EXCEPT ![d] = Unfollowed(@, u, now + 1)]
  /\ dirty' = [dirty EXCEPT ![d] = TRUE]
  /\ now' = now + 1
  /\ newest' = [v \in Ids |-> IF v \in gone THEN [item |-> Absent, grave |-> now + 1]
                              ELSE newest[v]]
  /\ author' = [v \in Ids |-> IF v \in gone THEN d ELSE author[v]]
  /\ restored' = {r \in restored : ~SameUser(u, r[2])}
  /\ UNCHANGED <<doc, readable, file, restores, losses>>

-----------------------------------------------------------------------------
(* Reconciliation                                                          *)

MergeSection(remote, local, restore) ==
  [u \in Ids |-> MergeCell(remote[u], local[u], restore)]

\* The store is only written when the merge gains or loses a user.
Stored(local, out) == IF Held(local) = Held(out) THEN local ELSE out

\* A document that does not parse is rebuilt from the store.
Remote == IF readable THEN doc ELSE EmptySection

\* What the pass writes back: the union.
WrittenLocal(d) == follows[d]            \* mutated: the store alone
Written(d) == MergeSection(Remote, follows[d], FALSE)

\* A background pass of d; with the import switch off the store keeps its
\* own users and only the document takes the union.
Sync(d, import) ==
  LET out == MergeSection(Remote, follows[d], FALSE)
  IN  /\ follows' = IF import THEN [follows EXCEPT ![d] = Stored(@, out)] ELSE follows
      /\ dirty' = [dirty EXCEPT ![d] = FALSE]
      /\ doc' = Written(d)
      /\ readable' = TRUE
      /\ UNCHANGED <<file, now, restores, losses, newest, author, restored>>

\* ImportBackup (the exported file) and SyncReload (the document itself).
Restore(d, part) ==
  LET out == MergeSection(part, follows[d], TRUE)
      undone == {u \in Held(out) : follows[d][u].grave # NoGrave}
  IN  /\ restores < MaxRestores
      /\ restores' = restores + 1
      /\ follows' = [follows EXCEPT ![d] = Stored(@, out)]
      /\ dirty' = [dirty EXCEPT ![d] = @ \/ Held(out) # Held(follows[d])]
      /\ restored' = restored \union ({d} \X undone)
      /\ UNCHANGED <<doc, readable, file, now, losses, newest, author>>

\* The user exports a backup file (only worth a step if one can be imported).
Export(d) ==
  /\ restores < MaxRestores
  /\ file' = follows[d]
  /\ UNCHANGED <<follows, dirty, doc, readable, now, restores, losses,
                 newest, author, restored>>

\* A half-uploaded copy: the document stops parsing.
Lose ==
  /\ losses < MaxLosses
  /\ losses' = losses + 1
  /\ readable' = FALSE
  /\ UNCHANGED <<follows, dirty, doc, file, now, restores, newest, author, restored>>

Edit == \E d \in Devices, u \in Ids : Follow(d, u) \/ Unfollow(d, u)

Next ==
  \/ Edit
  \/ \E d \in Devices : Sync(d, TRUE)
  \/ \E d \in Devices : Sync(d, FALSE)
  \/ \E d \in Devices : readable /\ Restore(d, doc)
  \/ \E d \in Devices : Restore(d, file)
  \/ \E d \in Devices : Export(d)
  \/ Lose

Spec == Init /\ [][Next]_vars

\* Edits are the user's; a device that syncs keeps syncing (the interval of
\* syncTicker), with the import switch on.
FairSpec == Spec /\ \A d \in Devices : WF_vars(Sync(d, TRUE))

-----------------------------------------------------------------------------
(* Properties                                                              *)

\* The device of the latest edit of a user holds its outcome: no pass of any
\* device, in any order, undoes it, no import does but for an unfollow it is
\* asked to undo there, and a document that is lost is rebuilt from it (the
\* rule of mergeSection with the store applied before the file).
AuthorHolds ==
  \A u \in Ids :
    author[u] # Nobody /\ <<author[u], u>> \notin restored
      => follows[author[u]][u] = newest[u]

\* What the follows keep at every step, whatever is synced, imported or lost.
FollowsSafe == TypeOK /\ AuthorHolds

\* Nothing anywhere is newer than the latest edit, so what the devices agree
\* on in the end is what the last edit of each user said.
NothingAhead ==
  \A u \in Ids :
    /\ Rank(doc[u]) <= Rank(newest[u])
    /\ Rank(file[u]) <= Rank(newest[u])
    /\ \A d \in Devices : Rank(follows[d][u]) <= Rank(newest[u])

\* A pass never takes a record out of the document that is newer than what it
\* writes: the write is the union (backup.Sync: "Newer copies win").
DocumentGrows ==
  [][readable => \A u \in Ids : Rank(doc'[u]) >= Rank(doc[u])]_vars

\* Once edits stop every device follows the same users, the ones whose latest
\* edit was a Follow ("reconciliation that keeps the copies converging",
\* internal/backup/document.go), as long as no import puts older follows back.
Converges ==
  <>[](restores = 0 => \A d \in Devices : Held(follows[d]) = Held(newest))

\* Every copy agrees in the end, whoever's import or edit came last.
Agrees == <>[](\A d \in Devices : Held(follows[d]) = Held(doc))

\* A follow travels: every copy ends up with the same users, the ones of the
\* latest edits unless an import brought older ones back.
FollowsAgree == Converges /\ Agrees
=============================================================================
