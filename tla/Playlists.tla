------------------------------ MODULE Playlists ------------------------------
(***************************************************************************)
(* The playlists of several devices and the section of the document they   *)
(* share (internal/playlists).  A device keeps one record per playlist, an *)
(* index that lists them and the tombstones of the deleted ones, each      *)
(* under a key of its own, so an operation is a sequence of writes made    *)
(* under the lock of the service.  The operation happens whole, or it is   *)
(* cut short after some of its writes by a crash or by a write that fails: *)
(* an operation is the stores it passes through and the one it ends with.  *)
(*                                                                         *)
(* A pass merges the document into the store and writes the union back;    *)
(* what other devices do to the file meanwhile is FolderSync's business.   *)
(*                                                                         *)
(* Ids are record ids (storedId maps every id of a file to one), numbers   *)
(* in the order the merged items are sorted in.  The metadata of a song is *)
(* either known or not.                                                    *)
(***************************************************************************)
EXTENDS Integers, FiniteSets, SequencesExt

CONSTANTS Devices, Ids, Names, Refs,
          Nobody,        \* no device
          Legacy,        \* playlists the first document lists untimed and bare
          Deleting,      \* whether users delete playlists
          Ties,          \* whether two edits may share a millisecond
          MaxEdits, MaxCuts, MaxRestores

ASSUME PlaylistsAssumption ==
  /\ Ids \subseteq Nat
  /\ Nobody \notin Devices
  /\ Names # {} /\ Refs # {} /\ IsFiniteSet(Refs)
  /\ Legacy \subseteq Ids
  /\ Deleting \in BOOLEAN /\ Ties \in BOOLEAN
  /\ MaxEdits \in Nat /\ MaxCuts \in Nat /\ MaxRestores \in Nat

VARIABLES
  store,     \* store[d]: the records, the index and the tombstones of d
  dirty,     \* dirty[d]: something is left to write to the document
  doc,       \* the playlists section of the document
  file,      \* the section of a backup file the user exported
  born,      \* the ids some device created
  now,       \* the moment of the latest edit
  edits, cuts, restores,  \* how many of each happened
  last       \* history: last[i] is the latest edit of i

vars == <<store, dirty, doc, file, born, now, edits, cuts, restores, last>>

NoGrave == 0
Stamps == 0 .. MaxEdits
Partial(D, R) == UNION {[S -> R] : S \in SUBSET D}
SongLists == {s \in UNION {[1 .. n -> Refs] : n \in 0 .. Cardinality(Refs)} : IsInjective(s)}
Playlist == [name : Names, songs : SongLists, tracks : SUBSET Refs, at : Stamps]
Section == [items : Partial(Ids, Playlist), graves : [Ids -> Stamps]]
Store == [records : Partial(Ids, Playlist), index : SUBSET Ids, graves : [Ids -> Stamps]]
Untouched == [by |-> Nobody, gone |-> FALSE, at |-> 0]

NoGraves == [i \in Ids |-> NoGrave]
NoItems == [i \in {} |-> {}]
EmptyStore == [records |-> NoItems, index |-> {}, graves |-> NoGraves]

\* The first document: empty, or from before stamps and metadata.
LegacyPlaylist(n, r) == [name |-> n, songs |-> <<r>>, tracks |-> {}, at |-> 0]

Init ==
  /\ store = [d \in Devices |-> EmptyStore]
  /\ dirty = [d \in Devices |-> FALSE]
  /\ \E n \in Names, r \in Refs :
       doc = [items |-> [i \in Legacy |-> LegacyPlaylist(n, r)], graves |-> NoGraves]
  /\ file = [items |-> NoItems, graves |-> NoGraves]
  /\ born = Legacy
  /\ now = 0 /\ edits = 0 /\ cuts = 0 /\ restores = 0
  /\ last = [i \in Ids |-> Untouched]

-----------------------------------------------------------------------------
(* The writes of an operation                                              *)

Put(s, i, p) ==
  [s EXCEPT !.records = [j \in DOMAIN @ \union {i} |-> IF j = i THEN p ELSE @[j]]]
Drop(s, i) == [s EXCEPT !.records = [j \in DOMAIN @ \ {i} |-> @[j]]]
Enlist(s, i) == [s EXCEPT !.index = @ \union {i}]
Delist(s, i) == [s EXCEPT !.index = @ \ {i}]
Bury(s, i, t) == [s EXCEPT !.graves[i] = t]

\* The operation runs to its end.
Completes(d, writes) == store' = [store EXCEPT ![d] = writes.end]

\* The operation stops after some of its writes: the process died, and with
\* it the dirty mark, or a write failed and the operation answered its error
\* with the mark as it stood.
Stops(d, writes, mark) ==
  /\ cuts < MaxCuts
  /\ cuts' = cuts + 1
  /\ \E s \in writes.through \union {writes.end} : store' = [store EXCEPT ![d] = s]
  /\ \E m \in {FALSE, mark} : dirty' = [dirty EXCEPT ![d] = m]

\* What a page can open: the index is read, and a playlist without a record skipped.
Listed(d) == store[d].index \intersect DOMAIN store[d].records

-----------------------------------------------------------------------------
(* The user's edits                                                        *)

\* An edit is stamped with the clock, which may not have moved since the last.
Edited(t) ==
  /\ edits < MaxEdits
  /\ edits' = edits + 1
  /\ t \in {now + 1} \union (IF Ties /\ now > 0 THEN {now} ELSE {})
  /\ now' = t

Remembered(d, i, t, gone) ==
  last' = [last EXCEPT ![i] = [by |-> d, gone |-> gone, at |-> t]]

\* Create saves the record and then lists it; the id is random.
Empty(n, t) == [name |-> n, songs |-> <<>>, tracks |-> {}, at |-> t]
CreateWritesIndexFirst(s, i, n, t) ==                  \* mutated
  [through |-> {s, Enlist(s, i)}, end |-> Put(Enlist(s, i), i, Empty(n, t))]
CreateWrites(s, i, n, t) ==
  [through |-> {s, Put(s, i, Empty(n, t))}, end |-> Enlist(Put(s, i, Empty(n, t)), i)]

Create(d, i, n, t) ==
  /\ i \notin born
  /\ born' = born \union {i}
  /\ Edited(t)
  /\ Remembered(d, i, t, FALSE)
  /\ \/ /\ Completes(d, CreateWrites(store[d], i, n, t))
        /\ dirty' = [dirty EXCEPT ![d] = TRUE]
        /\ UNCHANGED cuts
     \/ Stops(d, CreateWrites(store[d], i, n, t), TRUE)
  /\ UNCHANGED <<doc, file, restores>>

\* Delete takes the playlist off the index, buries it and drops the record.
DeleteWrites(s, i, t) ==
  LET delisted == Delist(s, i)
      buried == Bury(delisted, i, t)
  IN  [through |-> {s, delisted, buried}, end |-> Drop(buried, i)]

Delete(d, i, t) ==
  /\ Deleting
  /\ i \in Listed(d)
  /\ Edited(t)
  /\ Remembered(d, i, t, TRUE)
  /\ \/ /\ Completes(d, DeleteWrites(store[d], i, t))
        /\ dirty' = [dirty EXCEPT ![d] = TRUE]
        /\ UNCHANGED cuts
     \/ Stops(d, DeleteWrites(store[d], i, t), TRUE)
  /\ UNCHANGED <<doc, file, born, restores>>

\* The edits of one record: what each may make of it, before it is stamped.
Renamed(p) == {[p EXCEPT !.name = n] : n \in Names}

\* New songs go to the end, and the metadata of all that were asked for is kept.
Grown(songs) == {s \in SongLists : IsPrefix(songs, s)}
Asked(s, songs) == {refs \in SUBSET ToSet(s) \ {{}} : ToSet(s) \ ToSet(songs) \subseteq refs}
Added(p) ==
  UNION {{[p EXCEPT !.songs = s, !.tracks = @ \union refs] : refs \in Asked(s, p.songs)}
           : s \in Grown(p.songs)}

\* The songs that stay keep their order.
InOrder(s, songs) ==
  \A j, k \in DOMAIN s : j < k => \E a, b \in DOMAIN songs :
    a < b /\ s[j] = songs[a] /\ s[k] = songs[b]
Left(songs, refs) == {s \in SongLists : ToSet(s) = ToSet(songs) \ refs /\ InOrder(s, songs)}
Removed(p) ==
  UNION {{[p EXCEPT !.songs = s, !.tracks = @ \ refs] : s \in Left(p.songs, refs)}
           : refs \in SUBSET Refs \ {{}}}

\* An order keeps the songs it names, and the metadata of the others.
Reordered(p) == {[p EXCEPT !.songs = s] : s \in {s \in SongLists : ToSet(s) \subseteq ToSet(p.songs)}}

Outcomes(p) == Renamed(p) \union Added(p) \union Removed(p) \union Reordered(p)

\* The write of one record.
Saves(d, i, p) == Completes(d, [through |-> {}, end |-> Put(store[d], i, p)])

\* Rename, AddSongs, RemoveSongs and Reorder of a listed playlist.
Edit(d, i, t) ==
  /\ i \in Listed(d)
  /\ Edited(t)
  /\ Remembered(d, i, t, FALSE)
  /\ \E p \in Outcomes(store[d].records[i]) : Saves(d, i, [p EXCEPT !.at = t])
  /\ dirty' = [dirty EXCEPT ![d] = TRUE]
  /\ UNCHANGED <<doc, file, born, cuts, restores>>

\* The same from a page that still shows a playlist the store dropped: the
\* mark is set before the record is found missing.
EditGone(d, i) ==
  /\ i \in born /\ i \notin DOMAIN store[d].records
  /\ dirty' = [dirty EXCEPT ![d] = TRUE]
  /\ UNCHANGED <<store, doc, file, born, now, edits, cuts, restores, last>>

\* GetFullPlaylist and hydrate: metadata resolved for songs that had none.
RememberTracks(d, i) ==
  /\ i \in Listed(d)
  /\ LET p == store[d].records[i]
         bare == ToSet(p.songs) \ p.tracks
     IN  \E known \in SUBSET bare \ {{}} : Saves(d, i, [p EXCEPT !.tracks = @ \union known])
  /\ dirty' = [dirty EXCEPT ![d] = TRUE]
  /\ UNCHANGED <<doc, file, born, now, edits, cuts, restores, last>>

-----------------------------------------------------------------------------
(* The document                                                            *)

\* The section as it is written: the metadata of a song once for the whole
\* document, and only of songs some playlist lists ...
Marshalled(section) ==
  LET items == section.items
  IN  [items  |-> [i \in DOMAIN items |-> [items[i] EXCEPT !.tracks = {}]],
       songs  |-> UNION {items[i].tracks \intersect ToSet(items[i].songs) : i \in DOMAIN items},
       graves |-> section.graves]

\* ... and as it reads back.
Unmarshalled(wire) ==
  [items  |-> [i \in DOMAIN wire.items |->
                 [wire.items[i] EXCEPT !.tracks = ToSet(wire.items[i].songs) \intersect wire.songs]],
   graves |-> wire.graves]

Wire(section) == Unmarshalled(Marshalled(section))

Local(s) == [i \in s.index \intersect DOMAIN s.records |-> s.records[i]]

ExportSection(s) == Wire([items |-> Local(s), graves |-> s.graves])

-----------------------------------------------------------------------------
(* The reconciliation rule                                                 *)

\* Whether the remote copy replaces the local one.
Wins(remote, local) ==
  \/ remote.at > local.at
  \/ /\ remote.at = local.at /\ remote.at = 0
     /\ local.songs = <<>> /\ remote.songs # <<>>

MergeTracksBase(base, extra) == base     \* mutated
MergeTracks(base, extra) == base \union extra

LatestGrave(remote, graves, i) ==
  IF remote.graves[i] > graves[i] THEN remote.graves[i] ELSE graves[i]

\* Whether a remote item may come back: it is buried nowhere, it is newer than
\* its tombstone, or the user asked for it.
RisesAlways(remote, graves, restore, i) == TRUE      \* mutated
Rises(remote, graves, restore, i) ==
  LET grave == LatestGrave(remote, graves, i)
  IN  \/ grave = NoGrave
      \/ restore
      \/ remote.items[i].at > grave

Risen(remote, graves, restore) ==
  {i \in DOMAIN remote.items : Rises(remote, graves, restore, i)}

MergeItem(remote, local) ==
  LET winner == IF Wins(remote, local) THEN remote ELSE local
  IN  [winner EXCEPT !.tracks = MergeTracks(local.tracks, remote.tracks)]

MergeDocument(remote, local, graves, restore) ==
  LET risen == Risen(remote, graves, restore)
  IN  [items  |-> [i \in DOMAIN local \union risen |->
                     IF i \notin risen THEN local[i]
                     ELSE IF i \notin DOMAIN local THEN remote.items[i]
                     ELSE MergeItem(remote.items[i], local[i])],
       graves |-> [i \in Ids |-> IF i \in risen THEN NoGrave
                                 ELSE LatestGrave(remote, graves, i)]]

\* Whether the merge changed the tombstones.
Buried(remote, graves, restore) ==
  \/ \E i \in Ids : remote.graves[i] > graves[i]
  \/ \E i \in Risen(remote, graves, restore) : LatestGrave(remote, graves, i) # NoGrave

\* How an agreed item is saved: a record that exists is brought up to date.
Agreed(s, i, p) ==
  IF i \in DOMAIN s.records
  THEN [(IF Wins(p, s.records[i]) THEN p ELSE s.records[i])
          EXCEPT !.tracks = MergeTracks(s.records[i].tracks, p.tracks)]
  ELSE p

\* The store once the items of "saved" are saved and those of "listed" that had
\* no record are listed.
AppliedUnlisted(s, items, saved, listed) ==            \* mutated
  [s EXCEPT !.records = [i \in DOMAIN @ \union saved |->
                           IF i \in saved THEN Agreed(s, i, items[i]) ELSE @[i]]]
Applied(s, items, saved, listed) ==
  [s EXCEPT !.records = [i \in DOMAIN @ \union saved |->
                           IF i \in saved THEN Agreed(s, i, items[i]) ELSE @[i]],
            !.index = @ \union (listed \ DOMAIN s.records)]

\* The items are applied one after the other, each saved and then listed, and
\* the tombstones written last.
ApplyMerge(s, out, buried) ==
  LET items == out.items
      upTo(k) == {i \in DOMAIN items : i <= k}
      whole == Applied(s, items, DOMAIN items, DOMAIN items)
  IN  [through |-> {s, whole}
                     \union {Applied(s, items, upTo(k), upTo(k)) : k \in DOMAIN items}
                     \union {Applied(s, items, upTo(k), upTo(k - 1)) : k \in DOMAIN items},
       end |-> IF buried THEN [whole EXCEPT !.graves = out.graves] ELSE whole]

-----------------------------------------------------------------------------
(* Passes and restores                                                     *)

\* A background pass of d: the union goes to the store, unless importing is
\* off, and to the document.
Sync(d, import) ==
  LET out == MergeDocument(doc, Local(store[d]), store[d].graves, FALSE)
      buried == Buried(doc, store[d].graves, FALSE)
      writes == IF import THEN ApplyMerge(store[d], out, buried)
                ELSE [through |-> {}, end |-> store[d]]
  IN  /\ \/ /\ Completes(d, writes)
            /\ dirty' = [dirty EXCEPT ![d] = FALSE]
            /\ doc' = Wire(out)
            /\ UNCHANGED cuts
         \/ Stops(d, writes, dirty[d]) /\ UNCHANGED doc
      /\ UNCHANGED <<file, born, now, edits, restores, last>>

\* ImportBackup (an exported file) and SyncReload (the document itself).
Restore(d, part) ==
  LET out == MergeDocument(part, Local(store[d]), store[d].graves, TRUE)
      buried == Buried(part, store[d].graves, TRUE)
      writes == ApplyMerge(store[d], out, buried)
  IN  /\ restores < MaxRestores
      /\ restores' = restores + 1
      /\ \/ /\ Completes(d, writes)
            /\ dirty' = [dirty EXCEPT ![d] = @ \/ writes.end # store[d]]
            /\ UNCHANGED cuts
         \/ Stops(d, writes, dirty[d])
      /\ UNCHANGED <<doc, file, born, now, edits, last>>

\* The user exports a backup file (only worth a step if one can be imported).
Export(d) ==
  /\ restores < MaxRestores
  /\ file' = ExportSection(store[d])
  /\ UNCHANGED <<store, dirty, doc, born, now, edits, cuts, restores, last>>

Next ==
  \/ \E d \in Devices, i \in Ids, t \in Stamps :
       \/ \E n \in Names : Create(d, i, n, t)
       \/ Delete(d, i, t)
       \/ Edit(d, i, t)
  \/ \E d \in Devices, i \in Ids : EditGone(d, i) \/ RememberTracks(d, i)
  \/ \E d \in Devices, import \in BOOLEAN : Sync(d, import)
  \/ \E d \in Devices : Restore(d, doc) \/ Restore(d, file) \/ Export(d)

Spec == Init /\ [][Next]_vars

\* Edits are the user's; a device that syncs keeps syncing (the interval of
\* syncTicker), with the import switch on, and its passes are not all cut.
FairSpec == Spec /\ \A d \in Devices : WF_vars(Sync(d, TRUE))

-----------------------------------------------------------------------------
(* Properties                                                              *)

TypeOK ==
  /\ store \in [Devices -> Store]
  /\ dirty \in [Devices -> BOOLEAN]
  /\ doc \in Section
  /\ file \in Section
  /\ born \subseteq Ids
  /\ now \in Stamps /\ edits \in Stamps
  /\ cuts \in 0 .. MaxCuts /\ restores \in 0 .. MaxRestores
  /\ last \in [Ids -> [by : Devices \union {Nobody}, gone : BOOLEAN, at : Stamps]]

\* Types; and wherever an operation stops, what the index lists can be opened: Create and
\* applyMerge save the record before listing it, Delete drops it after.
Loads(s) == s.index \subseteq DOMAIN s.records
ListsSafe == TypeOK /\ \A d \in Devices : Loads(store[d])

\* The device of the latest edit of a playlist holds its outcome: no pass, in
\* any order, brings back what it deleted or undoes what it changed
\* ("a background sync: newer copies win and a tombstone keeps a deletion"),
\* as long as no import undoes edits and no operation is cut.
AuthorHolds ==
  \A i \in Ids : last[i].by # Nobody /\ restores = 0 /\ cuts = 0 =>
    LET s == store[last[i].by]
    IN  IF last[i].gone THEN i \notin s.index
        ELSE i \in s.index /\ s.records[i].at = last[i].at

\* What the document stands by for a playlist: the stamp of its copy, or that of
\* the tombstone it lies under.
Standing(section, i) ==
  IF i \in DOMAIN section.items /\ section.items[i].at > section.graves[i]
  THEN section.items[i].at ELSE section.graves[i]

\* No pass of any device takes that back ("newer copies win and a tombstone
\* keeps a deletion", mergeNewer), and none drops a playlist without a tombstone,
\* even with imports and with operations cut.
DocumentKeeps ==
  [][\A i \in Ids :
       /\ Standing(doc', i) >= Standing(doc, i)
       /\ i \in DOMAIN doc.items =>
            i \in DOMAIN doc'.items \/ doc'.graves[i] # NoGrave]_vars

\* A playlist written without a tombstone keeps the metadata the document held of
\* every song it still lists: "metadata is additive: whatever one side knows and
\* the other does not is kept" (mergeDocument).
KnownKept ==
  [][\A i \in DOMAIN doc.items \intersect DOMAIN doc'.items :
       doc'.graves[i] = NoGrave =>
         doc.items[i].tracks \intersect ToSet(doc'.items[i].songs)
           \subseteq doc'.items[i].tracks]_vars

\* "A background sync leaves us holding what the file holds" (merge): after a
\* pass that imports, the device lists what the file lists, as long as no
\* operation was ever cut.
HoldsFile ==
  [][\A d \in Devices :
       (Sync(d, TRUE) /\ cuts' = 0) => store'[d].index = DOMAIN doc'.items]_vars

\* An explicit import "may undo a local deletion" (mergeRestore): when one ends,
\* every playlist of the file is listed.
RestoreLists ==
  [][\A d \in Devices :
       (Restore(d, file) /\ cuts' = 0) => DOMAIN file.items \subseteq store'[d].index]_vars

\* What the document holds is kept, and what it holds arrives: the four above.
SectionKept == DocumentKeeps /\ KnownKept /\ HoldsFile /\ RestoreLists

\* "Deleted carries the tombstones, so a deletion travels instead of being
\* undone by the next device that still has the playlist" (Section): a pass puts
\* a playlist back over its tombstone only as a copy newer than it.
DeletionTravels ==
  [][\A i \in Ids : doc.graves[i] # NoGrave /\ i \in DOMAIN doc'.items \ DOMAIN doc.items =>
       doc'.items[i].at > doc.graves[i]]_vars

\* "the document both sides agree on" (merge): once edits stop, every device
\* ends up with the playlists of the document, as the document has them.
SameList(p, q) == p.name = q.name /\ p.songs = q.songs /\ p.at = q.at
Converges ==
  <>[](\A d \in Devices :
         /\ store[d].index = DOMAIN doc.items
         /\ \A i \in store[d].index : SameList(store[d].records[i], doc.items[i]))
=============================================================================
