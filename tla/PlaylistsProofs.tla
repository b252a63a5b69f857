--------------------------- MODULE PlaylistsProofs ---------------------------
(***************************************************************************)
(* Theorems about Playlists, for any devices, playlists, songs and bounds: *)
(* an operation that stops after any of its writes leaves a store that     *)
(* lists only what can be opened, no pass undoes the latest edit on the    *)
(* device that made it, and no write of the document takes back what the   *)
(* document stood by or forgets what it knew of a song.                    *)
(*                                                                         *)
(* An operation is the stores it passes through, so each write has a lemma *)
(* on what it makes of a store, and a merge one on the stores it may be    *)
(* cut at.                                                                 *)
(***************************************************************************)
EXTENDS Playlists, FiniteSetTheorems, TLAPS

-----------------------------------------------------------------------------
(* Songs, playlists and partial functions                                  *)

LEMMA PartialIntro ==
  ASSUME NEW D, NEW R, NEW S \in SUBSET D, NEW f \in [S -> R]
  PROVE  f \in Partial(D, R)
  BY DEF Partial

LEMMA PartialElim ==
  ASSUME NEW D, NEW R, NEW f \in Partial(D, R)
  PROVE  DOMAIN f \in SUBSET D /\ f \in [DOMAIN f -> R]
  BY DEF Partial

LEMMA SongsAreRefs ==
  ASSUME NEW s \in SongLists PROVE ToSet(s) \subseteq Refs
<1>1. PICK n \in 0 .. Cardinality(Refs) : s \in [1 .. n -> Refs] BY DEF SongLists
<1> QED BY <1>1 DEF ToSet

\* The lists the operations start from: none, and one song of an old document.
LEMMA ShortLists ==
  /\ <<>> \in SongLists
  /\ \A r \in Refs : <<r>> \in SongLists
<1>1. Cardinality(Refs) \in Nat BY PlaylistsAssumption, FS_CardinalityType DEF PlaylistsAssumption
<1>2. Cardinality(Refs) # 0 BY PlaylistsAssumption, FS_EmptySet DEF PlaylistsAssumption
<1>3. 0 \in 0 .. Cardinality(Refs) /\ 1 \in 0 .. Cardinality(Refs) BY <1>1, <1>2
<1>4. <<>> \in SongLists
  <2>1. <<>> \in [1 .. 0 -> Refs] OBVIOUS
  <2>2. IsInjective(<<>>) BY DEF IsInjective
  <2> QED BY <1>3, <2>1, <2>2 DEF SongLists
<1>5. ASSUME NEW r \in Refs PROVE <<r>> \in SongLists
  <2>1. <<r>> \in [1 .. 1 -> Refs] OBVIOUS
  <2>2. IsInjective(<<r>>) BY DEF IsInjective
  <2> QED BY <1>3, <2>1, <2>2 DEF SongLists
<1> QED BY <1>4, <1>5

\* No edit puts a song on a list that is not a song, twice, or of nothing.
LEMMA OutcomesType ==
  ASSUME NEW p \in Playlist, NEW q \in Outcomes(p)
  PROVE  q \in Playlist
<1>1. /\ p.name \in Names /\ p.songs \in SongLists /\ p.tracks \in SUBSET Refs /\ p.at \in Stamps
      /\ p = [name |-> p.name, songs |-> p.songs, tracks |-> p.tracks, at |-> p.at]
  BY DEF Playlist
<1>2. CASE q \in Renamed(p)
  BY <1>1, <1>2 DEF Renamed, Playlist
<1>3. CASE q \in Added(p)
  <2>1. PICK s \in Grown(p.songs) :
          q \in {[p EXCEPT !.songs = s, !.tracks = @ \union refs] : refs \in Asked(s, p.songs)}
    BY <1>3 DEF Added
  <2>2. PICK refs \in Asked(s, p.songs) : q = [p EXCEPT !.songs = s, !.tracks = @ \union refs]
    BY <2>1
  <2>3. s \in SongLists BY DEF Grown
  <2>4. refs \subseteq Refs BY <2>3, SongsAreRefs DEF Asked
  <2> QED BY <1>1, <2>2, <2>3, <2>4 DEF Playlist
<1>4. CASE q \in Removed(p)
  <2>1. PICK refs \in SUBSET Refs \ {{}} :
          q \in {[p EXCEPT !.songs = s, !.tracks = @ \ refs] : s \in Left(p.songs, refs)}
    BY <1>4 DEF Removed
  <2>2. PICK s \in Left(p.songs, refs) : q = [p EXCEPT !.songs = s, !.tracks = @ \ refs]
    BY <2>1
  <2>3. s \in SongLists BY DEF Left
  <2> QED BY <1>1, <2>2, <2>3 DEF Playlist
<1>5. CASE q \in Reordered(p)
  <2>1. PICK s \in SongLists : q = [p EXCEPT !.songs = s]
    BY <1>5 DEF Reordered
  <2> QED BY <1>1, <2>1 DEF Playlist
<1> QED BY <1>2, <1>3, <1>4, <1>5 DEF Outcomes

\* Stamping a copy changes nothing else of it.
LEMMA StampedType ==
  ASSUME NEW p \in Playlist, NEW t \in Stamps
  PROVE  [p EXCEPT !.at = t] \in Playlist /\ [p EXCEPT !.at = t].at = t
  BY DEF Playlist

LEMMA TracksType ==
  ASSUME NEW p \in Playlist, NEW T \in SUBSET Refs
  PROVE  /\ [p EXCEPT !.tracks = T] \in Playlist
         /\ [p EXCEPT !.tracks = T].at = p.at
         /\ [p EXCEPT !.tracks = T].songs = p.songs
         /\ [p EXCEPT !.tracks = T].tracks = T
  BY DEF Playlist

-----------------------------------------------------------------------------
(* What each write makes of a store                                        *)

LEMMA StoreIs ==
  ASSUME NEW s
  PROVE  s \in Store <=>
           /\ s = [records |-> s.records, index |-> s.index, graves |-> s.graves]
           /\ s.records \in Partial(Ids, Playlist)
           /\ s.index \in SUBSET Ids
           /\ s.graves \in [Ids -> Stamps]
  BY DEF Store

LEMMA PutIs ==
  ASSUME NEW s \in Store, NEW i \in Ids, NEW p \in Playlist
  PROVE  /\ Put(s, i, p) \in Store
         /\ DOMAIN Put(s, i, p).records = DOMAIN s.records \union {i}
         /\ Put(s, i, p).records[i] = p
         /\ \A j \in DOMAIN s.records : j # i => Put(s, i, p).records[j] = s.records[j]
         /\ Put(s, i, p).index = s.index /\ Put(s, i, p).graves = s.graves
<1> DEFINE r == [j \in DOMAIN s.records \union {i} |-> IF j = i THEN p ELSE s.records[j]]
<1>1. Put(s, i, p) = [s EXCEPT !.records = r] BY DEF Put
<1>2. DOMAIN s.records \in SUBSET Ids /\ s.records \in [DOMAIN s.records -> Playlist]
  BY StoreIs, PartialElim
<1>3. r \in Partial(Ids, Playlist)
  <2>1. DOMAIN s.records \union {i} \in SUBSET Ids BY <1>2
  <2>2. r \in [DOMAIN s.records \union {i} -> Playlist] BY <1>2
  <2> HIDE DEF r
  <2> QED BY <2>1, <2>2, PartialIntro
<1>4. DOMAIN r = DOMAIN s.records \union {i} /\ r[i] = p
  OBVIOUS
<1>5. \A j \in DOMAIN s.records : j # i => r[j] = s.records[j]
  OBVIOUS
<1> HIDE DEF r
<1> QED BY <1>1, <1>3, <1>4, <1>5, StoreIs DEF Store

LEMMA DropIs ==
  ASSUME NEW s \in Store, NEW i \in Ids
  PROVE  /\ Drop(s, i) \in Store
         /\ DOMAIN Drop(s, i).records = DOMAIN s.records \ {i}
         /\ \A j \in DOMAIN s.records \ {i} : Drop(s, i).records[j] = s.records[j]
         /\ Drop(s, i).index = s.index /\ Drop(s, i).graves = s.graves
<1> DEFINE r == [j \in DOMAIN s.records \ {i} |-> s.records[j]]
<1>1. Drop(s, i) = [s EXCEPT !.records = r] BY DEF Drop
<1>2. DOMAIN s.records \in SUBSET Ids /\ s.records \in [DOMAIN s.records -> Playlist]
  BY StoreIs, PartialElim
<1>3. r \in Partial(Ids, Playlist)
  <2>1. DOMAIN s.records \ {i} \in SUBSET Ids BY <1>2
  <2>2. r \in [DOMAIN s.records \ {i} -> Playlist] BY <1>2
  <2> HIDE DEF r
  <2> QED BY <2>1, <2>2, PartialIntro
<1>4. DOMAIN r = DOMAIN s.records \ {i}
  OBVIOUS
<1>5. \A j \in DOMAIN s.records \ {i} : r[j] = s.records[j]
  OBVIOUS
<1> HIDE DEF r
<1> QED BY <1>1, <1>3, <1>4, <1>5, StoreIs DEF Store

LEMMA EnlistIs ==
  ASSUME NEW s \in Store, NEW i \in Ids
  PROVE  /\ Enlist(s, i) \in Store
         /\ Enlist(s, i).records = s.records /\ Enlist(s, i).graves = s.graves
         /\ Enlist(s, i).index = s.index \union {i}
  BY DEF Enlist, Store

LEMMA DelistIs ==
  ASSUME NEW s \in Store, NEW i \in Ids
  PROVE  /\ Delist(s, i) \in Store
         /\ Delist(s, i).records = s.records /\ Delist(s, i).graves = s.graves
         /\ Delist(s, i).index = s.index \ {i}
  BY DEF Delist, Store

LEMMA BuryIs ==
  ASSUME NEW s \in Store, NEW i \in Ids, NEW t \in Stamps
  PROVE  /\ Bury(s, i, t) \in Store
         /\ Bury(s, i, t).records = s.records /\ Bury(s, i, t).index = s.index
         /\ Bury(s, i, t).graves = [s.graves EXCEPT ![i] = t]
  BY DEF Bury, Store

-----------------------------------------------------------------------------
(* Operations: the stores they pass through and the one they end with      *)

Sound(writes) == \A s \in writes.through \union {writes.end} : s \in Store /\ Loads(s)

\* What a write leaves of a store that it does not name.
Others(s, r, i) ==
  \A j \in Ids \ {i} :
    /\ j \in DOMAIN r.records <=> j \in DOMAIN s.records
    /\ j \in DOMAIN s.records => r.records[j] = s.records[j]
    /\ j \in r.index <=> j \in s.index
    /\ r.graves[j] = s.graves[j]

LEMMA CreateSound ==
  ASSUME NEW s \in Store, Loads(s), NEW i \in Ids, NEW n \in Names, NEW t \in Stamps
  PROVE  /\ Sound(CreateWrites(s, i, n, t))
         /\ LET end == CreateWrites(s, i, n, t).end
            IN  /\ i \in DOMAIN end.records /\ end.records[i].at = t /\ i \in end.index
                /\ end.graves[i] = s.graves[i]
                /\ Others(s, end, i)
<1> DEFINE p == Empty(n, t)
           put == Put(s, i, p)
           end == Enlist(put, i)
<1>1. p \in Playlist /\ p.at = t BY ShortLists DEF Empty, Playlist
<1> HIDE DEF p
<1>2. /\ put \in Store /\ DOMAIN put.records = DOMAIN s.records \union {i} /\ put.records[i] = p
      /\ \A j \in DOMAIN s.records : j # i => put.records[j] = s.records[j]
      /\ put.index = s.index /\ put.graves = s.graves
  BY <1>1, PutIs
<1> HIDE DEF put
<1>3. /\ end \in Store /\ end.records = put.records /\ end.graves = put.graves
      /\ end.index = put.index \union {i}
  BY <1>2, EnlistIs
<1> HIDE DEF end
<1>4. CreateWrites(s, i, n, t) = [through |-> {s, put}, end |-> end]
  BY DEF CreateWrites, end, put, p
<1>5. Loads(put) /\ Loads(end) BY <1>2, <1>3 DEF Loads
<1>6. Sound(CreateWrites(s, i, n, t)) BY <1>2, <1>3, <1>4, <1>5 DEF Sound
<1>7. Others(s, end, i) BY <1>2, <1>3 DEF Others
<1> QED BY <1>1, <1>2, <1>3, <1>4, <1>6, <1>7

LEMMA DeleteSound ==
  ASSUME NEW s \in Store, Loads(s), NEW i \in Ids, NEW t \in Stamps
  PROVE  /\ Sound(DeleteWrites(s, i, t))
         /\ LET end == DeleteWrites(s, i, t).end
            IN  /\ i \notin DOMAIN end.records /\ i \notin end.index
                /\ end.graves[i] = t
                /\ Others(s, end, i)
<1> DEFINE delisted == Delist(s, i)
           buried == Bury(delisted, i, t)
           end == Drop(buried, i)
<1>1. /\ delisted \in Store /\ delisted.records = s.records /\ delisted.graves = s.graves
      /\ delisted.index = s.index \ {i}
  BY DelistIs
<1> HIDE DEF delisted
<1>2. /\ buried \in Store /\ buried.records = delisted.records /\ buried.index = delisted.index
      /\ buried.graves = [delisted.graves EXCEPT ![i] = t]
  BY <1>1, BuryIs
<1> HIDE DEF buried
<1>3. /\ end \in Store /\ DOMAIN end.records = DOMAIN buried.records \ {i}
      /\ \A j \in DOMAIN buried.records \ {i} : end.records[j] = buried.records[j]
      /\ end.index = buried.index /\ end.graves = buried.graves
  BY <1>2, DropIs
<1> HIDE DEF end
<1>4. DeleteWrites(s, i, t) = [through |-> {s, delisted, buried}, end |-> end]
  BY DEF DeleteWrites, end, buried, delisted
<1>5. Loads(delisted) /\ Loads(buried) /\ Loads(end) BY <1>1, <1>2, <1>3 DEF Loads
<1>6. Sound(DeleteWrites(s, i, t)) BY <1>1, <1>2, <1>3, <1>4, <1>5 DEF Sound
<1>7. s.graves \in [Ids -> Stamps] BY StoreIs
<1>8. end.graves[i] = t /\ \A j \in Ids \ {i} : end.graves[j] = s.graves[j]
  BY <1>1, <1>2, <1>3, <1>7
<1>9. Others(s, end, i) BY <1>1, <1>2, <1>3, <1>8 DEF Others
<1>10. i \notin DOMAIN end.records /\ i \notin end.index BY <1>1, <1>2, <1>3
<1>11. DeleteWrites(s, i, t).end = end BY <1>4
<1> QED BY <1>6, <1>8, <1>9, <1>10, <1>11

\* The write of one record the index lists.
LEMMA PutSound ==
  ASSUME NEW s \in Store, Loads(s), NEW i \in Ids, NEW p \in Playlist
  PROVE  /\ Put(s, i, p) \in Store /\ Loads(Put(s, i, p))
         /\ i \in DOMAIN Put(s, i, p).records /\ Put(s, i, p).records[i] = p
         /\ i \in Put(s, i, p).index <=> i \in s.index
         /\ Put(s, i, p).graves = s.graves
         /\ Others(s, Put(s, i, p), i)
<1> DEFINE put == Put(s, i, p)
<1>1. /\ put \in Store /\ DOMAIN put.records = DOMAIN s.records \union {i} /\ put.records[i] = p
      /\ \A j \in DOMAIN s.records : j # i => put.records[j] = s.records[j]
      /\ put.index = s.index /\ put.graves = s.graves
  BY PutIs
<1> HIDE DEF put
<1>2. Loads(put) /\ Others(s, put, i) BY <1>1 DEF Loads, Others
<1> QED BY <1>1, <1>2 DEF put

-----------------------------------------------------------------------------
(* The reconciliation                                                      *)

\* The copy that wins is at least as new as the one that was kept, and a stamped
\* copy loses to newer ones only.
LEMMA WinnerIs ==
  ASSUME NEW p \in Playlist, NEW kept \in Playlist,
         NEW winner, winner = IF Wins(p, kept) THEN p ELSE kept
  PROVE  /\ winner \in Playlist /\ winner.at \in {p.at, kept.at}
         /\ winner.at >= kept.at /\ winner.at >= p.at
  BY DEF Wins, Playlist, Stamps

LEMMA AgreedIs ==
  ASSUME NEW s \in Store, NEW i \in Ids, NEW p \in Playlist
  PROVE  /\ Agreed(s, i, p) \in Playlist
         /\ i \notin DOMAIN s.records => Agreed(s, i, p) = p
         /\ i \in DOMAIN s.records =>
              /\ Agreed(s, i, p).at \in {p.at, s.records[i].at}
              /\ Agreed(s, i, p).at >= s.records[i].at
<1>1. CASE i \notin DOMAIN s.records BY <1>1 DEF Agreed
<1>2. CASE i \in DOMAIN s.records
  <2> DEFINE kept == s.records[i]
             winner == IF Wins(p, kept) THEN p ELSE kept
             known == MergeTracks(kept.tracks, p.tracks)
  <2>1. kept \in Playlist BY <1>2, StoreIs, PartialElim
  <2>2. known \in SUBSET Refs BY <2>1 DEF MergeTracks, Playlist
  <2>3. Agreed(s, i, p) = [winner EXCEPT !.tracks = known] BY <1>2 DEF Agreed
  <2> HIDE DEF kept, known
  <2>4. winner \in Playlist /\ winner.at \in {p.at, kept.at} /\ winner.at >= kept.at
    BY <2>1, WinnerIs
  <2> HIDE DEF winner
  <2>5. [winner EXCEPT !.tracks = known] \in Playlist /\ [winner EXCEPT !.tracks = known].at = winner.at
    BY <2>2, <2>4, TracksType
  <2> QED BY <1>2, <2>3, <2>4, <2>5 DEF kept
<1> QED BY <1>1, <1>2

ItemsIn(s, r, items, saved, listed) ==
  /\ r \in Store /\ Loads(r)
  /\ DOMAIN r.records = DOMAIN s.records \union saved
  /\ \A i \in saved : r.records[i] = Agreed(s, i, items[i])
  /\ \A i \in DOMAIN s.records \ saved : r.records[i] = s.records[i]
  /\ r.index = s.index \union (listed \ DOMAIN s.records)
  /\ r.graves = s.graves

LEMMA AppliedIs ==
  ASSUME NEW s \in Store, Loads(s), NEW items \in Partial(Ids, Playlist),
         NEW saved, saved \subseteq DOMAIN items, NEW listed, listed \subseteq saved
  PROVE  ItemsIn(s, Applied(s, items, saved, listed), items, saved, listed)
<1> DEFINE r == Applied(s, items, saved, listed)
<1> DEFINE f == [i \in DOMAIN s.records \union saved |->
                   IF i \in saved THEN Agreed(s, i, items[i]) ELSE s.records[i]]
<1>1. DOMAIN items \in SUBSET Ids /\ \A i \in DOMAIN items : items[i] \in Playlist
  BY PartialElim
<1>2. DOMAIN s.records \in SUBSET Ids /\ \A i \in DOMAIN s.records : s.records[i] \in Playlist
  BY StoreIs, PartialElim
<1>3. \A i \in saved : Agreed(s, i, items[i]) \in Playlist BY <1>1, AgreedIs
<1>4. f \in Partial(Ids, Playlist)
  <2>1. DOMAIN s.records \union saved \in SUBSET Ids BY <1>1, <1>2
  <2>2. f \in [DOMAIN s.records \union saved -> Playlist] BY <1>2, <1>3
  <2> HIDE DEF f
  <2> QED BY <2>1, <2>2, PartialIntro
<1>5. /\ DOMAIN f = DOMAIN s.records \union saved
      /\ \A i \in saved : f[i] = Agreed(s, i, items[i])
      /\ \A i \in DOMAIN s.records \ saved : f[i] = s.records[i]
  OBVIOUS
<1>6. s = [records |-> s.records, index |-> s.index, graves |-> s.graves] /\ s.index \in SUBSET Ids
      /\ s.graves \in [Ids -> Stamps]
  BY StoreIs
<1> DEFINE ix == s.index \union (listed \ DOMAIN s.records)
<1>7. r = [records |-> f, index |-> ix, graves |-> s.graves]
  <2>1. r = [s EXCEPT !.records = f, !.index = ix] BY DEF Applied
  <2> HIDE DEF r, f, ix
  <2> QED BY <1>6, <2>1
<1> HIDE DEF f, r
<1>8. r \in Store BY <1>1, <1>4, <1>6, <1>7 DEF Store
<1>9. Loads(r) BY <1>5, <1>7 DEF Loads
<1>10. ItemsIn(s, r, items, saved, listed) BY <1>5, <1>7, <1>8, <1>9 DEF ItemsIn
<1> QED BY <1>10 DEF r

\* A merge cut after any of its writes leaves a store that lists what it can
\* open; one that ends has every item, with its record up to date.
LEMMA ApplySound ==
  ASSUME NEW s \in Store, Loads(s), NEW out \in Section, NEW buried
  PROVE  /\ Sound(ApplyMerge(s, out, buried))
         /\ LET end == ApplyMerge(s, out, buried).end
            IN  /\ DOMAIN end.records = DOMAIN s.records \union DOMAIN out.items
                /\ \A i \in DOMAIN out.items : end.records[i] = Agreed(s, i, out.items[i])
                /\ \A i \in DOMAIN s.records \ DOMAIN out.items : end.records[i] = s.records[i]
                /\ end.index = s.index \union (DOMAIN out.items \ DOMAIN s.records)
                /\ end.graves = IF buried THEN out.graves ELSE s.graves
<1> DEFINE items == out.items
           upTo(k) == {i \in DOMAIN items : i <= k}
           whole == Applied(s, items, DOMAIN items, DOMAIN items)
           end == IF buried THEN [whole EXCEPT !.graves = out.graves] ELSE whole
           full == {Applied(s, items, upTo(k), upTo(k)) : k \in DOMAIN items}
           half == {Applied(s, items, upTo(k), upTo(k - 1)) : k \in DOMAIN items}
<1>1. items \in Partial(Ids, Playlist) /\ out.graves \in [Ids -> Stamps] BY DEF Section
<1>2. DOMAIN items \subseteq Nat BY <1>1, PartialElim, PlaylistsAssumption DEF PlaylistsAssumption
<1>3. ApplyMerge(s, out, buried) = [through |-> {s, whole} \union full \union half, end |-> end]
  BY DEF ApplyMerge
<1>4. /\ whole \in Store /\ Loads(whole)
      /\ DOMAIN whole.records = DOMAIN s.records \union DOMAIN items
      /\ \A i \in DOMAIN items : whole.records[i] = Agreed(s, i, items[i])
      /\ \A i \in DOMAIN s.records \ DOMAIN items : whole.records[i] = s.records[i]
      /\ whole.index = s.index \union (DOMAIN items \ DOMAIN s.records)
      /\ whole.graves = s.graves
  <2> HIDE DEF items
  <2>1. ItemsIn(s, whole, items, DOMAIN items, DOMAIN items) BY <1>1, AppliedIs
  <2> HIDE DEF whole
  <2> QED BY <2>1 DEF ItemsIn
<1>5. \A r \in full : r \in Store /\ Loads(r)
  <2> SUFFICES ASSUME NEW k \in DOMAIN items
               PROVE  ItemsIn(s, Applied(s, items, upTo(k), upTo(k)), items, upTo(k), upTo(k))
    BY DEF ItemsIn
  <2>1. upTo(k) \subseteq DOMAIN items OBVIOUS
  <2> HIDE DEF upTo, items
  <2> QED BY <1>1, <2>1, AppliedIs
<1>6. \A r \in half : r \in Store /\ Loads(r)
  <2> SUFFICES ASSUME NEW k \in DOMAIN items
               PROVE  ItemsIn(s, Applied(s, items, upTo(k), upTo(k - 1)), items, upTo(k), upTo(k - 1))
    BY DEF ItemsIn
  <2>1. upTo(k) \subseteq DOMAIN items OBVIOUS
  <2>2. upTo(k - 1) \subseteq upTo(k) BY <1>2
  <2> HIDE DEF upTo, items
  <2> QED BY <1>1, <2>1, <2>2, AppliedIs
<1> HIDE DEF whole, full, half
<1>7. /\ end \in Store /\ Loads(end)
      /\ end.records = whole.records /\ end.index = whole.index
      /\ end.graves = IF buried THEN out.graves ELSE s.graves
  <2>1. CASE buried BY <1>1, <1>4, <2>1 DEF Store, Loads
  <2>2. CASE ~buried BY <1>4, <2>2
  <2> QED BY <2>1, <2>2
<1> HIDE DEF end
<1>8. Sound(ApplyMerge(s, out, buried)) BY <1>3, <1>4, <1>5, <1>6, <1>7 DEF Sound
<1> QED BY <1>3, <1>4, <1>7, <1>8

LEMMA LocalIs ==
  ASSUME NEW s \in Store
  PROVE  /\ Local(s) \in Partial(Ids, Playlist)
         /\ DOMAIN Local(s) = s.index \intersect DOMAIN s.records
         /\ \A i \in DOMAIN Local(s) : Local(s)[i] = s.records[i]
<1> DEFINE S == s.index \intersect DOMAIN s.records
           f == [i \in S |-> s.records[i]]
<1>1. DOMAIN s.records \in SUBSET Ids /\ s.records \in [DOMAIN s.records -> Playlist]
  BY StoreIs, PartialElim
<1>2. S \in SUBSET Ids /\ f \in [S -> Playlist] BY <1>1
<1>3. DOMAIN f = S /\ \A i \in S : f[i] = s.records[i] OBVIOUS
<1>4. Local(s) = f BY DEF Local
<1> HIDE DEF S, f
<1>5. f \in Partial(Ids, Playlist) BY <1>2, PartialIntro
<1> QED BY <1>3, <1>4, <1>5 DEF S

LEMMA MergeItemIs ==
  ASSUME NEW p \in Playlist, NEW kept \in Playlist
  PROVE  /\ MergeItem(p, kept) \in Playlist
         /\ MergeItem(p, kept).at \in {p.at, kept.at}
         /\ MergeItem(p, kept).at >= p.at
         /\ p.tracks \subseteq MergeItem(p, kept).tracks
<1> DEFINE winner == IF Wins(p, kept) THEN p ELSE kept
           known == MergeTracks(kept.tracks, p.tracks)
<1>1. known \in SUBSET Refs /\ p.tracks \subseteq known BY DEF MergeTracks, Playlist
<1>2. MergeItem(p, kept) = [winner EXCEPT !.tracks = known] BY DEF MergeItem
<1> HIDE DEF known
<1>3. winner \in Playlist /\ winner.at \in {p.at, kept.at} /\ winner.at >= p.at BY WinnerIs
<1> HIDE DEF winner
<1> QED BY <1>1, <1>2, <1>3, TracksType

\* What a merge agrees on: the local playlists and those that rise from the
\* document, each as new as the document's; a tombstone that is left is as new as
\* the document's, and newer than what it keeps down.
Agrees(out, remote, local, graves, restore) ==
  /\ out \in Section
  /\ DOMAIN out.items = DOMAIN local \union Risen(remote, graves, restore)
  /\ \A i \in DOMAIN local \ Risen(remote, graves, restore) : out.items[i] = local[i]
  /\ \A i \in Risen(remote, graves, restore) \ DOMAIN local : out.items[i] = remote.items[i]
  /\ \A i \in Risen(remote, graves, restore) :
       /\ i \in DOMAIN remote.items
       /\ out.graves[i] = NoGrave
       /\ out.items[i].at >= remote.items[i].at
       /\ remote.items[i].tracks \subseteq out.items[i].tracks
       /\ i \in DOMAIN local => out.items[i].at \in {remote.items[i].at, local[i].at}
  /\ \A i \in Ids \ Risen(remote, graves, restore) :
       out.graves[i] = LatestGrave(remote, graves, i)

LEMMA MergeIs ==
  ASSUME NEW remote \in Section, NEW local \in Partial(Ids, Playlist),
         NEW graves \in [Ids -> Stamps], NEW restore
  PROVE  Agrees(MergeDocument(remote, local, graves, restore), remote, local, graves, restore)
<1> DEFINE risen == Risen(remote, graves, restore)
           f == [i \in DOMAIN local \union risen |->
                   IF i \notin risen THEN local[i]
                   ELSE IF i \notin DOMAIN local THEN remote.items[i]
                   ELSE MergeItem(remote.items[i], local[i])]
           g == [i \in Ids |-> IF i \in risen THEN NoGrave ELSE LatestGrave(remote, graves, i)]
           out == MergeDocument(remote, local, graves, restore)
<1>1. remote.items \in Partial(Ids, Playlist) /\ remote.graves \in [Ids -> Stamps]
  BY DEF Section
<1>2. /\ DOMAIN remote.items \in SUBSET Ids
      /\ \A i \in DOMAIN remote.items : remote.items[i] \in Playlist
  BY <1>1, PartialElim
<1>3. DOMAIN local \in SUBSET Ids /\ \A i \in DOMAIN local : local[i] \in Playlist
  BY PartialElim
<1>4. risen \subseteq DOMAIN remote.items BY DEF Risen
<1>5. out = [items |-> f, graves |-> g] BY DEF MergeDocument
<1>6. DOMAIN f = DOMAIN local \union risen OBVIOUS
<1>7. \A i \in DOMAIN local \ risen : f[i] = local[i] OBVIOUS
<1>8. \A i \in risen \ DOMAIN local : f[i] = remote.items[i] OBVIOUS
<1>9. \A i \in risen \intersect DOMAIN local : f[i] = MergeItem(remote.items[i], local[i]) OBVIOUS
<1>10. \A i \in risen \intersect DOMAIN local :
         /\ f[i] \in Playlist
         /\ f[i].at \in {remote.items[i].at, local[i].at}
         /\ f[i].at >= remote.items[i].at
         /\ remote.items[i].tracks \subseteq f[i].tracks
  <2> HIDE DEF f, risen
  <2> QED BY <1>2, <1>3, <1>4, <1>9, MergeItemIs
<1>11. g \in [Ids -> Stamps]
  <2>1. \A i \in Ids : LatestGrave(remote, graves, i) \in Stamps BY <1>1 DEF LatestGrave
  <2>2. NoGrave \in Stamps BY PlaylistsAssumption DEF NoGrave, Stamps, PlaylistsAssumption
  <2> HIDE DEF risen
  <2> QED BY <2>1, <2>2
<1>12. /\ \A i \in risen : g[i] = NoGrave
       /\ \A i \in Ids \ risen : g[i] = LatestGrave(remote, graves, i)
  BY <1>2, <1>4
<1> HIDE DEF f, g, out
<1>13. f \in [DOMAIN local \union risen -> Playlist]
  <2> HIDE DEF risen
  <2>1. \A i \in DOMAIN local \union risen : f[i] \in Playlist BY <1>2, <1>3, <1>4, <1>7, <1>8, <1>10
  <2>2. f = [i \in DOMAIN local \union risen |-> f[i]] BY DEF f
  <2> QED BY <2>1, <2>2
<1>14. f \in Partial(Ids, Playlist)
  <2>1. DOMAIN local \union risen \in SUBSET Ids BY <1>2, <1>3, <1>4
  <2> HIDE DEF risen
  <2> QED BY <1>13, <2>1, PartialIntro
<1>15. out \in Section BY <1>5, <1>11, <1>14 DEF Section
<1>16. \A i \in risen \ DOMAIN local :
         f[i].at >= remote.items[i].at /\ remote.items[i].tracks \subseteq f[i].tracks
  <2> HIDE DEF risen
  <2> QED BY <1>2, <1>4, <1>8 DEF Playlist, Stamps
<1>17. out.items = f /\ out.graves = g BY <1>5
<1>18. Agrees(out, remote, local, graves, restore)
  BY <1>4, <1>6, <1>7, <1>8, <1>10, <1>12, <1>15, <1>16, <1>17 DEF Agrees
<1> QED BY <1>18 DEF out

\* Without an import, what stays down lies under a tombstone at least as new; an
\* import raises all the file has.
LEMMA RisenIs ==
  ASSUME NEW remote \in Section, NEW graves \in [Ids -> Stamps]
  PROVE  /\ \A i \in DOMAIN remote.items \ Risen(remote, graves, FALSE) :
              /\ LatestGrave(remote, graves, i) # NoGrave
              /\ LatestGrave(remote, graves, i) >= remote.items[i].at
         /\ \A i \in Risen(remote, graves, FALSE) :
              \/ LatestGrave(remote, graves, i) = NoGrave
              \/ remote.items[i].at > LatestGrave(remote, graves, i)
         /\ Risen(remote, graves, TRUE) = DOMAIN remote.items
         /\ \A i \in Ids : /\ LatestGrave(remote, graves, i) >= remote.graves[i]
                           /\ LatestGrave(remote, graves, i) >= graves[i]
                           /\ LatestGrave(remote, graves, i) \in Stamps
<1>1. remote.items \in Partial(Ids, Playlist) /\ remote.graves \in [Ids -> Stamps]
  BY DEF Section
<1>2. /\ DOMAIN remote.items \in SUBSET Ids
      /\ \A i \in DOMAIN remote.items : remote.items[i].at \in Stamps
  <2>1. /\ DOMAIN remote.items \in SUBSET Ids
        /\ \A i \in DOMAIN remote.items : remote.items[i] \in Playlist
    BY <1>1, PartialElim
  <2> QED BY <2>1 DEF Playlist
<1>3. \A i \in Ids : /\ LatestGrave(remote, graves, i) >= remote.graves[i]
                     /\ LatestGrave(remote, graves, i) >= graves[i]
                     /\ LatestGrave(remote, graves, i) \in Stamps
  BY <1>1 DEF LatestGrave, Stamps
<1>4. \A i \in DOMAIN remote.items \ Risen(remote, graves, FALSE) :
        /\ LatestGrave(remote, graves, i) # NoGrave
        /\ LatestGrave(remote, graves, i) >= remote.items[i].at
  BY <1>2, <1>3 DEF Risen, Rises, Stamps
<1>5. \A i \in Risen(remote, graves, FALSE) :
        \/ LatestGrave(remote, graves, i) = NoGrave
        \/ remote.items[i].at > LatestGrave(remote, graves, i)
  BY DEF Risen, Rises
<1>6. Risen(remote, graves, TRUE) = DOMAIN remote.items BY DEF Risen, Rises
<1> QED BY <1>3, <1>4, <1>5, <1>6

\* The document as it reads back: all of it but the metadata of songs that are
\* not listed, and what one playlist knows of a song all of them know.
LEMMA WireIs ==
  ASSUME NEW section \in Section
  PROVE  /\ Wire(section) \in Section
         /\ Wire(section).graves = section.graves
         /\ DOMAIN Wire(section).items = DOMAIN section.items
         /\ \A i \in DOMAIN section.items :
              /\ Wire(section).items[i].at = section.items[i].at
              /\ section.items[i].tracks \intersect ToSet(Wire(section).items[i].songs)
                   \subseteq Wire(section).items[i].tracks
<1> DEFINE items == section.items
           known == UNION {items[i].tracks \intersect ToSet(items[i].songs) : i \in DOMAIN items}
           bare == [i \in DOMAIN items |-> [items[i] EXCEPT !.tracks = {}]]
           back == [i \in DOMAIN items |-> [bare[i] EXCEPT !.tracks = ToSet(bare[i].songs) \intersect known]]
<1>1. /\ items \in Partial(Ids, Playlist) /\ section.graves \in [Ids -> Stamps]
      /\ DOMAIN items \in SUBSET Ids /\ \A i \in DOMAIN items : items[i] \in Playlist
  BY PartialElim DEF Section
<1>2. Wire(section) = [items |-> back, graves |-> section.graves]
  BY DEF Wire, Marshalled, Unmarshalled
<1>3. \A i \in DOMAIN items :
        items[i].tracks \intersect ToSet(items[i].songs) \subseteq known
  OBVIOUS
<1> HIDE DEF items, known
<1>4. ASSUME NEW i \in DOMAIN items
      PROVE  /\ back[i] \in Playlist /\ back[i].at = items[i].at
             /\ back[i].songs = items[i].songs
             /\ back[i].tracks = ToSet(items[i].songs) \intersect known
  <2>1. items[i] \in Playlist /\ ToSet(items[i].songs) \subseteq Refs
    BY <1>1, SongsAreRefs DEF Playlist
  <2> DEFINE p == bare[i]
  <2>2. p \in Playlist /\ p.at = items[i].at /\ p.songs = items[i].songs BY <2>1, TracksType
  <2>3. back[i] = [p EXCEPT !.tracks = ToSet(p.songs) \intersect known] OBVIOUS
  <2>4. ToSet(p.songs) \intersect known \in SUBSET Refs BY <2>1, <2>2
  <2> HIDE DEF p, back
  <2>5. /\ back[i] \in Playlist /\ back[i].at = p.at /\ back[i].songs = p.songs
        /\ back[i].tracks = ToSet(p.songs) \intersect known
    BY <2>2, <2>3, <2>4, TracksType
  <2> QED BY <2>2, <2>5
<1>5. DOMAIN back = DOMAIN items /\ back = [i \in DOMAIN items |-> back[i]] OBVIOUS
<1> HIDE DEF back
<1>6. back \in [DOMAIN items -> Playlist] BY <1>4, <1>5
<1>7. back \in Partial(Ids, Playlist) BY <1>1, <1>6, PartialIntro
<1>8. Wire(section) \in Section BY <1>1, <1>2, <1>7 DEF Section
<1>9. \A i \in DOMAIN items : items[i].tracks \intersect ToSet(back[i].songs) \subseteq back[i].tracks
  BY <1>3, <1>4
<1> QED BY <1>2, <1>4, <1>5, <1>8, <1>9 DEF items

-----------------------------------------------------------------------------
(* Types, and what the index lists can be opened                           *)

\* However an operation ends, the stores stay stores that list what they hold.
LEMMA StoreStep ==
  ASSUME store \in [Devices -> Store], \A e \in Devices : Loads(store[e]),
         NEW d \in Devices, NEW writes, Sound(writes), NEW mark,
         Completes(d, writes) \/ Stops(d, writes, mark)
  PROVE  /\ store' \in [Devices -> Store]
         /\ \A e \in Devices : Loads(store'[e])
         /\ \A e \in Devices \ {d} : store'[e] = store[e]
<1>1. PICK s \in writes.through \union {writes.end} : store' = [store EXCEPT ![d] = s]
  BY DEF Completes, Stops
<1>2. s \in Store /\ Loads(s) BY <1>1 DEF Sound
<1> QED BY <1>1, <1>2

LEMMA StopsIs ==
  ASSUME TypeOK, NEW d \in Devices, NEW writes, NEW mark \in BOOLEAN, Stops(d, writes, mark)
  PROVE  /\ cuts' \in 0 .. MaxCuts /\ cuts' # 0
         /\ dirty' \in [Devices -> BOOLEAN]
<1>1. cuts \in 0 .. MaxCuts /\ dirty \in [Devices -> BOOLEAN] BY DEF TypeOK
<1>2. cuts' \in 0 .. MaxCuts /\ cuts' # 0
  BY <1>1, PlaylistsAssumption DEF Stops, PlaylistsAssumption
<1>3. PICK m \in {FALSE, mark} : dirty' = [dirty EXCEPT ![d] = m] BY DEF Stops
<1> QED BY <1>1, <1>2, <1>3

LEMMA EditedIs ==
  ASSUME TypeOK, NEW d \in Devices, NEW i \in Ids, NEW t \in Stamps, NEW gone \in BOOLEAN,
         Edited(t), Remembered(d, i, t, gone)
  PROVE  /\ now' \in Stamps /\ edits' \in Stamps
         /\ t >= now /\ t >= 1 /\ now' = t
         /\ last' \in [Ids -> [by : Devices \union {Nobody}, gone : BOOLEAN, at : Stamps]]
         /\ last'[i] = [by |-> d, gone |-> gone, at |-> t]
         /\ \A j \in Ids \ {i} : last'[j] = last[j]
<1>1. edits \in Stamps /\ now \in Stamps BY DEF TypeOK
<1>2. now' \in Stamps /\ edits' \in Stamps /\ now' = t
  BY <1>1, PlaylistsAssumption DEF Edited, Stamps, PlaylistsAssumption
<1>3. t >= now /\ t >= 1 BY <1>1 DEF Edited, Stamps
<1>4. last \in [Ids -> [by : Devices \union {Nobody}, gone : BOOLEAN, at : Stamps]] BY DEF TypeOK
<1>5. last' = [last EXCEPT ![i] = [by |-> d, gone |-> gone, at |-> t]] BY DEF Remembered
<1> QED BY <1>2, <1>3, <1>4, <1>5

LEMMA RecordsAre ==
  ASSUME NEW s \in Store
  PROVE  /\ DOMAIN s.records \in SUBSET Ids
         /\ \A i \in DOMAIN s.records : s.records[i] \in Playlist /\ s.records[i].at \in Stamps
         /\ s.index \in SUBSET Ids
         /\ s.graves \in [Ids -> Stamps]
<1>1. DOMAIN s.records \in SUBSET Ids /\ \A i \in DOMAIN s.records : s.records[i] \in Playlist
  BY StoreIs, PartialElim
<1> QED BY <1>1, StoreIs DEF Playlist

LEMMA ItemsAre ==
  ASSUME NEW section \in Section
  PROVE  /\ DOMAIN section.items \in SUBSET Ids
         /\ \A i \in DOMAIN section.items :
              section.items[i] \in Playlist /\ section.items[i].at \in Stamps
         /\ section.graves \in [Ids -> Stamps]
<1>1. section.items \in Partial(Ids, Playlist) /\ section.graves \in [Ids -> Stamps] BY DEF Section
<1>2. DOMAIN section.items \in SUBSET Ids /\ \A i \in DOMAIN section.items : section.items[i] \in Playlist
  BY <1>1, PartialElim
<1> QED BY <1>1, <1>2 DEF Playlist

\* The merge of a pass or of an import, and the store it is applied to.
Merged(d, part, restore) == MergeDocument(part, Local(store[d]), store[d].graves, restore)
Writes(d, part, restore) ==
  ApplyMerge(store[d], Merged(d, part, restore), Buried(part, store[d].graves, restore))

LEMMA MergedIs ==
  ASSUME ListsSafe, NEW d \in Devices, NEW part \in Section, NEW restore
  PROVE  /\ Agrees(Merged(d, part, restore), part, Local(store[d]), store[d].graves, restore)
         /\ Merged(d, part, restore) \in Section
<1>1. store[d] \in Store BY DEF ListsSafe, TypeOK
<1>2. Local(store[d]) \in Partial(Ids, Playlist) BY <1>1, LocalIs
<1>3. store[d].graves \in [Ids -> Stamps] BY <1>1, RecordsAre
<1>4. Agrees(Merged(d, part, restore), part, Local(store[d]), store[d].graves, restore)
  BY <1>2, <1>3, MergeIs DEF Merged
<1> QED BY <1>4 DEF Agrees

\* What an applied merge leaves of the store: nothing it held is dropped or taken
\* back to an older copy, and every item is there.
Takes(s, r, out, buried) ==
  /\ DOMAIN r.records = DOMAIN s.records \union DOMAIN out.items
  /\ \A i \in DOMAIN out.items : r.records[i] = Agreed(s, i, out.items[i])
  /\ \A i \in DOMAIN s.records \ DOMAIN out.items : r.records[i] = s.records[i]
  /\ r.index = s.index \union (DOMAIN out.items \ DOMAIN s.records)
  /\ r.graves = IF buried THEN out.graves ELSE s.graves

LEMMA WritesSound ==
  ASSUME ListsSafe, NEW d \in Devices, NEW part \in Section, NEW restore
  PROVE  /\ Sound(Writes(d, part, restore))
         /\ Takes(store[d], Writes(d, part, restore).end, Merged(d, part, restore),
                  Buried(part, store[d].graves, restore))
<1>1. store[d] \in Store /\ Loads(store[d]) BY DEF ListsSafe, TypeOK
<1>2. Merged(d, part, restore) \in Section BY MergedIs
<1> DEFINE out == Merged(d, part, restore)
           buried == Buried(part, store[d].graves, restore)
<1>3. Writes(d, part, restore) = ApplyMerge(store[d], out, buried) BY DEF Writes
<1> HIDE DEF out, buried
<1>4. Sound(ApplyMerge(store[d], out, buried)) BY <1>1, <1>2, ApplySound DEF out
<1>5. Takes(store[d], ApplyMerge(store[d], out, buried).end, out, buried)
  BY <1>1, <1>2, ApplySound DEF out, Takes
<1> QED BY <1>3, <1>4, <1>5 DEF out, buried

LEMMA StayingSound ==
  ASSUME ListsSafe, NEW d \in Devices
  PROVE  Sound([through |-> {}, end |-> store[d]])
  BY DEF ListsSafe, TypeOK, Sound

\* A pass and an import, in the words of the lemmas above.
SyncWrites(d, import) ==
  IF import THEN Writes(d, doc, FALSE) ELSE [through |-> {}, end |-> store[d]]

LEMMA SyncIs ==
  ASSUME NEW d \in Devices, NEW import \in BOOLEAN, Sync(d, import)
  PROVE  /\ \/ /\ Completes(d, SyncWrites(d, import))
               /\ dirty' = [dirty EXCEPT ![d] = FALSE]
               /\ doc' = Wire(Merged(d, doc, FALSE))
               /\ UNCHANGED cuts
            \/ Stops(d, SyncWrites(d, import), dirty[d]) /\ UNCHANGED doc
         /\ UNCHANGED <<file, born, now, edits, restores, last>>
  BY DEF Sync, SyncWrites, Writes, Merged

LEMMA RestoreIs ==
  ASSUME NEW d \in Devices, NEW part, Restore(d, part)
  PROVE  /\ restores < MaxRestores /\ restores' = restores + 1
         /\ \/ /\ Completes(d, Writes(d, part, TRUE))
               /\ dirty' = [dirty EXCEPT ![d] = @ \/ Writes(d, part, TRUE).end # store[d]]
               /\ UNCHANGED cuts
            \/ Stops(d, Writes(d, part, TRUE), dirty[d])
         /\ UNCHANGED <<doc, file, born, now, edits, last>>
  BY DEF Restore, Writes, Merged

LEMMA CreateLists ==
  ASSUME ListsSafe, NEW d \in Devices, NEW i \in Ids, NEW n \in Names, NEW t \in Stamps,
         Create(d, i, n, t)
  PROVE  ListsSafe'
<1>1. TypeOK /\ \A e \in Devices : Loads(store[e]) BY DEF ListsSafe
<1>2. store \in [Devices -> Store] /\ store[d] \in Store BY <1>1 DEF TypeOK
<1> DEFINE w == CreateWrites(store[d], i, n, t)
<1>3. Sound(w) BY <1>1, <1>2, CreateSound
<1> HIDE DEF w
<1>4. Completes(d, w) \/ Stops(d, w, TRUE) BY DEF Create, w
<1>5. store' \in [Devices -> Store] /\ \A e \in Devices : Loads(store'[e])
  BY <1>1, <1>2, <1>3, <1>4, StoreStep
<1>6. /\ now' \in Stamps /\ edits' \in Stamps
      /\ last' \in [Ids -> [by : Devices \union {Nobody}, gone : BOOLEAN, at : Stamps]]
  <2>1. Edited(t) /\ Remembered(d, i, t, FALSE) BY DEF Create
  <2> QED BY <1>1, <2>1, EditedIs
<1>7. dirty' \in [Devices -> BOOLEAN] /\ cuts' \in 0 .. MaxCuts
  <2>1. CASE Stops(d, w, TRUE) BY <1>1, <2>1, StopsIs
  <2>2. CASE dirty' = [dirty EXCEPT ![d] = TRUE] /\ UNCHANGED cuts BY <1>1, <2>2 DEF TypeOK
  <2> QED BY <2>1, <2>2 DEF Create, w
<1>8. born' \subseteq Ids /\ UNCHANGED <<doc, file, restores>> BY <1>1 DEF Create, TypeOK
<1> QED BY <1>1, <1>5, <1>6, <1>7, <1>8 DEF ListsSafe, TypeOK

LEMMA DeleteLists ==
  ASSUME ListsSafe, NEW d \in Devices, NEW i \in Ids, NEW t \in Stamps, Delete(d, i, t)
  PROVE  ListsSafe'
<1>1. TypeOK /\ \A e \in Devices : Loads(store[e]) BY DEF ListsSafe
<1>2. store \in [Devices -> Store] /\ store[d] \in Store BY <1>1 DEF TypeOK
<1> DEFINE w == DeleteWrites(store[d], i, t)
<1>3. Sound(w) BY <1>1, <1>2, DeleteSound
<1> HIDE DEF w
<1>4. Completes(d, w) \/ Stops(d, w, TRUE) BY DEF Delete, w
<1>5. store' \in [Devices -> Store] /\ \A e \in Devices : Loads(store'[e])
  BY <1>1, <1>2, <1>3, <1>4, StoreStep
<1>6. /\ now' \in Stamps /\ edits' \in Stamps
      /\ last' \in [Ids -> [by : Devices \union {Nobody}, gone : BOOLEAN, at : Stamps]]
  <2>1. Edited(t) /\ Remembered(d, i, t, TRUE) BY DEF Delete
  <2> QED BY <1>1, <2>1, EditedIs
<1>7. dirty' \in [Devices -> BOOLEAN] /\ cuts' \in 0 .. MaxCuts
  <2>1. CASE Stops(d, w, TRUE) BY <1>1, <2>1, StopsIs
  <2>2. CASE dirty' = [dirty EXCEPT ![d] = TRUE] /\ UNCHANGED cuts BY <1>1, <2>2 DEF TypeOK
  <2> QED BY <2>1, <2>2 DEF Delete, w
<1>8. UNCHANGED <<doc, file, born, restores>> BY DEF Delete
<1> QED BY <1>1, <1>5, <1>6, <1>7, <1>8 DEF ListsSafe, TypeOK

\* What the edit of a listed record writes.
LEMMA EditIs ==
  ASSUME ListsSafe, NEW d \in Devices, NEW i \in Ids, NEW t \in Stamps, Edit(d, i, t)
  PROVE  \E p \in Playlist :
           /\ p.at = t /\ i \in store[d].index
           /\ store' = [store EXCEPT ![d] = Put(store[d], i, p)]
<1>1. store[d] \in Store BY DEF ListsSafe, TypeOK
<1>2. i \in store[d].index /\ i \in DOMAIN store[d].records BY DEF Edit, Listed
<1>3. store[d].records[i] \in Playlist BY <1>1, <1>2, RecordsAre
<1>4. PICK q \in Outcomes(store[d].records[i]) : Saves(d, i, [q EXCEPT !.at = t]) BY DEF Edit
<1>5. q \in Playlist BY <1>3, OutcomesType
<1> DEFINE p == [q EXCEPT !.at = t]
<1>6. p \in Playlist /\ p.at = t BY <1>5, StampedType
<1>7. store' = [store EXCEPT ![d] = Put(store[d], i, p)] BY <1>4 DEF Saves, Completes
<1> HIDE DEF p
<1> QED BY <1>2, <1>6, <1>7

LEMMA RememberIs ==
  ASSUME ListsSafe, NEW d \in Devices, NEW i \in Ids, RememberTracks(d, i)
  PROVE  \E p \in Playlist :
           /\ i \in store[d].index /\ i \in DOMAIN store[d].records
           /\ p.at = store[d].records[i].at
           /\ store' = [store EXCEPT ![d] = Put(store[d], i, p)]
<1>1. store[d] \in Store BY DEF ListsSafe, TypeOK
<1>2. i \in store[d].index /\ i \in DOMAIN store[d].records BY DEF RememberTracks, Listed
<1> DEFINE q == store[d].records[i]
           bare == ToSet(q.songs) \ q.tracks
<1>3. q \in Playlist BY <1>1, <1>2, RecordsAre
<1>4. PICK known \in SUBSET bare \ {{}} : Saves(d, i, [q EXCEPT !.tracks = @ \union known])
  BY DEF RememberTracks
<1>5. ToSet(q.songs) \subseteq Refs /\ q.tracks \subseteq Refs BY <1>3, SongsAreRefs DEF Playlist
<1>6. q.tracks \union known \in SUBSET Refs BY <1>5
<1> HIDE DEF q
<1> DEFINE p == [q EXCEPT !.tracks = q.tracks \union known]
<1>7. p \in Playlist /\ p.at = q.at BY <1>3, <1>6, TracksType
<1>8. store' = [store EXCEPT ![d] = Put(store[d], i, p)] BY <1>4 DEF Saves, Completes
<1> HIDE DEF p
<1> QED BY <1>2, <1>7, <1>8 DEF q

LEMMA PutStep ==
  ASSUME ListsSafe, NEW d \in Devices, NEW i \in Ids, NEW p \in Playlist,
         store' = [store EXCEPT ![d] = Put(store[d], i, p)]
  PROVE  store' \in [Devices -> Store] /\ \A e \in Devices : Loads(store'[e])
<1>1. store \in [Devices -> Store] /\ \A e \in Devices : Loads(store[e]) BY DEF ListsSafe, TypeOK
<1>2. Put(store[d], i, p) \in Store /\ Loads(Put(store[d], i, p)) BY <1>1, PutSound
<1> QED BY <1>1, <1>2

LEMMA EditLists ==
  ASSUME ListsSafe, NEW d \in Devices, NEW i \in Ids, NEW t \in Stamps, Edit(d, i, t)
  PROVE  ListsSafe'
<1>1. TypeOK BY DEF ListsSafe
<1>2. store' \in [Devices -> Store] /\ \A e \in Devices : Loads(store'[e]) BY EditIs, PutStep
<1>3. /\ now' \in Stamps /\ edits' \in Stamps
      /\ last' \in [Ids -> [by : Devices \union {Nobody}, gone : BOOLEAN, at : Stamps]]
  <2>1. Edited(t) /\ Remembered(d, i, t, FALSE) BY DEF Edit
  <2> QED BY <1>1, <2>1, EditedIs
<1>4. dirty' \in [Devices -> BOOLEAN] /\ UNCHANGED <<doc, file, born, cuts, restores>>
  BY <1>1 DEF Edit, TypeOK
<1> QED BY <1>1, <1>2, <1>3, <1>4 DEF ListsSafe, TypeOK

LEMMA RememberLists ==
  ASSUME ListsSafe, NEW d \in Devices, NEW i \in Ids, RememberTracks(d, i)
  PROVE  ListsSafe'
<1>1. TypeOK BY DEF ListsSafe
<1>2. store' \in [Devices -> Store] /\ \A e \in Devices : Loads(store'[e]) BY RememberIs, PutStep
<1>3. /\ dirty' \in [Devices -> BOOLEAN]
      /\ UNCHANGED <<doc, file, born, now, edits, cuts, restores, last>>
  BY <1>1 DEF RememberTracks, TypeOK
<1> QED BY <1>1, <1>2, <1>3 DEF ListsSafe, TypeOK

LEMMA SyncLists ==
  ASSUME ListsSafe, NEW d \in Devices, NEW import \in BOOLEAN, Sync(d, import)
  PROVE  ListsSafe'
<1>1. TypeOK /\ \A e \in Devices : Loads(store[e]) BY DEF ListsSafe
<1>2. store \in [Devices -> Store] /\ doc \in Section /\ dirty \in [Devices -> BOOLEAN]
  BY <1>1 DEF TypeOK
<1> DEFINE w == SyncWrites(d, import)
<1>3. Sound(w)
  <2>1. CASE import BY <1>2, <2>1, WritesSound DEF SyncWrites
  <2>2. CASE ~import BY <2>2, StayingSound DEF SyncWrites
  <2> QED BY <2>1, <2>2
<1>4. Merged(d, doc, FALSE) \in Section BY <1>2, MergedIs
<1>5. /\ \/ /\ Completes(d, w)
            /\ dirty' = [dirty EXCEPT ![d] = FALSE]
            /\ doc' = Wire(Merged(d, doc, FALSE))
            /\ UNCHANGED cuts
         \/ Stops(d, w, dirty[d]) /\ UNCHANGED doc
      /\ UNCHANGED <<file, born, now, edits, restores, last>>
  BY SyncIs
<1> HIDE DEF w
<1>6. store' \in [Devices -> Store] /\ \A e \in Devices : Loads(store'[e])
  BY <1>1, <1>2, <1>3, <1>5, StoreStep
<1>7. dirty' \in [Devices -> BOOLEAN] /\ cuts' \in 0 .. MaxCuts /\ doc' \in Section
  <2>1. CASE Stops(d, w, dirty[d]) /\ UNCHANGED doc
    <3>1. dirty[d] \in BOOLEAN BY <1>2
    <3> QED BY <1>1, <1>2, <2>1, <3>1, StopsIs
  <2>2. CASE /\ dirty' = [dirty EXCEPT ![d] = FALSE] /\ UNCHANGED cuts
             /\ doc' = Wire(Merged(d, doc, FALSE))
    <3>1. doc' \in Section BY <1>4, <2>2, WireIs
    <3> QED BY <1>1, <2>2, <3>1 DEF TypeOK
  <2> QED BY <1>5, <2>1, <2>2
<1> QED BY <1>1, <1>5, <1>6, <1>7 DEF ListsSafe, TypeOK

LEMMA ImportLists ==
  ASSUME ListsSafe, NEW d \in Devices, NEW part \in Section, Restore(d, part)
  PROVE  ListsSafe'
<1>1. TypeOK /\ \A e \in Devices : Loads(store[e]) BY DEF ListsSafe
<1>2. store \in [Devices -> Store] /\ dirty \in [Devices -> BOOLEAN] BY <1>1 DEF TypeOK
<1> DEFINE w == Writes(d, part, TRUE)
<1>3. Sound(w) BY WritesSound
<1>4. /\ restores < MaxRestores /\ restores' = restores + 1
      /\ \/ /\ Completes(d, w)
            /\ dirty' = [dirty EXCEPT ![d] = @ \/ w.end # store[d]]
            /\ UNCHANGED cuts
         \/ Stops(d, w, dirty[d])
      /\ UNCHANGED <<doc, file, born, now, edits, last>>
  BY RestoreIs
<1> HIDE DEF w
<1>5. store' \in [Devices -> Store] /\ \A e \in Devices : Loads(store'[e])
  BY <1>1, <1>2, <1>3, <1>4, StoreStep
<1>6. dirty' \in [Devices -> BOOLEAN] /\ cuts' \in 0 .. MaxCuts
  <2>1. CASE Stops(d, w, dirty[d])
    <3>1. dirty[d] \in BOOLEAN BY <1>2
    <3> QED BY <1>1, <2>1, <3>1, StopsIs
  <2>2. CASE dirty' = [dirty EXCEPT ![d] = @ \/ w.end # store[d]] /\ UNCHANGED cuts
    <3>1. PICK b \in BOOLEAN : b = (dirty[d] \/ w.end # store[d]) BY <1>2
    <3>2. dirty' = [dirty EXCEPT ![d] = b] BY <2>2, <3>1
    <3> QED BY <1>1, <1>2, <2>2, <3>2 DEF TypeOK
  <2> QED BY <1>4, <2>1, <2>2
<1>7. restores' \in 0 .. MaxRestores
  BY <1>1, <1>4, PlaylistsAssumption DEF TypeOK, PlaylistsAssumption
<1> QED BY <1>1, <1>4, <1>5, <1>6, <1>7 DEF ListsSafe, TypeOK

LEMMA ExportLists ==
  ASSUME ListsSafe, NEW d \in Devices, Export(d) \/ \E i \in Ids : EditGone(d, i)
  PROVE  ListsSafe'
<1>1. TypeOK BY DEF ListsSafe
<1>2. store[d] \in Store BY <1>1 DEF TypeOK
<1>3. [items |-> Local(store[d]), graves |-> store[d].graves] \in Section
  BY <1>2, LocalIs, RecordsAre DEF Section
<1>4. ExportSection(store[d]) \in Section BY <1>3, WireIs DEF ExportSection
<1>5. CASE Export(d)
  BY <1>1, <1>4, <1>5 DEF ListsSafe, TypeOK, Export
<1>6. CASE \E i \in Ids : EditGone(d, i)
  BY <1>1, <1>6 DEF ListsSafe, TypeOK, EditGone
<1> QED BY <1>5, <1>6

LEMMA InitLists == Init => ListsSafe
<1> SUFFICES ASSUME Init PROVE ListsSafe
  OBVIOUS
<1>0. 0 \in Stamps /\ 0 \in 0 .. MaxCuts /\ 0 \in 0 .. MaxRestores
  BY PlaylistsAssumption DEF Stamps, PlaylistsAssumption
<1>1. NoGraves \in [Ids -> Stamps] BY <1>0 DEF NoGraves, NoGrave
<1>2. NoItems \in Partial(Ids, Playlist) /\ DOMAIN NoItems = {}
  <2>1. NoItems \in [{} -> Playlist] /\ {} \in SUBSET Ids BY DEF NoItems
  <2> QED BY <2>1, PartialIntro
<1>3. EmptyStore \in Store /\ Loads(EmptyStore) BY <1>1, <1>2 DEF EmptyStore, Store, Loads
<1>4. [items |-> NoItems, graves |-> NoGraves] \in Section BY <1>1, <1>2 DEF Section
<1>5. doc \in Section
  <2>1. PICK n \in Names, r \in Refs :
          doc = [items |-> [i \in Legacy |-> LegacyPlaylist(n, r)], graves |-> NoGraves]
    BY DEF Init
  <2>2. LegacyPlaylist(n, r) \in Playlist BY <1>0, ShortLists DEF LegacyPlaylist, Playlist
  <2> DEFINE p == LegacyPlaylist(n, r)
             f == [i \in Legacy |-> p]
  <2>3. f \in [Legacy -> Playlist] /\ Legacy \in SUBSET Ids
    <3> HIDE DEF p
    <3> QED BY <2>2, PlaylistsAssumption DEF PlaylistsAssumption, p
  <2>4. doc = [items |-> f, graves |-> NoGraves] BY <2>1
  <2> HIDE DEF f
  <2>5. f \in Partial(Ids, Playlist) BY <2>3, PartialIntro
  <2> QED BY <1>1, <2>4, <2>5 DEF Section
<1>6. last \in [Ids -> [by : Devices \union {Nobody}, gone : BOOLEAN, at : Stamps]]
  BY <1>0 DEF Init, Untouched
<1>7. store \in [Devices -> Store] /\ \A d \in Devices : Loads(store[d]) BY <1>3 DEF Init
<1>8. born \subseteq Ids BY PlaylistsAssumption DEF Init, PlaylistsAssumption
<1> QED BY <1>0, <1>4, <1>5, <1>6, <1>7, <1>8 DEF Init, ListsSafe, TypeOK

LEMMA NextLists == ListsSafe /\ [Next]_vars => ListsSafe'
<1> SUFFICES ASSUME ListsSafe, [Next]_vars PROVE ListsSafe'
  OBVIOUS
<1>0. doc \in Section /\ file \in Section BY DEF ListsSafe, TypeOK
<1>1. ASSUME NEW d \in Devices, NEW i \in Ids, NEW t \in Stamps,
             \/ \E n \in Names : Create(d, i, n, t)
             \/ Delete(d, i, t)
             \/ Edit(d, i, t)
      PROVE  ListsSafe'
  BY <1>1, CreateLists, DeleteLists, EditLists
<1>2. ASSUME NEW d \in Devices, NEW i \in Ids, EditGone(d, i) \/ RememberTracks(d, i)
      PROVE  ListsSafe'
  BY <1>2, ExportLists, RememberLists
<1>3. ASSUME NEW d \in Devices, NEW import \in BOOLEAN, Sync(d, import) PROVE ListsSafe'
  BY <1>3, SyncLists
<1>4. ASSUME NEW d \in Devices, Restore(d, doc) \/ Restore(d, file) \/ Export(d) PROVE ListsSafe'
  BY <1>0, <1>4, ImportLists, ExportLists
<1>5. CASE UNCHANGED vars BY <1>5 DEF vars, ListsSafe, TypeOK
<1> QED BY <1>1, <1>2, <1>3, <1>4, <1>5 DEF Next

-----------------------------------------------------------------------------
(* Stores that no cut operation left anything in: all they hold is listed  *)

Whole == cuts = 0 => \A d \in Devices : DOMAIN store[d].records \subseteq store[d].index

\* What no operation left unlisted is the index itself.
LEMMA WholeIs ==
  ASSUME ListsSafe, Whole, cuts = 0, NEW d \in Devices
  PROVE  /\ store[d] \in Store
         /\ DOMAIN store[d].records = store[d].index
         /\ DOMAIN Local(store[d]) = store[d].index
         /\ \A i \in store[d].index : Local(store[d])[i] = store[d].records[i]
<1>1. store[d] \in Store /\ Loads(store[d]) BY DEF ListsSafe, TypeOK
<1>2. DOMAIN store[d].records = store[d].index BY <1>1 DEF Whole, Loads
<1> QED BY <1>1, <1>2, LocalIs

\* An operation that was not cut ran to its end, and none was cut before it.
LEMMA UncutIs ==
  ASSUME ListsSafe, NEW d \in Devices, NEW writes, NEW mark,
         \/ Completes(d, writes) /\ UNCHANGED cuts
         \/ Stops(d, writes, mark),
         cuts' = 0
  PROVE  /\ cuts = 0
         /\ store' = [store EXCEPT ![d] = writes.end]
         /\ store'[d] = writes.end
         /\ \A e \in Devices \ {d} : store'[e] = store[e]
<1>1. cuts \in 0 .. MaxCuts /\ store \in [Devices -> Store] BY DEF ListsSafe, TypeOK
<1>2. ~Stops(d, writes, mark) BY <1>1, PlaylistsAssumption DEF Stops, PlaylistsAssumption
<1> QED BY <1>1, <1>2 DEF Completes

\* A pass that was not cut: what it writes to the document, and to the store.
LEMMA SyncEnds ==
  ASSUME ListsSafe, NEW d \in Devices, NEW import \in BOOLEAN, Sync(d, import), cuts' = 0
  PROVE  /\ cuts = 0
         /\ \A e \in Devices \ {d} : store'[e] = store[e]
         /\ IF import
            THEN Takes(store[d], store'[d], Merged(d, doc, FALSE), Buried(doc, store[d].graves, FALSE))
            ELSE store'[d] = store[d]
         /\ doc' = Wire(Merged(d, doc, FALSE))
         /\ Merged(d, doc, FALSE) \in Section
         /\ Agrees(Merged(d, doc, FALSE), doc, Local(store[d]), store[d].graves, FALSE)
         /\ UNCHANGED <<restores, last, now>>
<1>0. doc \in Section BY DEF ListsSafe, TypeOK
<1> DEFINE w == SyncWrites(d, import)
<1>1. /\ \/ /\ Completes(d, w)
            /\ doc' = Wire(Merged(d, doc, FALSE))
            /\ UNCHANGED cuts
         \/ Stops(d, w, dirty[d])
      /\ UNCHANGED <<restores, last, now>>
  BY SyncIs
<1> HIDE DEF w
<1>2. /\ cuts = 0 /\ store'[d] = w.end /\ \A e \in Devices \ {d} : store'[e] = store[e]
  BY <1>1, UncutIs
<1>3. ~Stops(d, w, dirty[d])
  <2>1. cuts \in 0 .. MaxCuts BY DEF ListsSafe, TypeOK
  <2> QED BY <1>2, <2>1 DEF Stops
<1>4. CASE import
  <2>1. w = Writes(d, doc, FALSE) BY <1>4 DEF w, SyncWrites
  <2> QED BY <1>0, <1>1, <1>2, <1>3, <1>4, <2>1, MergedIs, WritesSound
<1>5. CASE ~import
  <2>1. w.end = store[d] BY <1>5 DEF w, SyncWrites
  <2> QED BY <1>0, <1>1, <1>2, <1>3, <1>5, <2>1, MergedIs
<1> QED BY <1>4, <1>5

LEMMA ImportEnds ==
  ASSUME ListsSafe, NEW d \in Devices, NEW part \in Section, Restore(d, part), cuts' = 0
  PROVE  /\ cuts = 0
         /\ \A e \in Devices \ {d} : store'[e] = store[e]
         /\ Takes(store[d], store'[d], Merged(d, part, TRUE), Buried(part, store[d].graves, TRUE))
         /\ Agrees(Merged(d, part, TRUE), part, Local(store[d]), store[d].graves, TRUE)
<1> DEFINE w == Writes(d, part, TRUE)
<1>1. (Completes(d, w) /\ UNCHANGED cuts) \/ Stops(d, w, dirty[d]) BY RestoreIs
<1> HIDE DEF w
<1>2. /\ cuts = 0 /\ store'[d] = w.end /\ \A e \in Devices \ {d} : store'[e] = store[e]
  BY <1>1, UncutIs
<1> QED BY <1>2, MergedIs, WritesSound DEF w

LEMMA OthersIs ==
  ASSUME NEW s \in Store, NEW r \in Store, NEW i \in Ids, Others(s, r, i),
         DOMAIN s.records \subseteq s.index, i \in DOMAIN r.records => i \in r.index
  PROVE  DOMAIN r.records \subseteq r.index
<1>1. DOMAIN r.records \subseteq Ids BY RecordsAre
<1> QED BY <1>1 DEF Others

\* An edit that was not cut, whatever it is: one record of one device.
EditEnds(d, i, r) ==
  /\ r \in Store /\ Others(store[d], r, i)
  /\ store'[d] = r /\ \A e \in Devices \ {d} : store'[e] = store[e]
  /\ i \in DOMAIN r.records <=> i \in r.index

LEMMA CreateEnds ==
  ASSUME ListsSafe, Whole, NEW d \in Devices, NEW i \in Ids, NEW n \in Names, NEW t \in Stamps,
         Create(d, i, n, t), cuts' = 0
  PROVE  /\ cuts = 0
         /\ \E r : EditEnds(d, i, r) /\ i \in r.index /\ r.records[i].at = t
<1>1. store[d] \in Store /\ Loads(store[d]) BY DEF ListsSafe, TypeOK
<1> DEFINE w == CreateWrites(store[d], i, n, t)
<1>2. /\ Sound(w) /\ i \in DOMAIN w.end.records /\ w.end.records[i].at = t /\ i \in w.end.index
      /\ Others(store[d], w.end, i)
  BY <1>1, CreateSound
<1>3. (Completes(d, w) /\ UNCHANGED cuts) \/ Stops(d, w, TRUE) BY DEF Create
<1> HIDE DEF w
<1>4. /\ cuts = 0 /\ store'[d] = w.end /\ \A e \in Devices \ {d} : store'[e] = store[e]
  BY <1>3, UncutIs
<1>5. w.end \in Store BY <1>2 DEF Sound
<1>6. EditEnds(d, i, w.end) BY <1>2, <1>4, <1>5 DEF EditEnds
<1> QED BY <1>2, <1>4, <1>6

LEMMA DeleteEnds ==
  ASSUME ListsSafe, Whole, NEW d \in Devices, NEW i \in Ids, NEW t \in Stamps,
         Delete(d, i, t), cuts' = 0
  PROVE  /\ cuts = 0
         /\ \E r : EditEnds(d, i, r) /\ i \notin r.index /\ r.graves[i] = t
<1>1. store[d] \in Store /\ Loads(store[d]) BY DEF ListsSafe, TypeOK
<1> DEFINE w == DeleteWrites(store[d], i, t)
<1>2. /\ Sound(w) /\ i \notin DOMAIN w.end.records /\ i \notin w.end.index /\ w.end.graves[i] = t
      /\ Others(store[d], w.end, i)
  BY <1>1, DeleteSound
<1>3. (Completes(d, w) /\ UNCHANGED cuts) \/ Stops(d, w, TRUE) BY DEF Delete
<1> HIDE DEF w
<1>4. /\ cuts = 0 /\ store'[d] = w.end /\ \A e \in Devices \ {d} : store'[e] = store[e]
  BY <1>3, UncutIs
<1>5. w.end \in Store BY <1>2 DEF Sound
<1>6. EditEnds(d, i, w.end) BY <1>2, <1>4, <1>5 DEF EditEnds
<1> QED BY <1>2, <1>4, <1>6

LEMMA PutEnds ==
  ASSUME ListsSafe, NEW d \in Devices, NEW i \in Ids, NEW p \in Playlist, i \in store[d].index,
         store' = [store EXCEPT ![d] = Put(store[d], i, p)]
  PROVE  LET r == Put(store[d], i, p)
         IN  EditEnds(d, i, r) /\ i \in r.index /\ r.records[i] = p
<1>1. store \in [Devices -> Store] /\ store[d] \in Store /\ Loads(store[d]) BY DEF ListsSafe, TypeOK
<1> DEFINE r == Put(store[d], i, p)
<1>2. /\ r \in Store /\ i \in DOMAIN r.records /\ r.records[i] = p /\ i \in r.index
      /\ Others(store[d], r, i)
  BY <1>1, PutSound
<1>3. store' = [store EXCEPT ![d] = r] OBVIOUS
<1> HIDE DEF r
<1>4. store'[d] = r /\ \A e \in Devices \ {d} : store'[e] = store[e] BY <1>1, <1>3
<1>5. EditEnds(d, i, r) BY <1>2, <1>4 DEF EditEnds
<1> QED BY <1>2, <1>5 DEF r

LEMMA NextWhole == ListsSafe /\ Whole /\ [Next]_vars => Whole'
<1> SUFFICES ASSUME ListsSafe, Whole, [Next]_vars, cuts' = 0, NEW e \in Devices
             PROVE  cuts = 0 /\ DOMAIN store'[e].records \subseteq store'[e].index
  BY DEF Whole
<1>0. /\ doc \in Section /\ file \in Section
      /\ \A d \in Devices : store[d] \in Store
  BY DEF ListsSafe, TypeOK
<1>e. ASSUME NEW d \in Devices, NEW i \in Ids, cuts = 0, NEW r, EditEnds(d, i, r)
      PROVE  cuts = 0 /\ DOMAIN store'[e].records \subseteq store'[e].index
  <2>1. CASE e # d BY <1>e, <2>1 DEF EditEnds, Whole
  <2>2. CASE e = d
    <3>1. DOMAIN store[d].records \subseteq store[d].index BY <1>e DEF Whole
    <3> QED BY <1>0, <1>e, <2>2, <3>1, OthersIs DEF EditEnds
  <2> QED BY <2>1, <2>2
<1>t. ASSUME NEW d \in Devices, cuts = 0, NEW out, NEW buried,
             Takes(store[d], store'[d], out, buried), \A f \in Devices \ {d} : store'[f] = store[f]
      PROVE  cuts = 0 /\ DOMAIN store'[e].records \subseteq store'[e].index
  <2>1. CASE e # d BY <1>t, <2>1 DEF Whole
  <2>2. CASE e = d BY <1>t, <2>2 DEF Takes, Whole
  <2> QED BY <2>1, <2>2
<1>1. ASSUME NEW d \in Devices, NEW i \in Ids, NEW t \in Stamps,
             \/ \E n \in Names : Create(d, i, n, t)
             \/ Delete(d, i, t)
      PROVE  cuts = 0 /\ DOMAIN store'[e].records \subseteq store'[e].index
  BY <1>1, <1>e, CreateEnds, DeleteEnds
<1>2. ASSUME NEW d \in Devices, NEW i \in Ids, NEW t \in Stamps, Edit(d, i, t)
      PROVE  cuts = 0 /\ DOMAIN store'[e].records \subseteq store'[e].index
  <2>1. cuts = 0 BY <1>2 DEF Edit
  <2>2. PICK p \in Playlist : /\ i \in store[d].index
                              /\ store' = [store EXCEPT ![d] = Put(store[d], i, p)]
    BY <1>2, EditIs
  <2>3. EditEnds(d, i, Put(store[d], i, p)) BY <2>2, PutEnds
  <2> QED BY <1>e, <2>1, <2>3
<1>3. ASSUME NEW d \in Devices, NEW i \in Ids, RememberTracks(d, i)
      PROVE  cuts = 0 /\ DOMAIN store'[e].records \subseteq store'[e].index
  <2>1. cuts = 0 BY <1>3 DEF RememberTracks
  <2>2. PICK p \in Playlist : /\ i \in store[d].index
                              /\ store' = [store EXCEPT ![d] = Put(store[d], i, p)]
    BY <1>3, RememberIs
  <2>3. EditEnds(d, i, Put(store[d], i, p)) BY <2>2, PutEnds
  <2> QED BY <1>e, <2>1, <2>3
<1>4. ASSUME NEW d \in Devices, NEW import \in BOOLEAN, Sync(d, import)
      PROVE  cuts = 0 /\ DOMAIN store'[e].records \subseteq store'[e].index
  <2>1. /\ cuts = 0 /\ \A f \in Devices \ {d} : store'[f] = store[f]
        /\ IF import
           THEN Takes(store[d], store'[d], Merged(d, doc, FALSE), Buried(doc, store[d].graves, FALSE))
           ELSE store'[d] = store[d]
    BY <1>4, SyncEnds
  <2>2. CASE import BY <1>t, <2>1, <2>2
  <2>3. CASE ~import BY <2>1, <2>3 DEF Whole
  <2> QED BY <2>2, <2>3
<1>5. ASSUME NEW d \in Devices, Restore(d, doc) \/ Restore(d, file)
      PROVE  cuts = 0 /\ DOMAIN store'[e].records \subseteq store'[e].index
  <2>1. PICK part \in {doc, file} : Restore(d, part) BY <1>5
  <2>2. part \in Section BY <1>0
  <2>3. /\ cuts = 0 /\ \A f \in Devices \ {d} : store'[f] = store[f]
        /\ Takes(store[d], store'[d], Merged(d, part, TRUE), Buried(part, store[d].graves, TRUE))
    BY <2>1, <2>2, ImportEnds
  <2> QED BY <1>t, <2>3
<1>6. CASE \/ \E d \in Devices, i \in Ids : EditGone(d, i)
           \/ \E d \in Devices : Export(d)
           \/ UNCHANGED vars
  BY <1>6 DEF EditGone, Export, vars, Whole
<1> QED BY <1>1, <1>2, <1>3, <1>4, <1>5, <1>6 DEF Next

-----------------------------------------------------------------------------
(* The latest edit                                                         *)

\* No copy of a playlist, on a device or in the document, is newer than the
\* latest edit of it.
Bounded(i) ==
  /\ last[i].at <= now
  /\ last[i].by # Nobody => last[i].at >= 1
  /\ \A d \in Devices : i \in DOMAIN store[d].records => store[d].records[i].at <= last[i].at
  /\ i \in DOMAIN doc.items => doc.items[i].at <= last[i].at

\* A store that holds an edit: the playlist under a tombstone at least as new as
\* the deletion, or listed as the edit left it.
Holds(s, edit, i) ==
  IF edit.gone THEN i \notin s.index /\ s.graves[i] >= edit.at
  ELSE i \in s.index /\ s.records[i].at = edit.at

Held(i) == last[i].by # Nobody => Holds(store[last[i].by], last[i], i)

Authored == restores = 0 /\ cuts = 0 => \A i \in Ids : Bounded(i) /\ Held(i)

PlaylistsInv == ListsSafe /\ Whole /\ Authored

LEMMA LastIs ==
  ASSUME ListsSafe, NEW i \in Ids
  PROVE  /\ last[i].by \in Devices \union {Nobody} /\ last[i].gone \in BOOLEAN
         /\ last[i].at \in Stamps /\ now \in Stamps
  BY DEF ListsSafe, TypeOK

\* An edit that was not cut is the latest of its playlist, and held.
LEMMA EditAuthored ==
  ASSUME PlaylistsInv, restores = 0, cuts = 0, NEW d \in Devices, NEW i \in Ids, NEW t \in Stamps,
         NEW gone \in BOOLEAN, Edited(t), Remembered(d, i, t, gone), UNCHANGED doc,
         NEW r, EditEnds(d, i, r),
         IF gone THEN i \notin r.index /\ r.graves[i] = t ELSE i \in r.index /\ r.records[i].at = t
  PROVE  \A j \in Ids : Bounded(j)' /\ Held(j)'
<1> SUFFICES ASSUME NEW j \in Ids PROVE Bounded(j)' /\ Held(j)'
  OBVIOUS
<1>0. ListsSafe /\ Bounded(j) /\ Held(j) /\ Bounded(i) /\ Nobody \notin Devices
  BY PlaylistsAssumption DEF PlaylistsInv, Authored, PlaylistsAssumption
<1>1. /\ t >= now /\ t >= 1 /\ now' = t /\ now \in Stamps
      /\ last'[i] = [by |-> d, gone |-> gone, at |-> t]
      /\ \A k \in Ids \ {i} : last'[k] = last[k]
  BY <1>0, EditedIs DEF ListsSafe, TypeOK
<1>2. /\ last[j].at \in Stamps /\ last[i].at \in Stamps /\ last[j].by \in Devices \union {Nobody}
  BY <1>0, LastIs
<1>3. /\ r \in Store /\ Others(store[d], r, i)
      /\ store'[d] = r /\ \A e \in Devices \ {d} : store'[e] = store[e]
      /\ i \in DOMAIN r.records <=> i \in r.index
  BY DEF EditEnds
<1>4. /\ \A e \in Devices : \A k \in DOMAIN store[e].records : store[e].records[k].at \in Stamps
      /\ \A k \in DOMAIN doc.items : doc.items[k].at \in Stamps
  BY <1>0, RecordsAre, ItemsAre DEF ListsSafe, TypeOK
<1>5. CASE j = i
  <2>1. last'[j].at = t /\ last'[j].by = d /\ last'[j].gone = gone BY <1>1, <1>5
  <2>2. ASSUME NEW e \in Devices, j \in DOMAIN store'[e].records
        PROVE  store'[e].records[j].at <= t
    <3>1. CASE e = d BY <1>3, <1>5, <2>2, <3>1 DEF Stamps
    <3>2. CASE e # d
      <4>1. store'[e] = store[e] BY <1>3, <3>2
      <4>2. store[e].records[j].at <= last[j].at BY <1>0, <2>2, <4>1 DEF Bounded
      <4>3. store[e].records[j].at \in Stamps BY <1>4, <2>2, <4>1
      <4>4. last[j].at <= now BY <1>0 DEF Bounded
      <4> QED BY <1>1, <1>2, <4>1, <4>2, <4>3, <4>4 DEF Stamps
    <3> QED BY <3>1, <3>2
  <2>3. j \in DOMAIN doc'.items => doc'.items[j].at <= t
    <3> SUFFICES ASSUME j \in DOMAIN doc.items PROVE doc.items[j].at <= t
      OBVIOUS
    <3>1. doc.items[j].at <= last[j].at /\ last[j].at <= now BY <1>0 DEF Bounded
    <3>2. doc.items[j].at \in Stamps BY <1>4
    <3> QED BY <1>1, <1>2, <3>1, <3>2 DEF Stamps
  <2>4. Bounded(j)' BY <1>1, <2>1, <2>2, <2>3 DEF Bounded, Stamps
  <2>5. Holds(r, last'[j], j) BY <1>5, <2>1 DEF Holds, Stamps
  <2>6. Held(j)' BY <1>3, <2>1, <2>5 DEF Held, Holds
  <2> QED BY <2>4, <2>6
<1>6. CASE j # i
  <2>1. last'[j] = last[j] BY <1>1, <1>6
  <2>2. \A e \in Devices :
          /\ j \in DOMAIN store'[e].records <=> j \in DOMAIN store[e].records
          /\ j \in DOMAIN store[e].records => store'[e].records[j] = store[e].records[j]
          /\ j \in store'[e].index <=> j \in store[e].index
          /\ store'[e].graves[j] = store[e].graves[j]
    BY <1>3, <1>6 DEF Others
  <2>3. last[j].at <= now' BY <1>0, <1>1, <1>2 DEF Bounded, Stamps
  <2>4. Bounded(j)' BY <1>0, <2>1, <2>2, <2>3 DEF Bounded
  <2>5. Held(j)'
    <3> SUFFICES ASSUME last[j].by # Nobody PROVE Holds(store'[last[j].by], last[j], j)
      BY <2>1 DEF Held, Holds
    <3>1. last[j].by \in Devices /\ Holds(store[last[j].by], last[j], j) BY <1>0, <1>2 DEF Held
    <3>2. store[last[j].by].index \subseteq DOMAIN store[last[j].by].records
      BY <1>0, <3>1 DEF ListsSafe, Loads
    <3> QED BY <2>2, <3>1, <3>2 DEF Holds
  <2> QED BY <2>4, <2>5
<1> QED BY <1>5, <1>6

\* Metadata that is resolved changes no stamp.
LEMMA RememberAuthored ==
  ASSUME PlaylistsInv, restores = 0, cuts = 0, NEW d \in Devices, NEW i \in Ids, RememberTracks(d, i)
  PROVE  \A j \in Ids : Bounded(j)' /\ Held(j)'
<1> SUFFICES ASSUME NEW j \in Ids PROVE Bounded(j)' /\ Held(j)'
  OBVIOUS
<1>0. ListsSafe /\ Bounded(j) /\ Held(j) /\ last[j].by \in Devices \union {Nobody}
  BY LastIs DEF PlaylistsInv, Authored
<1>1. UNCHANGED <<doc, now, last>> BY DEF RememberTracks
<1>2. PICK p \in Playlist : /\ i \in store[d].index /\ i \in DOMAIN store[d].records
                            /\ p.at = store[d].records[i].at
                            /\ store' = [store EXCEPT ![d] = Put(store[d], i, p)]
  BY <1>0, RememberIs
<1> DEFINE r == Put(store[d], i, p)
<1>3. EditEnds(d, i, r) /\ i \in r.index /\ r.records[i] = p BY <1>0, <1>2, PutEnds
<1>4. store \in [Devices -> Store] /\ store[d] \in Store BY <1>0 DEF ListsSafe, TypeOK
<1>5. r.graves = store[d].graves BY <1>4, PutIs
<1> HIDE DEF r
<1>6. \A e \in Devices :
        /\ j \in DOMAIN store'[e].records <=> j \in DOMAIN store[e].records
        /\ j \in DOMAIN store[e].records => store'[e].records[j].at = store[e].records[j].at
        /\ j \in store'[e].index <=> j \in store[e].index
        /\ store'[e].graves[j] = store[e].graves[j]
  <2> SUFFICES ASSUME NEW e \in Devices
               PROVE  /\ j \in DOMAIN store'[e].records <=> j \in DOMAIN store[e].records
                      /\ j \in DOMAIN store[e].records => store'[e].records[j].at = store[e].records[j].at
                      /\ j \in store'[e].index <=> j \in store[e].index
                      /\ store'[e].graves[j] = store[e].graves[j]
    OBVIOUS
  <2>1. CASE e # d BY <1>3, <2>1 DEF EditEnds
  <2>2. CASE e = d /\ j # i BY <1>3, <2>2 DEF EditEnds, Others
  <2>3. CASE e = d /\ j = i BY <1>2, <1>3, <1>5, <2>3 DEF EditEnds
  <2> QED BY <2>1, <2>2, <2>3
<1>7. Bounded(j)' BY <1>0, <1>1, <1>6 DEF Bounded
<1>8. Held(j)'
  <2> SUFFICES ASSUME last[j].by # Nobody PROVE Holds(store'[last[j].by], last[j], j)
    BY <1>1 DEF Held, Holds
  <2>1. last[j].by \in Devices /\ Holds(store[last[j].by], last[j], j) BY <1>0 DEF Held
  <2>2. store[last[j].by].index \subseteq DOMAIN store[last[j].by].records
    BY <1>0, <2>1 DEF ListsSafe, Loads
  <2> QED BY <1>6, <2>1, <2>2 DEF Holds
<1> QED BY <1>7, <1>8

\* What a pass agrees on is no newer than the latest edits, and a playlist its
\* device deleted last is not part of it.
LEMMA AgreedBounded ==
  ASSUME PlaylistsInv, restores = 0, cuts = 0, NEW d \in Devices, NEW i \in Ids
  PROVE  /\ i \in DOMAIN Merged(d, doc, FALSE).items =>
              Merged(d, doc, FALSE).items[i].at <= last[i].at
         /\ last[i].by = d /\ last[i].gone => i \notin DOMAIN Merged(d, doc, FALSE).items
         /\ last[i].by = d /\ last[i].gone => Merged(d, doc, FALSE).graves[i] >= last[i].at
<1> DEFINE out == Merged(d, doc, FALSE)
           local == Local(store[d])
           graves == store[d].graves
           risen == Risen(doc, graves, FALSE)
<1>0. /\ ListsSafe /\ Whole /\ Bounded(i) /\ Held(i) /\ Nobody \notin Devices /\ doc \in Section
      /\ last[i].at \in Stamps
  BY LastIs, PlaylistsAssumption DEF PlaylistsInv, Authored, PlaylistsAssumption, ListsSafe, TypeOK
<1>1. Agrees(out, doc, local, graves, FALSE) /\ out \in Section BY <1>0, MergedIs
<1>2. /\ DOMAIN local = store[d].index /\ DOMAIN store[d].records = store[d].index
      /\ \A k \in store[d].index : local[k] = store[d].records[k]
      /\ store[d] \in Store
  BY <1>0, WholeIs
<1>3. graves \in [Ids -> Stamps] BY <1>2, RecordsAre
<1>4. /\ \A k \in risen : \/ LatestGrave(doc, graves, k) = NoGrave
                          \/ doc.items[k].at > LatestGrave(doc, graves, k)
      /\ LatestGrave(doc, graves, i) >= graves[i] /\ LatestGrave(doc, graves, i) \in Stamps
  BY <1>0, <1>3, RisenIs
<1>5. i \in DOMAIN local => local[i].at <= last[i].at BY <1>0, <1>2 DEF Bounded
<1>6. i \in DOMAIN doc.items => doc.items[i].at <= last[i].at /\ doc.items[i].at \in Stamps
  BY <1>0, ItemsAre DEF Bounded
<1> HIDE DEF out, local, risen
<1>7. i \in DOMAIN out.items => out.items[i].at <= last[i].at
  <2>1. CASE i \in DOMAIN local \ risen BY <1>1, <1>5, <2>1 DEF Agrees, risen
  <2>2. CASE i \in risen \ DOMAIN local BY <1>1, <1>6, <2>2 DEF Agrees, risen
  <2>3. CASE i \in risen \intersect DOMAIN local
    <3>1. out.items[i].at \in {doc.items[i].at, local[i].at} /\ i \in DOMAIN doc.items
      BY <1>1, <2>3 DEF Agrees, risen
    <3> QED BY <1>5, <1>6, <2>3, <3>1
  <2>4. CASE i \notin risen /\ i \notin DOMAIN local BY <1>1, <2>4 DEF Agrees, risen
  <2> QED BY <2>1, <2>2, <2>3, <2>4
<1>8. ASSUME last[i].by = d, last[i].gone
      PROVE  i \notin DOMAIN out.items /\ out.graves[i] >= last[i].at
  <2>1. i \notin store[d].index /\ graves[i] >= last[i].at /\ last[i].at >= 1
    BY <1>0, <1>8 DEF Held, Holds, Bounded
  <2>2. graves[i] \in Stamps BY <1>3
  <2>3. LatestGrave(doc, graves, i) >= last[i].at /\ LatestGrave(doc, graves, i) # NoGrave
    BY <1>0, <1>4, <2>1, <2>2 DEF Stamps, NoGrave
  <2>4. i \notin risen
    <3> SUFFICES ASSUME i \in risen PROVE FALSE
      OBVIOUS
    <3>1. i \in DOMAIN doc.items BY <1>1 DEF Agrees, risen
    <3>2. doc.items[i].at > LatestGrave(doc, graves, i) BY <1>4, <2>3
    <3> QED BY <1>0, <1>4, <1>6, <2>3, <3>1, <3>2 DEF Stamps
  <2>5. i \notin DOMAIN out.items BY <1>1, <1>2, <2>1, <2>4 DEF Agrees, risen
  <2>6. out.graves[i] = LatestGrave(doc, graves, i) BY <1>1, <2>4 DEF Agrees, risen
  <2> QED BY <2>3, <2>5, <2>6
<1> QED BY <1>7, <1>8 DEF out

LEMMA SyncAuthored ==
  ASSUME PlaylistsInv, restores = 0, NEW d \in Devices, NEW import \in BOOLEAN,
         Sync(d, import), cuts' = 0
  PROVE  \A i \in Ids : Bounded(i)' /\ Held(i)'
<1> SUFFICES ASSUME NEW i \in Ids PROVE Bounded(i)' /\ Held(i)'
  OBVIOUS
<1> DEFINE out == Merged(d, doc, FALSE)
           buried == Buried(doc, store[d].graves, FALSE)
<1>0. ListsSafe /\ Whole BY DEF PlaylistsInv
<1>1. /\ cuts = 0
      /\ \A e \in Devices \ {d} : store'[e] = store[e]
      /\ IF import THEN Takes(store[d], store'[d], out, buried) ELSE store'[d] = store[d]
      /\ doc' = Wire(out) /\ out \in Section
      /\ Agrees(out, doc, Local(store[d]), store[d].graves, FALSE)
      /\ UNCHANGED <<restores, last, now>>
  BY <1>0, SyncEnds
<1>2. Bounded(i) /\ Held(i) /\ Nobody \notin Devices
  BY <1>1, PlaylistsAssumption DEF PlaylistsInv, Authored, PlaylistsAssumption
<1>3. /\ last[i].by \in Devices \union {Nobody} /\ last[i].gone \in BOOLEAN /\ last[i].at \in Stamps
  BY <1>0, LastIs
<1>4. /\ i \in DOMAIN out.items => out.items[i].at <= last[i].at
      /\ last[i].by = d /\ last[i].gone => i \notin DOMAIN out.items /\ out.graves[i] >= last[i].at
  BY <1>1, AgreedBounded
<1>5. /\ DOMAIN store[d].records = store[d].index /\ DOMAIN Local(store[d]) = store[d].index
      /\ store[d] \in Store
  BY <1>0, <1>1, WholeIs
<1>6. store[d].index \subseteq DOMAIN out.items BY <1>1, <1>5 DEF Agrees
<1>7. /\ \A k \in DOMAIN out.items : out.items[k] \in Playlist /\ out.items[k].at \in Stamps
      /\ \A k \in DOMAIN store[d].records : store[d].records[k].at \in Stamps
  BY <1>1, <1>5, ItemsAre, RecordsAre
<1> HIDE DEF out, buried
<1>8. i \in DOMAIN doc'.items => doc'.items[i].at <= last[i].at
  BY <1>1, <1>4, WireIs
<1>9. CASE ~import
  <2>1. \A e \in Devices : store'[e] = store[e] BY <1>1, <1>9
  <2>2. Bounded(i)' BY <1>1, <1>2, <1>8, <2>1 DEF Bounded
  <2>3. Held(i)' BY <1>1, <1>2, <1>3, <2>1 DEF Held, Holds
  <2> QED BY <2>2, <2>3
<1>10. CASE import
  <2>1. Takes(store[d], store'[d], out, buried) BY <1>1, <1>10
  <2>2. ASSUME i \in DOMAIN store'[d].records
        PROVE  /\ i \in DOMAIN out.items
               /\ store'[d].records[i] = Agreed(store[d], i, out.items[i])
    BY <1>5, <1>6, <2>1, <2>2 DEF Takes
  <2>3. ASSUME i \in DOMAIN store'[d].records
        PROVE  /\ store'[d].records[i].at <= last[i].at
               /\ i \in DOMAIN store[d].records => store'[d].records[i].at >= store[d].records[i].at
    <3>1. i \in DOMAIN out.items /\ store'[d].records[i] = Agreed(store[d], i, out.items[i])
      BY <2>2, <2>3
    <3>2. out.items[i] \in Playlist BY <1>7, <3>1
    <3>3. CASE i \notin DOMAIN store[d].records
      <4>1. store'[d].records[i] = out.items[i] BY <1>5, <3>1, <3>2, <3>3, AgreedIs
      <4> QED BY <1>4, <3>1, <3>3, <4>1
    <3>4. CASE i \in DOMAIN store[d].records
      <4>1. /\ store'[d].records[i].at \in {out.items[i].at, store[d].records[i].at}
            /\ store'[d].records[i].at >= store[d].records[i].at
        BY <1>5, <3>1, <3>2, <3>4, AgreedIs
      <4>2. store[d].records[i].at <= last[i].at BY <1>2, <3>4 DEF Bounded
      <4> QED BY <1>4, <3>1, <4>1, <4>2
    <3> QED BY <3>3, <3>4
  <2>4. Bounded(i)'
    <3>1. \A e \in Devices : i \in DOMAIN store'[e].records => store'[e].records[i].at <= last[i].at
      BY <1>1, <1>2, <2>3 DEF Bounded
    <3> QED BY <1>1, <1>2, <1>8, <3>1 DEF Bounded
  <2>5. Held(i)'
    <3> SUFFICES ASSUME last[i].by # Nobody PROVE Holds(store'[last[i].by], last[i], i)
      BY <1>1 DEF Held, Holds
    <3>1. last[i].by \in Devices /\ Holds(store[last[i].by], last[i], i) BY <1>2, <1>3 DEF Held
    <3>2. CASE last[i].by # d BY <1>1, <3>1, <3>2
    <3>3. CASE last[i].by = d /\ last[i].gone
      <4>1. i \notin store[d].index /\ store[d].graves[i] >= last[i].at BY <3>1, <3>3 DEF Holds
      <4>2. i \notin store'[d].index BY <1>4, <2>1, <3>3, <4>1 DEF Takes
      <4>3. store'[d].graves[i] >= last[i].at
        <5>1. CASE buried BY <1>4, <2>1, <3>3, <5>1 DEF Takes
        <5>2. CASE ~buried BY <2>1, <4>1, <5>2 DEF Takes
        <5> QED BY <5>1, <5>2
      <4> QED BY <3>3, <4>2, <4>3 DEF Holds
    <3>4. CASE last[i].by = d /\ ~last[i].gone
      <4>1. i \in store[d].index /\ store[d].records[i].at = last[i].at BY <3>1, <3>4 DEF Holds
      <4>2. i \in store'[d].index /\ i \in DOMAIN store'[d].records BY <1>5, <2>1, <4>1 DEF Takes
      <4>3. store'[d].records[i].at <= last[i].at /\ store'[d].records[i].at >= last[i].at
        BY <1>5, <2>3, <4>1, <4>2
      <4>4. store'[d].records[i].at \in Stamps
        <5>1. store'[d].records[i] = Agreed(store[d], i, out.items[i]) /\ i \in DOMAIN out.items
          BY <2>2, <4>2
        <5>2. Agreed(store[d], i, out.items[i]) \in Playlist BY <1>5, <1>7, <5>1, AgreedIs
        <5> QED BY <5>1, <5>2 DEF Playlist
      <4>5. store'[d].records[i].at = last[i].at BY <1>3, <4>3, <4>4 DEF Stamps
      <4> QED BY <3>4, <4>2, <4>5 DEF Holds
    <3> QED BY <1>3, <3>2, <3>3, <3>4
  <2> QED BY <2>4, <2>5
<1> QED BY <1>9, <1>10

LEMMA InitAuthored == Init => Whole /\ Authored
<1> SUFFICES ASSUME Init PROVE Whole /\ Authored
  OBVIOUS
<1>1. \A d \in Devices : DOMAIN store[d].records = {} BY DEF Init, EmptyStore, NoItems
<1>2. \A i \in Ids : Bounded(i) /\ Held(i)
  <2> SUFFICES ASSUME NEW i \in Ids PROVE Bounded(i) /\ Held(i)
    OBVIOUS
  <2>1. last[i] = Untouched /\ now = 0 BY DEF Init
  <2>2. i \in DOMAIN doc.items => doc.items[i].at = 0
    <3>1. PICK n \in Names, r \in Refs :
            doc = [items |-> [j \in Legacy |-> LegacyPlaylist(n, r)], graves |-> NoGraves]
      BY DEF Init
    <3>2. LegacyPlaylist(n, r).at = 0 BY DEF LegacyPlaylist
    <3> QED BY <3>1, <3>2
  <2>3. Bounded(i) BY <1>1, <2>1, <2>2 DEF Bounded, Untouched
  <2>4. Held(i) BY <2>1 DEF Held, Untouched
  <2> QED BY <2>3, <2>4
<1> QED BY <1>1, <1>2 DEF Whole, Authored

LEMMA NextAuthored == PlaylistsInv /\ [Next]_vars => Authored'
<1> SUFFICES ASSUME PlaylistsInv, [Next]_vars, restores' = 0, cuts' = 0
             PROVE  \A j \in Ids : Bounded(j)' /\ Held(j)'
  BY DEF Authored
<1>0. ListsSafe /\ Whole /\ restores \in Nat BY DEF PlaylistsInv, ListsSafe, TypeOK
<1>1. ASSUME NEW d \in Devices, NEW i \in Ids, NEW t \in Stamps, NEW n \in Names, Create(d, i, n, t)
      PROVE  \A j \in Ids : Bounded(j)' /\ Held(j)'
  <2>1. Edited(t) /\ Remembered(d, i, t, FALSE) /\ UNCHANGED <<doc, restores>> BY <1>1 DEF Create
  <2>2. cuts = 0 BY <1>0, <1>1, CreateEnds
  <2>3. PICK r : EditEnds(d, i, r) /\ i \in r.index /\ r.records[i].at = t BY <1>0, <1>1, CreateEnds
  <2> QED BY <2>1, <2>2, <2>3, EditAuthored
<1>2. ASSUME NEW d \in Devices, NEW i \in Ids, NEW t \in Stamps, Delete(d, i, t)
      PROVE  \A j \in Ids : Bounded(j)' /\ Held(j)'
  <2>1. Edited(t) /\ Remembered(d, i, t, TRUE) /\ UNCHANGED <<doc, restores>> BY <1>2 DEF Delete
  <2>2. cuts = 0 BY <1>0, <1>2, DeleteEnds
  <2>3. PICK r : EditEnds(d, i, r) /\ i \notin r.index /\ r.graves[i] = t BY <1>0, <1>2, DeleteEnds
  <2> QED BY <2>1, <2>2, <2>3, EditAuthored
<1>3. ASSUME NEW d \in Devices, NEW i \in Ids, NEW t \in Stamps, Edit(d, i, t)
      PROVE  \A j \in Ids : Bounded(j)' /\ Held(j)'
  <2>1. /\ Edited(t) /\ Remembered(d, i, t, FALSE) /\ UNCHANGED <<doc, restores, cuts>>
    BY <1>3 DEF Edit
  <2>2. PICK p \in Playlist : /\ p.at = t /\ i \in store[d].index
                              /\ store' = [store EXCEPT ![d] = Put(store[d], i, p)]
    BY <1>0, <1>3, EditIs
  <2> DEFINE r == Put(store[d], i, p)
  <2>3. EditEnds(d, i, r) /\ i \in r.index /\ r.records[i] = p BY <1>0, <2>2, PutEnds
  <2> HIDE DEF r
  <2>4. r.records[i].at = t BY <2>2, <2>3
  <2> QED BY <2>1, <2>3, <2>4, EditAuthored
<1>4. ASSUME NEW d \in Devices, NEW i \in Ids, RememberTracks(d, i)
      PROVE  \A j \in Ids : Bounded(j)' /\ Held(j)'
  <2>1. UNCHANGED <<restores, cuts>> BY <1>4 DEF RememberTracks
  <2> QED BY <1>4, <2>1, RememberAuthored
<1>5. ASSUME NEW d \in Devices, NEW import \in BOOLEAN, Sync(d, import)
      PROVE  \A j \in Ids : Bounded(j)' /\ Held(j)'
  <2>1. UNCHANGED restores BY <1>5 DEF Sync
  <2> QED BY <1>5, <2>1, SyncAuthored
<1>6. ASSUME NEW d \in Devices, NEW part, Restore(d, part) PROVE FALSE
  <2>1. restores' = restores + 1 BY <1>6, RestoreIs
  <2> QED BY <1>0, <2>1
<1>7. CASE \/ \E d \in Devices, i \in Ids : EditGone(d, i)
           \/ \E d \in Devices : Export(d)
           \/ UNCHANGED vars
  <2>1. UNCHANGED <<store, doc, now, cuts, restores, last>> BY <1>7 DEF EditGone, Export, vars
  <2>2. \A j \in Ids : Bounded(j) /\ Held(j) BY <2>1 DEF PlaylistsInv, Authored
  <2>3. \A j \in Ids : Bounded(j)' BY <2>1, <2>2 DEF Bounded
  <2>4. \A j \in Ids : Held(j)' BY <2>1, <2>2 DEF Held, Holds
  <2> QED BY <2>3, <2>4
<1> QED BY <1>1, <1>2, <1>3, <1>4, <1>5, <1>6, <1>7 DEF Next

LEMMA NextInv == PlaylistsInv /\ [Next]_vars => PlaylistsInv'
  BY NextLists, NextWhole, NextAuthored DEF PlaylistsInv

\* The inductive invariant.  Whole is what makes the index and the records of a
\* device the same thing to a merge, which compares copies by the index and
\* applies them by the records; Bounded is what lets no copy in the document beat
\* the latest edit on the device that made it, and the tombstone in Holds is what
\* keeps a deleted playlist from rising again there.
THEOREM PlaylistsInvariant == Spec => []PlaylistsInv
<1>1. Init => PlaylistsInv BY InitLists, InitAuthored DEF PlaylistsInv
<1>2. PlaylistsInv /\ [Next]_vars => PlaylistsInv' BY NextInv
<1> QED BY <1>1, <1>2, PTL DEF Spec

\* Wherever an operation of the service is cut, by a crash or a write that fails,
\* every playlist the index lists has a record (Create, Delete, applyMerge).
THEOREM ListsAreSafe == Spec => []ListsSafe
<1>1. PlaylistsInv => ListsSafe BY DEF PlaylistsInv
<1> QED BY <1>1, PlaylistsInvariant, PTL

\* The device of the latest edit of a playlist holds its outcome, whatever passes
\* the devices make and in whatever order (mergeNewer, applyMerge).
THEOREM AuthorsHold == Spec => []AuthorHolds
<1>1. PlaylistsInv => AuthorHolds
  <2> SUFFICES ASSUME PlaylistsInv, NEW i \in Ids, last[i].by # Nobody, restores = 0, cuts = 0
               PROVE  LET s == store[last[i].by]
                      IN  IF last[i].gone THEN i \notin s.index
                          ELSE i \in s.index /\ s.records[i].at = last[i].at
    BY DEF AuthorHolds
  <2> QED BY DEF PlaylistsInv, Authored, Held, Holds
<1> QED BY <1>1, PlaylistsInvariant, PTL

-----------------------------------------------------------------------------
(* What the document keeps, and what arrives                               *)

\* A pass writes the document or leaves it, and nothing else writes it.
LEMMA DocumentWrites ==
  ASSUME ListsSafe, [Next]_vars
  PROVE  \/ doc' = doc
         \/ \E d \in Devices : doc' = Wire(Merged(d, doc, FALSE))
<1>1. ASSUME NEW d \in Devices, NEW import \in BOOLEAN, Sync(d, import)
      PROVE  doc' = doc \/ doc' = Wire(Merged(d, doc, FALSE))
  BY <1>1, SyncIs
<1>2. ASSUME NEW d \in Devices, NEW part, Restore(d, part) PROVE doc' = doc
  BY <1>2, RestoreIs
<1>3. ASSUME NEW d \in Devices, NEW i \in Ids, NEW t \in Stamps,
             \/ \E n \in Names : Create(d, i, n, t)
             \/ Delete(d, i, t)
             \/ Edit(d, i, t)
      PROVE  doc' = doc
  BY <1>3 DEF Create, Delete, Edit
<1>4. ASSUME NEW d \in Devices, NEW i \in Ids, EditGone(d, i) \/ RememberTracks(d, i) \/ Export(d)
      PROVE  doc' = doc
  BY <1>4 DEF EditGone, RememberTracks, Export
<1>5. ASSUME NEW d \in Devices, Export(d) PROVE doc' = doc BY <1>5 DEF Export
<1>6. CASE UNCHANGED vars BY <1>6 DEF vars
<1> QED BY <1>1, <1>2, <1>3, <1>4, <1>5, <1>6 DEF Next

LEMMA StandingIs ==
  ASSUME NEW section \in Section, NEW i \in Ids
  PROVE  /\ Standing(section, i) \in Int
         /\ Standing(section, i) >= section.graves[i]
         /\ i \in DOMAIN section.items => Standing(section, i) >= section.items[i].at
         /\ \/ Standing(section, i) = section.graves[i]
            \/ i \in DOMAIN section.items /\ Standing(section, i) = section.items[i].at
<1>1. /\ i \in DOMAIN section.items => section.items[i].at \in Stamps
      /\ section.graves[i] \in Stamps
  BY ItemsAre
<1> QED BY <1>1 DEF Standing, Stamps

\* What the document that a pass writes keeps of the one it read.
LEMMA WrittenKeeps ==
  ASSUME ListsSafe, NEW d \in Devices, doc' = Wire(Merged(d, doc, FALSE)), NEW i \in Ids
  PROVE  /\ Standing(doc', i) >= Standing(doc, i)
         /\ i \in DOMAIN doc.items => i \in DOMAIN doc'.items \/ doc'.graves[i] # NoGrave
         /\ i \in DOMAIN doc.items \intersect DOMAIN doc'.items /\ doc'.graves[i] = NoGrave =>
              doc.items[i].tracks \intersect ToSet(doc'.items[i].songs) \subseteq doc'.items[i].tracks
<1> DEFINE out == Merged(d, doc, FALSE)
           graves == store[d].graves
           risen == Risen(doc, graves, FALSE)
           latest == LatestGrave(doc, graves, i)
<1>1. doc \in Section /\ graves \in [Ids -> Stamps] BY RecordsAre DEF ListsSafe, TypeOK
<1>2. out \in Section /\ Agrees(out, doc, Local(store[d]), graves, FALSE) BY <1>1, MergedIs
<1>3. /\ doc'.graves = out.graves /\ DOMAIN doc'.items = DOMAIN out.items
      /\ i \in DOMAIN out.items =>
           /\ doc'.items[i].at = out.items[i].at
           /\ out.items[i].tracks \intersect ToSet(doc'.items[i].songs) \subseteq doc'.items[i].tracks
  BY <1>2, WireIs
<1>4. /\ i \in DOMAIN doc.items \ risen => latest # NoGrave /\ latest >= doc.items[i].at
      /\ i \in risen => latest = NoGrave \/ doc.items[i].at > latest
      /\ latest >= doc.graves[i] /\ latest \in Stamps
  BY <1>1, RisenIs
<1>5. /\ i \in risen =>
           /\ i \in DOMAIN doc.items /\ i \in DOMAIN out.items
           /\ out.graves[i] = NoGrave
           /\ out.items[i].at >= doc.items[i].at
           /\ doc.items[i].tracks \subseteq out.items[i].tracks
      /\ i \notin risen => out.graves[i] = latest
  BY <1>2 DEF Agrees
<1>6. /\ i \in DOMAIN doc.items => doc.items[i].at \in Stamps
      /\ i \in DOMAIN out.items => out.items[i].at \in Stamps
      /\ doc.graves[i] \in Stamps
  BY <1>1, <1>2, ItemsAre
<1>7. doc' \in Section BY <1>2, WireIs
<1> DEFINE before == Standing(doc, i)
           after == Standing(doc', i)
<1>8. /\ after >= doc'.graves[i] /\ after \in Int
      /\ i \in DOMAIN doc'.items => after >= doc'.items[i].at
  BY <1>7, StandingIs
<1>9. /\ before \in Int
      /\ before = doc.graves[i] \/ (i \in DOMAIN doc.items /\ before = doc.items[i].at)
  BY <1>1, StandingIs
<1> HIDE DEF out, risen, latest, before, after
<1>10. CASE i \in risen
  <2>1. after >= doc.items[i].at /\ doc.items[i].at \in Stamps
    <3>1. /\ i \in DOMAIN doc.items /\ i \in DOMAIN out.items
          /\ out.items[i].at >= doc.items[i].at
      BY <1>5, <1>10
    <3>2. after >= out.items[i].at BY <1>3, <1>8, <3>1
    <3>3. out.items[i].at \in Int /\ doc.items[i].at \in Int BY <1>6, <3>1 DEF Stamps
    <3> QED BY <1>6, <1>8, <3>1, <3>2, <3>3
  <2>2. doc.items[i].at >= doc.graves[i] \/ latest = NoGrave
    BY <1>4, <1>6, <1>10, <2>1 DEF Stamps
  <2>3. latest = NoGrave => doc.graves[i] = 0 BY <1>4, <1>6 DEF NoGrave, Stamps
  <2>4. after >= before BY <1>6, <1>8, <1>9, <2>1, <2>2, <2>3 DEF Stamps
  <2>5. i \in DOMAIN doc'.items BY <1>3, <1>5, <1>10
  <2>6. doc.items[i].tracks \intersect ToSet(doc'.items[i].songs) \subseteq doc'.items[i].tracks
    BY <1>3, <1>5, <1>10
  <2> QED BY <2>4, <2>5, <2>6 DEF before, after
<1>11. CASE i \notin risen
  <2>1. doc'.graves[i] = latest BY <1>3, <1>5, <1>11
  <2>2. i \in DOMAIN doc.items => doc'.graves[i] # NoGrave BY <1>4, <1>11, <2>1
  <2>3. latest >= before BY <1>4, <1>6, <1>9, <1>11 DEF Stamps
  <2>4. after >= before
    <3>1. latest \in Int /\ before \in Int /\ after \in Int BY <1>4, <1>8, <1>9 DEF Stamps
    <3>2. after >= latest BY <1>8, <2>1
    <3> QED BY <2>3, <3>1, <3>2
  <2> QED BY <2>2, <2>4 DEF before, after
<1> QED BY <1>10, <1>11

\* A pass that was not cut leaves the device listing what it wrote to the document.
LEMMA PassHolds ==
  ASSUME ListsSafe, Whole, NEW d \in Devices, Sync(d, TRUE), cuts' = 0
  PROVE  store'[d].index = DOMAIN doc'.items
<1> DEFINE out == Merged(d, doc, FALSE)
           buried == Buried(doc, store[d].graves, FALSE)
<1>1. /\ cuts = 0 /\ Takes(store[d], store'[d], out, buried)
      /\ doc' = Wire(out) /\ out \in Section
      /\ Agrees(out, doc, Local(store[d]), store[d].graves, FALSE)
  BY SyncEnds
<1>2. DOMAIN store[d].records = store[d].index /\ DOMAIN Local(store[d]) = store[d].index
  BY <1>1, WholeIs
<1> HIDE DEF out, buried
<1>3. store[d].index \subseteq DOMAIN out.items BY <1>1, <1>2 DEF Agrees
<1>4. store'[d].index = DOMAIN out.items BY <1>1, <1>2, <1>3 DEF Takes
<1> QED BY <1>1, <1>4, WireIs

\* An import that was not cut lists every playlist of the file.
LEMMA ImportHolds ==
  ASSUME ListsSafe, Whole, NEW d \in Devices, Restore(d, file), cuts' = 0
  PROVE  DOMAIN file.items \subseteq store'[d].index
<1> DEFINE out == Merged(d, file, TRUE)
           buried == Buried(file, store[d].graves, TRUE)
<1>0. file \in Section /\ store[d].graves \in [Ids -> Stamps] BY RecordsAre DEF ListsSafe, TypeOK
<1>1. /\ cuts = 0 /\ Takes(store[d], store'[d], out, buried)
      /\ Agrees(out, file, Local(store[d]), store[d].graves, TRUE)
  BY <1>0, ImportEnds
<1>2. DOMAIN store[d].records = store[d].index BY <1>1, WholeIs
<1>3. Risen(file, store[d].graves, TRUE) = DOMAIN file.items BY <1>0, RisenIs
<1> HIDE DEF out, buried
<1>4. DOMAIN file.items \subseteq DOMAIN out.items BY <1>1, <1>3 DEF Agrees
<1> QED BY <1>1, <1>2, <1>4 DEF Takes

\* No pass of any device takes back what the document stands by for a playlist,
\* drops one without a tombstone or forgets what it knew of a song that is still
\* listed; a pass leaves its device listing what the file lists, and an import
\* lists all its file has (mergeDocument, applyMerge, MarshalJSON).
THEOREM SectionIsKept == Spec => SectionKept
<1>1. PlaylistsInv /\ [Next]_vars =>
        [\A i \in Ids :
           /\ Standing(doc', i) >= Standing(doc, i)
           /\ i \in DOMAIN doc.items => i \in DOMAIN doc'.items \/ doc'.graves[i] # NoGrave]_vars
  <2> SUFFICES ASSUME ListsSafe, [Next]_vars, NEW i \in Ids
               PROVE  /\ Standing(doc', i) >= Standing(doc, i)
                      /\ i \in DOMAIN doc.items =>
                           i \in DOMAIN doc'.items \/ doc'.graves[i] # NoGrave
    BY DEF PlaylistsInv
  <2>1. CASE doc' = doc
    <3>1. doc \in Section BY DEF ListsSafe, TypeOK
    <3>2. Standing(doc, i) \in Int BY <3>1, StandingIs
    <3>3. Standing(doc', i) = Standing(doc, i) BY <2>1
    <3> QED BY <2>1, <3>2, <3>3
  <2>2. CASE \E d \in Devices : doc' = Wire(Merged(d, doc, FALSE)) BY <2>2, WrittenKeeps
  <2> QED BY <2>1, <2>2, DocumentWrites
<1>2. PlaylistsInv /\ [Next]_vars =>
        [\A i \in DOMAIN doc.items \intersect DOMAIN doc'.items :
           doc'.graves[i] = NoGrave =>
             doc.items[i].tracks \intersect ToSet(doc'.items[i].songs)
               \subseteq doc'.items[i].tracks]_vars
  <2> SUFFICES ASSUME ListsSafe, [Next]_vars, NEW i \in DOMAIN doc.items \intersect DOMAIN doc'.items,
                      doc'.graves[i] = NoGrave
               PROVE  doc.items[i].tracks \intersect ToSet(doc'.items[i].songs)
                        \subseteq doc'.items[i].tracks
    BY DEF PlaylistsInv
  <2>1. CASE doc' = doc BY <2>1
  <2>2. CASE \E d \in Devices : doc' = Wire(Merged(d, doc, FALSE))
    <3>1. i \in Ids BY ItemsAre DEF ListsSafe, TypeOK
    <3> QED BY <2>2, <3>1, WrittenKeeps
  <2> QED BY <2>1, <2>2, DocumentWrites
<1>3. PlaylistsInv /\ [Next]_vars =>
        [\A d \in Devices :
           (Sync(d, TRUE) /\ cuts' = 0) => store'[d].index = DOMAIN doc'.items]_vars
  BY PassHolds DEF PlaylistsInv
<1>4. PlaylistsInv /\ [Next]_vars =>
        [\A d \in Devices :
           (Restore(d, file) /\ cuts' = 0) => DOMAIN file.items \subseteq store'[d].index]_vars
  BY ImportHolds DEF PlaylistsInv
<1>5. Spec => DocumentKeeps BY <1>1, PlaylistsInvariant, PTL DEF Spec, DocumentKeeps
<1>6. Spec => KnownKept BY <1>2, PlaylistsInvariant, PTL DEF Spec, KnownKept
<1>7. Spec => HoldsFile BY <1>3, PlaylistsInvariant, PTL DEF Spec, HoldsFile
<1>8. Spec => RestoreLists BY <1>4, PlaylistsInvariant, PTL DEF Spec, RestoreLists
<1> QED BY <1>5, <1>6, <1>7, <1>8 DEF SectionKept
=============================================================================
