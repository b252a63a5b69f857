--------------------------- MODULE PlaybackProofs ---------------------------
(***************************************************************************)
(* Proofs about Playback, for any queue, any number of overlapping calls,  *)
(* resolves, faults and acts of the user: what the page keeps, who drives  *)
(* it, and what ends a recovery.  The page is followed through the helpers *)
(* its handlers are made of: each is shown to keep PageHolds.              *)
(***************************************************************************)
EXTENDS Playback, FiniteSetTheorems, WellFoundedInduction, TLAPS

-----------------------------------------------------------------------------
(* What the page keeps. *)

\* What an await may be answered with, and which calls stand where: a recovery
\* never climbs the ladder, and only a call told where to start waits for buffers.
CallHolds(p, t) ==
  /\ At(p, t) = "idle" => Answer(p, t) = "none"
  /\ At(p, t) \notin {"idle", "prime"} => SongOf(p, t) \in Songs
  /\ At(p, t) \in {"resolve", "element", "buffer"} => Answer(p, t) \in {"none", "ok", "failed"}
  /\ At(p, t) = "buffer" => ~p.calls[t].auto \/ p.calls[t].given
  /\ At(p, t) \in {"start", "retry", "resume"} => p.calls[t].auto
  /\ At(p, t) = "resume" => ~p.calls[t].given
  /\ t = Recovery => ~p.calls[t].auto /\ At(p, t) \in {"idle", "resolve", "element", "buffer", "revive"}
  /\ t # Recovery => At(p, t) # "revive"
CallsHold(p) == \A t \in 0..Calls : CallHolds(p, t)

\* The request a song is said to have under way is one for that song, and so is
\* the one a call waits for.
CacheHolds(p) ==
  /\ \A s \in Songs : p.pending[s] # NoRequest => p.flight[p.pending[s]] = s
  /\ \A t \in 0..Calls :
       At(p, t) \in {"resolve", "element"} /\ Answer(p, t) = "none"
       => p.calls[t].wait # NoRequest /\ p.flight[p.calls[t].wait] = SongOf(p, t)

\* The element: what is awaited of it can still come.
ElementHolds(p) ==
  /\ p.ready => ~p.broken
  /\ p.held # NoSong => p.src = p.held
  /\ p.loaded # NoSong /\ ~p.finished => p.src # NoSong
  /\ ~p.permitted => p.paused /\ ~p.finished /\ p.src # Silent
  /\ \A t \in 0..Calls :
       /\ At(p, t) \in Starting /\ Answer(p, t) = "none" => ~p.paused /\ p.src # NoSong
       /\ At(p, t) = "buffer" /\ Answer(p, t) = "none" => ~p.ready
       /\ At(p, t) = "buffer" /\ Answer(p, t) = "ok" => ~p.broken /\ p.src # NoSong

\* A call about to play through the element.
Hot(p, t) ==
  \/ At(p, t) = "buffer" /\ Answer(p, t) = "ok"
  \/ /\ At(p, t) \in {"resolve", "element"} /\ Answer(p, t) = "ok"
     /\ t # p.newest /\ (~p.calls[t].auto \/ p.calls[t].given)

\* Only the newest call ever stops the player, and not while another is about to
\* play through the element: what failed it failed them all.
SpareHolds(p) ==
  p.newest # Nobody /\ Answer(p, p.newest) = "failed" => \A t \in 0..Calls : ~Hot(p, t)

PageHolds(p) ==
  /\ p \in PageType
  /\ CallsHold(p) /\ CacheHolds(p) /\ ElementHolds(p) /\ SpareHolds(p)

\* The newest load is for the current song, and what is loaded is its.
OwnerHolds(p) ==
  /\ p.loaded # NoSong => p.loader # Nobody /\ p.loaded = p.current
  /\ p.loader # Nobody => p.current # NoSong
  /\ p.loader # Nobody /\ At(p, p.loader) \in {"resolve", "element"} => SongOf(p, p.loader) = p.current

\* A recovery that owns the element, and the reload that waits, are for the
\* current song.
RecoveryHolds(p) ==
  p.loader = Recovery =>
    /\ p.retry # NoSong => p.retry = p.current
    /\ At(p, Recovery) # "idle" => SongOf(p, Recovery) = p.current

Owned(p) == OwnerHolds(p) /\ RecoveryHolds(p)

-----------------------------------------------------------------------------
(* A page changes a few fields at a time. *)

Cache(p) == <<p.url, p.pending, p.flight>>
Element(p) == <<p.held, p.src, p.ready, p.paused, p.broken, p.permitted>>
Player(p) == <<p.loaded, p.finished, p.current, p.loader, p.quiet>>
Sweeping(p) == <<p.index, p.newest, p.blocked, p.armed, p.failed>>
Shown(p) == <<p.playing, p.loading, p.retry>>
Rest(p) == <<Cache(p), Element(p), Player(p), Sweeping(p), Shown(p)>>

LEMMA CallsPut ==
  ASSUME NEW p \in PageType, NEW f \in [0..Calls -> CallType]
  PROVE  LET q == [p EXCEPT !.calls = f]
         IN  q \in PageType /\ q.calls = f /\ Rest(q) = Rest(p)
<1> DEFINE q == [p EXCEPT !.calls = f]
<1>1. q.calls = f
  BY DEF PageType
<1>0. q \in PageType
  BY Zenon DEF PageType
<1>2. Cache(q) = Cache(p) /\ Element(q) = Element(p)
  BY DEF PageType, Cache, Element
<1>3. Player(q) = Player(p) /\ Sweeping(q) = Sweeping(p) /\ Shown(q) = Shown(p)
  BY DEF PageType, Player, Sweeping, Shown
<1> QED
  BY <1>0, <1>1, <1>2, <1>3 DEF Rest

LEMMA CallField ==
  ASSUME NEW p \in PageType, NEW t \in 0..Calls
  PROVE  p.calls[t] \in CallType
BY DEF PageType

LEMMA CallPut ==
  ASSUME NEW p \in PageType, NEW t \in 0..Calls, NEW c \in CallType
  PROVE  LET q == [p EXCEPT !.calls[t] = c]
         IN  /\ q \in PageType /\ Rest(q) = Rest(p)
             /\ q.calls[t] = c /\ \A u \in 0..Calls : u # t => q.calls[u] = p.calls[u]
<1> DEFINE f == [p.calls EXCEPT ![t] = c]
<1>1. f \in [0..Calls -> CallType]
  BY DEF PageType
<1>2. f[t] = c /\ \A u \in 0..Calls : u # t => f[u] = p.calls[u]
  BY DEF PageType
<1>3. [p EXCEPT !.calls[t] = c] = [p EXCEPT !.calls = f]
  OBVIOUS
<1> HIDE DEF f
<1> QED
  BY <1>1, <1>2, <1>3, CallsPut

LEMMA IdleType == IdleCall \in CallType
BY PlaybackAssumption DEF IdleCall, CallType, PlaybackAssumption, NoSong, NoRequest

LEMMA TellIs ==
  ASSUME NEW p \in PageType, NEW pcs, NEW answer \in {"ok", "failed", "abort"}
  PROVE  LET q == Tell(p, pcs, answer)
         IN  /\ q \in PageType /\ Rest(q) = Rest(p)
             /\ \A t \in 0..Calls :
                  q.calls[t] = IF At(p, t) \in pcs /\ Answer(p, t) = "none"
                               THEN [p.calls[t] EXCEPT !.answer = answer] ELSE p.calls[t]
<1> DEFINE f == [t \in 0..Calls |-> IF At(p, t) \in pcs /\ Answer(p, t) = "none"
                                    THEN [p.calls[t] EXCEPT !.answer = answer] ELSE p.calls[t]]
<1>1. f \in [0..Calls -> CallType]
  <2> SUFFICES ASSUME NEW t \in 0..Calls PROVE f[t] \in CallType
    OBVIOUS
  <2> QED
    BY CallField DEF CallType
<1>2. Tell(p, pcs, answer) = [p EXCEPT !.calls = f]
  BY DEF Tell, At, Answer, PageType
<1>3. \A t \in 0..Calls : f[t] = IF At(p, t) \in pcs /\ Answer(p, t) = "none"
                                 THEN [p.calls[t] EXCEPT !.answer = answer] ELSE p.calls[t]
  OBVIOUS
<1> HIDE DEF f
<1> QED
  BY <1>1, <1>2, <1>3, CallsPut

\* The type of what the helpers change.
LEMMA ShownPut ==
  ASSUME NEW p \in PageType, NEW b \in BOOLEAN, NEW c \in BOOLEAN, NEW s \in Songs \cup {NoSong}
  PROVE  /\ [p EXCEPT !.playing = b] \in PageType
         /\ [p EXCEPT !.loading = b] \in PageType
         /\ [p EXCEPT !.loading = b, !.playing = c] \in PageType
         /\ [p EXCEPT !.retry = s] \in PageType
<1>1. [p EXCEPT !.playing = b] \in PageType
  BY Zenon DEF PageType
<1>2. [p EXCEPT !.loading = b] \in PageType
  BY Zenon DEF PageType
<1>3. [p EXCEPT !.loading = b, !.playing = c] \in PageType
  BY Zenon DEF PageType
<1>4. [p EXCEPT !.retry = s] \in PageType
  BY Zenon DEF PageType
<1> QED
  BY <1>1, <1>2, <1>3, <1>4

Held == Songs \cup {NoSong, Silent}

LEMMA HeldIs == NoSong \in Held /\ Silent \in Held /\ NoSong # Silent /\ Songs \subseteq Held
                /\ NoSong \notin Songs /\ Silent \notin Songs
BY DEF Held, Songs, NoSong, Silent

LEMMA ElementPut ==
  ASSUME NEW p \in PageType, NEW s \in Held, NEW b \in BOOLEAN
  PROVE  /\ [p EXCEPT !.held = s] \in PageType
         /\ [p EXCEPT !.paused = b] \in PageType
         /\ [p EXCEPT !.src = s, !.paused = TRUE, !.ready = FALSE, !.broken = FALSE] \in PageType
         /\ [p EXCEPT !.paused = FALSE, !.quiet = FALSE, !.finished = FALSE, !.playing = TRUE] \in PageType
<1>1. [p EXCEPT !.held = s] \in PageType
  BY Zenon DEF PageType, Held
<1>2. [p EXCEPT !.paused = b] \in PageType
  BY Zenon DEF PageType, Held
<1>3. [p EXCEPT !.src = s, !.paused = TRUE, !.ready = FALSE, !.broken = FALSE] \in PageType
  BY Zenon DEF PageType, Held
<1>4. [p EXCEPT !.paused = FALSE, !.quiet = FALSE, !.finished = FALSE, !.playing = TRUE] \in PageType
  BY Zenon DEF PageType
<1> QED
  BY <1>1, <1>2, <1>3, <1>4

-----------------------------------------------------------------------------
(* Whatever is aborted was awaited. *)

Aborted(p, q) ==
  \A t \in 0..Calls :
    q.calls[t] = IF At(p, t) \in Starting /\ Answer(p, t) = "none"
                 THEN [p.calls[t] EXCEPT !.answer = "abort"] ELSE p.calls[t]

LEMMA AbortedCalls ==
  ASSUME NEW p \in PageType, NEW q \in PageType, Aborted(p, q)
  PROVE  /\ \A t \in 0..Calls :
              /\ At(q, t) = At(p, t) /\ SongOf(q, t) = SongOf(p, t)
              /\ q.calls[t].auto = p.calls[t].auto /\ q.calls[t].given = p.calls[t].given
              /\ q.calls[t].wait = p.calls[t].wait
              /\ Answer(p, t) # "none" => q.calls[t] = p.calls[t]
              /\ At(p, t) \notin Starting => q.calls[t] = p.calls[t]
              /\ Answer(q, t) \in {"abort", Answer(p, t)}
              /\ At(p, t) \in Starting => Answer(q, t) # "none"
<1> SUFFICES ASSUME NEW t \in 0..Calls
             PROVE  /\ At(q, t) = At(p, t) /\ SongOf(q, t) = SongOf(p, t)
                    /\ q.calls[t].auto = p.calls[t].auto /\ q.calls[t].given = p.calls[t].given
                    /\ q.calls[t].wait = p.calls[t].wait
                    /\ Answer(p, t) # "none" => q.calls[t] = p.calls[t]
                    /\ At(p, t) \notin Starting => q.calls[t] = p.calls[t]
                    /\ Answer(q, t) \in {"abort", Answer(p, t)}
                    /\ At(p, t) \in Starting => Answer(q, t) # "none"
  OBVIOUS
<1>1. p.calls[t] \in CallType
  BY CallField
<1>2. q.calls[t] = IF At(p, t) \in Starting /\ Answer(p, t) = "none"
                   THEN [p.calls[t] EXCEPT !.answer = "abort"] ELSE p.calls[t]
  BY DEF Aborted
<1> HIDE DEF Starting
<1> QED
  BY <1>1, <1>2 DEF CallType, At, SongOf, Answer

LEMMA AbortedKeeps ==
  ASSUME NEW p \in PageType, NEW q \in PageType, Aborted(p, q)
  PROVE  /\ CallsHold(p) => CallsHold(q)
         /\ CacheHolds(p) /\ Cache(q) = Cache(p) => CacheHolds(q)
         /\ SpareHolds(p) /\ q.newest = p.newest => SpareHolds(q)
<1>0. p.newest # Nobody => p.newest \in 0..Calls
  BY DEF PageType, Tasks
<1>1. CallsHold(p) => CallsHold(q)
  <2> SUFFICES ASSUME CallsHold(p), NEW t \in 0..Calls PROVE CallHolds(q, t)
    BY DEF CallsHold
  <2>1. CallHolds(p, t)
    BY DEF CallsHold
  <2>2. At(p, t) \in {"idle", "resolve", "element", "buffer"} => Answer(q, t) = Answer(p, t)
    BY AbortedCalls DEF Starting, Answer
  <2> QED
    BY <2>1, <2>2, AbortedCalls DEF CallHolds
<1>2. CacheHolds(p) /\ Cache(q) = Cache(p) => CacheHolds(q)
  BY AbortedCalls DEF CacheHolds, Cache
<1>4. SpareHolds(p) /\ q.newest = p.newest => SpareHolds(q)
  BY <1>0, AbortedCalls DEF SpareHolds, Hot, Starting
<1> QED
  BY <1>1, <1>2, <1>4

-----------------------------------------------------------------------------
(* The element. *)

LEMMA SilenceIs ==
  ASSUME NEW p \in PageType, PageHolds(p)
  PROVE  LET q == Silence(p)
         IN  /\ PageHolds(q) /\ Aborted(p, q) /\ q.paused
             /\ Cache(q) = Cache(p) /\ Player(q) = Player(p) /\ Sweeping(q) = Sweeping(p)
             /\ Shown(q) = Shown(p)
             /\ q.held = p.held /\ q.src = p.src /\ q.ready = p.ready
             /\ q.broken = p.broken /\ q.permitted = p.permitted
<1> DEFINE r == [p EXCEPT !.paused = TRUE]
           q == Silence(p)
<1>0. CASE p.paused
  <2>1. q = p
    BY <1>0 DEF Silence
  <2>2. \A t \in 0..Calls : ~(At(p, t) \in Starting /\ Answer(p, t) = "none")
    BY <1>0 DEF PageHolds, ElementHolds
  <2>3. Aborted(p, p)
    BY <2>2 DEF Aborted
  <2> QED
    BY <1>0, <2>1, <2>3
<1>1. CASE ~p.paused
  <2>1. r.calls = p.calls /\ Cache(r) = Cache(p) /\ Player(r) = Player(p)
    BY DEF PageType, Cache, Player
  <2>2. Sweeping(r) = Sweeping(p) /\ Shown(r) = Shown(p)
    BY DEF PageType, Sweeping, Shown
  <2>3. /\ r.paused /\ r.held = p.held /\ r.src = p.src /\ r.ready = p.ready
        /\ r.broken = p.broken /\ r.permitted = p.permitted
    BY DEF PageType
  <2>4. r \in PageType
    BY Zenon DEF PageType
  <2>5. q = Tell(r, Starting, "abort")
    BY <1>1 DEF Silence
  <2> HIDE DEF q, r
  <2>6. /\ q \in PageType /\ Rest(q) = Rest(r)
        /\ \A t \in 0..Calls :
             q.calls[t] = IF At(r, t) \in Starting /\ Answer(r, t) = "none"
                          THEN [r.calls[t] EXCEPT !.answer = "abort"] ELSE r.calls[t]
    BY <2>4, <2>5, TellIs
  <2>7. Aborted(p, q)
    BY <2>1, <2>6 DEF Aborted, At, Answer
  <2>8. /\ Cache(q) = Cache(p) /\ Player(q) = Player(p) /\ Sweeping(q) = Sweeping(p)
        /\ Shown(q) = Shown(p)
    BY <2>1, <2>2, <2>6 DEF Rest
  <2>9. /\ q.paused /\ q.held = p.held /\ q.src = p.src /\ q.ready = p.ready
        /\ q.broken = p.broken /\ q.permitted = p.permitted
    BY <2>3, <2>6 DEF Rest, Element
  <2>10. ElementHolds(q)
    <3>1. p.loaded = q.loaded /\ p.finished = q.finished
      BY <2>8 DEF Player
    <3> QED
      BY <2>6, <2>7, <2>9, <3>1, AbortedCalls DEF PageHolds, ElementHolds, Starting, Answer
  <2>11. q.newest = p.newest /\ q.retry = p.retry
    BY <2>8 DEF Sweeping, Shown
  <2> QED
    BY <2>6, <2>7, <2>8, <2>9, <2>10, <2>11, AbortedKeeps DEF PageHolds, q
<1> QED
  BY <1>0, <1>1

\* A call that was answered stays as it is, and the others stay where they are.
Leaves(p, q, u) ==
  /\ At(q, u) = At(p, u) /\ SongOf(q, u) = SongOf(p, u)
  /\ q.calls[u].auto = p.calls[u].auto /\ q.calls[u].given = p.calls[u].given
  /\ Answer(p, u) # "none" => q.calls[u] = p.calls[u]
  /\ Answer(q, u) \in {"abort", Answer(p, u)}
Undisturbed(p, q) == \A u \in 0..Calls : Leaves(p, q, u)
Others(p, q, t) == \A u \in 0..Calls : u # t => Leaves(p, q, u)

LEMMA UndisturbedSame ==
  ASSUME NEW p, NEW q, q.calls = p.calls
  PROVE  Undisturbed(p, q)
BY DEF Undisturbed, Leaves, At, SongOf, Answer

LEMMA UndisturbedTrans ==
  ASSUME NEW p, NEW q, NEW r, Undisturbed(p, q), Undisturbed(q, r)
  PROVE  Undisturbed(p, r)
<1> SUFFICES ASSUME NEW u \in 0..Calls PROVE Leaves(p, r, u)
  BY DEF Undisturbed
<1> QED
  BY DEF Undisturbed, Leaves, Answer

LEMMA UndisturbedAborted ==
  ASSUME NEW p \in PageType, NEW q \in PageType, Aborted(p, q)
  PROVE  Undisturbed(p, q)
BY AbortedCalls DEF Undisturbed, Leaves

\* The calls stay as they are, and so does what they are about.
LEMMA CallsKeep ==
  ASSUME NEW p \in PageType, NEW q \in PageType, q.calls = p.calls
  PROVE  /\ CallsHold(p) => CallsHold(q)
         /\ CacheHolds(p) /\ Cache(q) = Cache(p) => CacheHolds(q)
         /\ SpareHolds(p) /\ q.newest = p.newest => SpareHolds(q)
<1>0. \A t : At(q, t) = At(p, t) /\ SongOf(q, t) = SongOf(p, t) /\ Answer(q, t) = Answer(p, t)
  BY DEF At, SongOf, Answer
<1>1. CallsHold(p) => CallsHold(q)
  BY <1>0 DEF CallsHold, CallHolds
<1>2. CacheHolds(p) /\ Cache(q) = Cache(p) => CacheHolds(q)
  BY <1>0 DEF CacheHolds, Cache
<1>4. SpareHolds(p) /\ q.newest = p.newest => SpareHolds(q)
  BY <1>0 DEF SpareHolds, Hot
<1> QED
  BY <1>1, <1>2, <1>4

\* What only the views show.
LEMMA ShowsIs ==
  ASSUME NEW p \in PageType, PageHolds(p), NEW q \in PageType, q.calls = p.calls,
         Cache(q) = Cache(p), Element(q) = Element(p), Player(q) = Player(p),
         q.newest = p.newest, q.retry = p.retry
  PROVE  PageHolds(q) /\ Undisturbed(p, q)
<1>1. ElementHolds(q)
  BY DEF PageHolds, ElementHolds, Element, Player, At, Answer
<1> QED
  BY <1>1, CallsKeep, UndisturbedSame DEF PageHolds

LEMMA PauseIs ==
  ASSUME NEW p \in PageType, PageHolds(p)
  PROVE  LET q == Pause(p)
         IN  /\ PageHolds(q) /\ Undisturbed(p, q) /\ q.paused
             /\ Cache(q) = Cache(p) /\ Player(q) = Player(p) /\ Sweeping(q) = Sweeping(p)
             /\ q.retry = p.retry
<1> DEFINE r == Silence(p)
           q == [r EXCEPT !.playing = FALSE]
<1>1. /\ PageHolds(r) /\ Aborted(p, r) /\ r.paused
      /\ Cache(r) = Cache(p) /\ Player(r) = Player(p) /\ Sweeping(r) = Sweeping(p)
      /\ Shown(r) = Shown(p)
  BY SilenceIs
<1>2. Pause(p) \in {r, q}
  BY DEF Pause
<1> HIDE DEF r
<1>3. r \in PageType /\ Undisturbed(p, r) /\ r.retry = p.retry
  BY <1>1, UndisturbedAborted DEF PageHolds, Shown
<1>4. q \in PageType
  BY <1>3, ShownPut
<1>5. q.calls = r.calls /\ Cache(q) = Cache(r) /\ Element(q) = Element(r)
  BY <1>3 DEF PageType, Cache, Element
<1>6. /\ Player(q) = Player(r) /\ Sweeping(q) = Sweeping(r) /\ q.newest = r.newest
      /\ q.retry = r.retry /\ q.paused = r.paused
  BY <1>3 DEF PageType, Player, Sweeping
<1> HIDE DEF q
<1>7. PageHolds(q) /\ Undisturbed(r, q)
  BY <1>1, <1>3, <1>4, <1>5, <1>6, ShowsIs
<1>8. Undisturbed(p, q)
  BY <1>3, <1>7, UndisturbedTrans
<1> QED
  BY <1>1, <1>2, <1>3, <1>5, <1>6, <1>7, <1>8

LEMMA ReleaseIs ==
  ASSUME NEW p \in PageType, PageHolds(p)
  PROVE  LET q == Release(p)
         IN  /\ PageHolds(q) /\ Undisturbed(p, q)
             /\ Cache(q) = Cache(p) /\ Player(q) = Player(p) /\ Sweeping(q) = Sweeping(p)
             /\ Shown(q) = Shown(p)
<1> DEFINE r == Silence(p)
           q == [r EXCEPT !.held = NoSong]
<1>1. /\ PageHolds(r) /\ Aborted(p, r) /\ r.paused
      /\ Cache(r) = Cache(p) /\ Player(r) = Player(p) /\ Sweeping(r) = Sweeping(p)
      /\ Shown(r) = Shown(p)
  BY SilenceIs
<1>2. Release(p) = q
  BY DEF Release
<1> HIDE DEF r
<1>3. r \in PageType /\ Undisturbed(p, r)
  BY <1>1, UndisturbedAborted DEF PageHolds
<1>4. q \in PageType
  BY <1>3, HeldIs, ElementPut
<1>5. /\ q.calls = r.calls /\ Cache(q) = Cache(r)
      /\ q.held = NoSong /\ q.src = r.src /\ q.ready = r.ready /\ q.paused = r.paused
      /\ q.broken = r.broken /\ q.permitted = r.permitted
  BY <1>3 DEF PageType, Cache
<1>6. Player(q) = Player(r) /\ Sweeping(q) = Sweeping(r) /\ Shown(q) = Shown(r)
  BY <1>3 DEF PageType, Player, Sweeping, Shown
<1> HIDE DEF q
<1>7. ElementHolds(q)
  BY <1>1, <1>5, <1>6 DEF PageHolds, ElementHolds, Player, At, Answer
<1>8. q.newest = r.newest /\ q.retry = r.retry
  BY <1>6 DEF Sweeping, Shown
<1>9. PageHolds(q) /\ Undisturbed(p, q)
  BY <1>1, <1>3, <1>4, <1>5, <1>6, <1>7, <1>8, CallsKeep, UndisturbedSame, UndisturbedTrans DEF PageHolds
<1> QED
  BY <1>1, <1>2, <1>5, <1>6, <1>9

\* What the element holds is replaced: whatever was starting is over.
LEMMA SwapIs ==
  ASSUME NEW p \in PageType, NEW s \in Held
  PROVE  LET q == Swap(p, s)
         IN  /\ q \in PageType /\ Aborted(p, q)
             /\ Cache(q) = Cache(p) /\ Player(q) = Player(p) /\ Sweeping(q) = Sweeping(p)
             /\ Shown(q) = Shown(p) /\ q.held = p.held
             /\ q.src = s /\ q.paused /\ ~q.ready /\ ~q.broken /\ q.permitted = p.permitted
<1> DEFINE r == Tell(p, Starting, "abort")
           q == [r EXCEPT !.src = s, !.paused = TRUE, !.ready = FALSE, !.broken = FALSE]
<1>1. r \in PageType /\ Rest(r) = Rest(p) /\ Aborted(p, r)
  BY TellIs DEF Aborted
<1>2. Swap(p, s) = q
  BY DEF Swap
<1> HIDE DEF r
<1>3. q \in PageType
  BY <1>1, ElementPut
<1>4. /\ q.calls = r.calls /\ Cache(q) = Cache(r) /\ q.held = r.held
      /\ q.src = s /\ q.paused /\ ~q.ready /\ ~q.broken /\ q.permitted = r.permitted
  BY <1>1 DEF PageType, Cache
<1>5. Player(q) = Player(r) /\ Sweeping(q) = Sweeping(r) /\ Shown(q) = Shown(r)
  BY <1>1 DEF PageType, Player, Sweeping, Shown
<1> HIDE DEF q
<1>6. Aborted(p, q)
  BY <1>1, <1>4 DEF Aborted
<1> QED
  BY <1>1, <1>2, <1>3, <1>4, <1>5, <1>6 DEF Rest, Element

\* The element takes another stream, or the silent clip once the page may play.
LEMMA TakenIs ==
  ASSUME NEW p \in PageType, PageHolds(p), NEW s \in Held \ {NoSong}, s = Silent => p.permitted
  PROVE  LET q == [Swap(p, s) EXCEPT !.held = s]
         IN  /\ q \in PageType /\ PageHolds(q) /\ Undisturbed(p, q)
             /\ Cache(q) = Cache(p) /\ Player(q) = Player(p) /\ Sweeping(q) = Sweeping(p)
             /\ Shown(q) = Shown(p)
             /\ q.src = s /\ ~q.broken /\ q.permitted = p.permitted
<1> DEFINE r == Swap(p, s)
           q == [r EXCEPT !.held = s]
<1>1. s \in Held /\ s # NoSong
  OBVIOUS
<1>2. /\ r \in PageType /\ Aborted(p, r)
      /\ Cache(r) = Cache(p) /\ Player(r) = Player(p) /\ Sweeping(r) = Sweeping(p)
      /\ Shown(r) = Shown(p)
      /\ r.src = s /\ r.paused /\ ~r.ready /\ ~r.broken /\ r.permitted = p.permitted
  BY SwapIs
<1> HIDE DEF r
<1>3. q \in PageType
  BY <1>1, <1>2, ElementPut
<1>4. /\ q.calls = r.calls /\ Cache(q) = Cache(r) /\ q.held = s
      /\ q.src = s /\ q.paused /\ ~q.ready /\ ~q.broken /\ q.permitted = r.permitted
  BY <1>2 DEF PageType, Cache
<1>5. Player(q) = Player(r) /\ Sweeping(q) = Sweeping(r) /\ Shown(q) = Shown(r)
  BY <1>2 DEF PageType, Player, Sweeping, Shown
<1> HIDE DEF q
<1>6. Aborted(p, q)
  BY <1>2, <1>4 DEF Aborted
<1>7. q.newest = p.newest /\ q.retry = p.retry
  BY <1>2, <1>5 DEF Sweeping, Shown
<1>8. ElementHolds(q)
  <2>1. q.finished = p.finished
    BY <1>2, <1>5 DEF Player
  <2>2. \A t \in 0..Calls : At(q, t) \in Starting => Answer(q, t) # "none"
    BY <1>3, <1>6, AbortedCalls
  <2> QED
    BY <1>1, <1>2, <1>4, <2>1, <2>2 DEF PageHolds, ElementHolds
<1>9. PageHolds(q)
  BY <1>2, <1>3, <1>4, <1>5, <1>6, <1>7, <1>8, AbortedKeeps DEF PageHolds
<1>10. Undisturbed(p, q)
  BY <1>3, <1>6, UndisturbedAborted
<1> QED
  BY <1>2, <1>3, <1>4, <1>5, <1>9, <1>10 DEF q, r

LEMMA GetElementIs ==
  ASSUME NEW p \in PageType, PageHolds(p), NEW s \in Songs
  PROVE  LET q == GetElement(p, s)
         IN  /\ PageHolds(q) /\ Undisturbed(p, q)
             /\ Cache(q) = Cache(p) /\ Player(q) = Player(p) /\ Sweeping(q) = Sweeping(p)
             /\ Shown(q) = Shown(p)
             /\ q.src # NoSong /\ ~q.broken
             /\ q.permitted = p.permitted
<1>0. s \in Held \ {NoSong} /\ s # Silent
  BY HeldIs
<1>1. CASE ~(p.held # s \/ p.broken)
  <2>1. GetElement(p, s) = p
    BY <1>1 DEF GetElement
  <2>2. p.src # NoSong
    BY <1>0, <1>1 DEF PageHolds, ElementHolds
  <2> QED
    BY <1>1, <2>1, <2>2, UndisturbedSame
<1>2. CASE p.held # s \/ p.broken
  BY <1>0, <1>2, TakenIs DEF GetElement
<1> QED
  BY <1>1, <1>2

-----------------------------------------------------------------------------
(* The cache. *)

LEMMA CachePut ==
  ASSUME NEW p \in PageType,
         NEW url \in [Songs -> {"none", "fresh", "expired"}], NEW pending \in [Songs -> 0..Requests],
         NEW flight \in [1..Requests -> Songs \cup {NoSong}], NEW held \in Held
  PROVE  /\ [p EXCEPT !.url = url, !.pending = pending, !.held = held] \in PageType
         /\ [p EXCEPT !.flight = flight, !.pending = pending] \in PageType
         /\ [p EXCEPT !.flight = flight, !.pending = pending, !.url = url, !.held = held] \in PageType
<1>1. [p EXCEPT !.url = url, !.pending = pending, !.held = held] \in PageType
  BY Zenon DEF PageType, Held
<1>2. [p EXCEPT !.flight = flight, !.pending = pending] \in PageType
  BY Zenon DEF PageType, Held
<1>3. [p EXCEPT !.flight = flight, !.pending = pending, !.url = url, !.held = held] \in PageType
  BY Zenon DEF PageType, Held
<1> QED
  BY <1>1, <1>2, <1>3

LEMMA RemoveIs ==
  ASSUME NEW p \in PageType, PageHolds(p), NEW s \in Songs
  PROVE  LET q == Remove(p, s)
         IN  /\ PageHolds(q) /\ q.calls = p.calls
             /\ q.flight = p.flight /\ q.url[s] = "none" /\ q.pending[s] = NoRequest
             /\ Player(q) = Player(p) /\ Sweeping(q) = Sweeping(p) /\ Shown(q) = Shown(p)
             /\ q.src = p.src /\ q.ready = p.ready /\ q.paused = p.paused /\ q.broken = p.broken
             /\ q.permitted = p.permitted
<1> DEFINE url == [p.url EXCEPT ![s] = "none"]
           pending == [p.pending EXCEPT ![s] = NoRequest]
           q == [p EXCEPT !.url = url, !.pending = pending, !.held = NoSong]
<1>1. Remove(p, s) = q
  BY DEF Remove
<1>2. url \in [Songs -> {"none", "fresh", "expired"}] /\ url[s] = "none"
  BY DEF PageType
<1>3. pending \in [Songs -> 0..Requests] /\ pending[s] = NoRequest
  BY PlaybackAssumption DEF PlaybackAssumption, PageType, NoRequest
<1>4. \A u \in Songs : pending[u] \in {NoRequest, p.pending[u]}
  BY DEF PageType
<1>0. p.flight \in [1..Requests -> Songs \cup {NoSong}]
  BY DEF PageType
<1> HIDE DEF url, pending
<1>5. q \in PageType
  BY <1>0, <1>2, <1>3, HeldIs, CachePut
<1>6. /\ q.calls = p.calls /\ q.flight = p.flight /\ q.url = url /\ q.pending = pending
      /\ q.held = NoSong
      /\ q.src = p.src /\ q.ready = p.ready /\ q.paused = p.paused /\ q.broken = p.broken
      /\ q.permitted = p.permitted
  BY DEF PageType
<1>7. Player(q) = Player(p) /\ Sweeping(q) = Sweeping(p) /\ Shown(q) = Shown(p)
  BY DEF PageType, Player, Sweeping, Shown
<1> HIDE DEF q
<1>8. CacheHolds(q)
  <2>1. \A u \in Songs : q.pending[u] # NoRequest => q.flight[q.pending[u]] = u
    BY <1>4, <1>6 DEF PageHolds, CacheHolds
  <2> QED
    BY <1>6, <2>1 DEF PageHolds, CacheHolds, At, Answer, SongOf
<1>9. ElementHolds(q)
  BY <1>6, <1>7 DEF PageHolds, ElementHolds, Player, At, Answer
<1>10. q.newest = p.newest /\ q.retry = p.retry
  BY <1>7 DEF Sweeping, Shown
<1> QED
  BY <1>1, <1>2, <1>3, <1>5, <1>6, <1>7, <1>8, <1>9, <1>10, CallsKeep DEF PageHolds

LEMMA AskedIs ==
  ASSUME NEW p \in PageType, PageHolds(p), NEW s \in Songs, FreeRequests(p) # {}
  PROVE  LET q == Asked(p, s)
         IN  /\ PageHolds(q) /\ q.calls = p.calls
             /\ q.url[s] = "fresh" \/ q.pending[s] # NoRequest
             /\ q.url[s] = "fresh" => p.url[s] = "fresh"
             /\ \E r : FreeRequests(p) \ {r} \subseteq FreeRequests(q)
             /\ Player(q) = Player(p) /\ Sweeping(q) = Sweeping(p) /\ Shown(q) = Shown(p)
             /\ q.paused = p.paused /\ q.src = p.src
<1> DEFINE a == IF p.url[s] = "expired" THEN Remove(p, s) ELSE p
           r == Any(FreeRequests(a))
           flight == [a.flight EXCEPT ![r] = s]
           pending == [a.pending EXCEPT ![s] = r]
           q == [a EXCEPT !.flight = flight, !.pending = pending]
<1>0. s # NoSong
  BY DEF Songs, NoSong
<1>1. /\ PageHolds(a) /\ a.calls = p.calls /\ a.flight = p.flight
      /\ a.url[s] = "fresh" => p.url[s] = "fresh"
      /\ Player(a) = Player(p) /\ Sweeping(a) = Sweeping(p) /\ Shown(a) = Shown(p)
      /\ a.paused = p.paused /\ a.src = p.src
  BY RemoveIs
<1>2. Asked(p, s) = IF a.url[s] = "fresh" \/ a.pending[s] # NoRequest THEN a ELSE q
  BY DEF Asked
<1> HIDE DEF a
<1>3. a \in PageType /\ FreeRequests(a) = FreeRequests(p)
  BY <1>1 DEF PageHolds, FreeRequests
<1>4. r \in 1..Requests /\ a.flight[r] = NoSong
  <2>1. r \in FreeRequests(a)
    BY <1>3 DEF Any
  <2> QED
    BY <1>3, <2>1 DEF FreeRequests, PageType
<1> HIDE DEF r
<1>5. CASE a.url[s] = "fresh" \/ a.pending[s] # NoRequest
  BY <1>1, <1>2, <1>3, <1>5
<1>6. CASE ~(a.url[s] = "fresh" \/ a.pending[s] # NoRequest)
  <2>1. /\ flight \in [1..Requests -> Songs \cup {NoSong}]
        /\ flight[r] = s /\ \A u \in 1..Requests : u # r => flight[u] = a.flight[u]
    BY <1>3, <1>4 DEF PageType
  <2>2. /\ pending \in [Songs -> 0..Requests] /\ r # NoRequest
        /\ pending[s] = r /\ \A u \in Songs : u # s => pending[u] = a.pending[u]
    <3>1. r \in 0..Requests /\ r # NoRequest
      BY <1>4, PlaybackAssumption DEF PlaybackAssumption, NoRequest
    <3> QED
      BY <1>3, <3>1 DEF PageType
  <2>3. \A u \in 1..Requests : a.flight[u] = NoSong <=> u \in FreeRequests(p)
    BY <1>3 DEF FreeRequests, PageType
  <2>4. a.url \in [Songs -> {"none", "fresh", "expired"}] /\ a.held \in Held
    BY <1>3 DEF PageType, Held
  <2> HIDE DEF flight, pending
  <2>5. q \in PageType
    BY <1>3, <2>1, <2>2, <2>4, CachePut
  <2>6. q.calls = a.calls /\ q.flight = flight /\ q.pending = pending /\ q.url = a.url
    BY <1>3 DEF PageType
  <2>7. Player(q) = Player(a) /\ Sweeping(q) = Sweeping(a) /\ Shown(q) = Shown(a)
    BY <1>3 DEF PageType, Player, Sweeping, Shown
  <2>8. Element(q) = Element(a)
    BY <1>3 DEF PageType, Element
  <2> HIDE DEF q
  <2>9. CacheHolds(q)
    <3>1. \A u \in Songs : q.pending[u] # NoRequest => q.flight[q.pending[u]] = u
      <4> SUFFICES ASSUME NEW u \in Songs, q.pending[u] # NoRequest PROVE q.flight[q.pending[u]] = u
        OBVIOUS
      <4>1. CASE u = s
        BY <2>1, <2>2, <2>6, <4>1
      <4>2. CASE u # s
        <5>1. q.pending[u] = a.pending[u] /\ a.pending[u] \in 1..Requests
          BY <1>3, <2>2, <2>6, <4>2 DEF PageType, NoRequest
        <5>2. a.flight[a.pending[u]] = u /\ u # NoSong
          BY <1>1, <5>1 DEF PageHolds, CacheHolds, Songs, NoSong
        <5> QED
          BY <1>4, <2>1, <2>6, <5>1, <5>2
      <4> QED
        BY <4>1, <4>2
    <3>2. ASSUME NEW t \in 0..Calls, At(q, t) \in {"resolve", "element"}, Answer(q, t) = "none"
          PROVE  q.calls[t].wait # NoRequest /\ q.flight[q.calls[t].wait] = SongOf(q, t)
      <4>1. At(a, t) = At(q, t) /\ Answer(a, t) = Answer(q, t) /\ SongOf(a, t) = SongOf(q, t)
        BY <2>6 DEF At, Answer, SongOf
      <4>2. /\ a.calls[t].wait # NoRequest /\ a.flight[a.calls[t].wait] = SongOf(a, t)
            /\ SongOf(a, t) \in Songs
        BY <1>1, <3>2, <4>1 DEF PageHolds, CacheHolds, CallsHold, CallHolds
      <4>3. a.calls[t].wait \in 1..Requests /\ SongOf(a, t) # NoSong
        BY <1>3, <4>2, CallField DEF CallType, NoRequest, NoSong, Songs
      <4> QED
        BY <1>4, <2>1, <2>6, <4>1, <4>2, <4>3
    <3> QED
      BY <3>1, <3>2 DEF CacheHolds
  <2>10. ElementHolds(q)
    BY <1>1, <2>6, <2>7, <2>8 DEF PageHolds, ElementHolds, Element, Player, At, Answer
  <2>11. q.newest = a.newest /\ q.retry = a.retry
    BY <2>7 DEF Sweeping, Shown
  <2>12. PageHolds(q)
    BY <1>1, <1>3, <2>5, <2>6, <2>7, <2>9, <2>10, <2>11, CallsKeep DEF PageHolds
  <2>13. FreeRequests(p) \ {r} \subseteq FreeRequests(q)
    BY <2>1, <2>3, <2>6 DEF FreeRequests, PageType
  <2> QED
    BY <1>1, <1>2, <1>6, <2>2, <2>6, <2>7, <2>8, <2>12, <2>13 DEF Element
<1> QED
  BY <1>5, <1>6

\* How many requests are left for what one step may still ask.
Left(p, n) == Cardinality(FreeRequests(p)) >= n

LEMMA FreeFinite ==
  ASSUME NEW p \in PageType
  PROVE  IsFiniteSet(FreeRequests(p)) /\ Cardinality(FreeRequests(p)) \in Nat
<1>1. DOMAIN p.flight = 1..Requests /\ FreeRequests(p) \subseteq 1..Requests
  BY DEF PageType, FreeRequests
<1>2. IsFiniteSet(1..Requests)
  BY FS_Interval, PlaybackAssumption DEF PlaybackAssumption
<1> QED
  BY <1>1, <1>2, FS_Subset, FS_CardinalityType

LEMMA LeftSome ==
  ASSUME NEW p \in PageType, NEW n \in Nat, Left(p, n + 1)
  PROVE  FreeRequests(p) # {}
BY FreeFinite, FS_EmptySet DEF Left

LEMMA LeftAfter ==
  ASSUME NEW p \in PageType, NEW q \in PageType, NEW n \in Nat, Left(p, n + 1), NEW r,
         FreeRequests(p) \ {r} \subseteq FreeRequests(q)
  PROVE  Left(q, n)
<1> DEFINE F == FreeRequests(p)
           G == FreeRequests(q)
<1>1. IsFiniteSet(F) /\ Cardinality(F) \in Nat /\ Cardinality(F) >= n + 1
  BY FreeFinite DEF Left
<1>2. IsFiniteSet(G) /\ Cardinality(G) \in Nat
  BY FreeFinite
<1>3. F \ {r} \subseteq G
  OBVIOUS
<1> HIDE DEF F, G
<1>4. IsFiniteSet(F \ {r}) /\ Cardinality(F \ {r}) \in {Cardinality(F), Cardinality(F) - 1}
  BY <1>1, FS_RemoveElement
<1>5. Cardinality(F \ {r}) <= Cardinality(G)
  BY <1>2, <1>3, FS_Subset
<1> QED
  BY <1>1, <1>2, <1>4, <1>5 DEF Left, G

LEMMA WarmIs ==
  ASSUME NEW p \in PageType, PageHolds(p), NEW s, NEW n \in Nat, Left(p, n + 1)
  PROVE  LET q == Warm(p, s)
         IN  /\ q \in PageType /\ PageHolds(q) /\ q.calls = p.calls /\ Left(q, n)
             /\ Player(q) = Player(p) /\ Sweeping(q) = Sweeping(p) /\ Shown(q) = Shown(p)
             /\ q.paused = p.paused /\ q.src = p.src
<1>1. CASE s \in Songs
  <2>1. Warm(p, s) = Asked(p, s)
    BY <1>1 DEF Warm
  <2>2. FreeRequests(p) # {}
    BY LeftSome
  <2> DEFINE q == Asked(p, s)
  <2>3. /\ PageHolds(q) /\ q.calls = p.calls
        /\ \E r : FreeRequests(p) \ {r} \subseteq FreeRequests(q)
        /\ Player(q) = Player(p) /\ Sweeping(q) = Sweeping(p) /\ Shown(q) = Shown(p)
        /\ q.paused = p.paused /\ q.src = p.src
    BY <1>1, <2>2, AskedIs
  <2> HIDE DEF q
  <2>4. q \in PageType
    BY <2>3 DEF PageHolds
  <2>5. Left(q, n)
    BY <2>3, <2>4, LeftAfter
  <2> QED
    BY <2>1, <2>3, <2>4, <2>5 DEF q
<1>2. CASE s \notin Songs
  <2>1. Warm(p, s) = p
    BY <1>2 DEF Warm
  <2>2. Left(p, n)
    BY FreeFinite DEF Left
  <2> QED
    BY <2>1, <2>2
<1> QED
  BY <1>1, <1>2

LEMMA PreloadIs ==
  ASSUME NEW p \in PageType, PageHolds(p), NEW s, Left(p, 4)
  PROVE  LET q == Preload(p, s)
         IN  /\ PageHolds(q) /\ q.calls = p.calls
             /\ Player(q) = Player(p) /\ Sweeping(q) = Sweeping(p) /\ Shown(q) = Shown(p)
             /\ q.paused = p.paused /\ q.src = p.src
<1> DEFINE a == Warm(p, s + 1)
           b == Warm(a, s + 2)
           c == Warm(b, s + 3)
           d == Warm(c, s + 4)
<1>0. 4 = 3 + 1 /\ 3 = 2 + 1 /\ 2 = 1 + 1 /\ 1 = 0 + 1 /\ {0, 1, 2, 3} \subseteq Nat
  OBVIOUS
<1>1. /\ a \in PageType /\ PageHolds(a) /\ a.calls = p.calls /\ Left(a, 3)
      /\ Player(a) = Player(p) /\ Sweeping(a) = Sweeping(p) /\ Shown(a) = Shown(p)
      /\ a.paused = p.paused /\ a.src = p.src
  BY <1>0, WarmIs
<1> HIDE DEF a
<1>2. /\ b \in PageType /\ PageHolds(b) /\ b.calls = a.calls /\ Left(b, 2)
      /\ Player(b) = Player(a) /\ Sweeping(b) = Sweeping(a) /\ Shown(b) = Shown(a)
      /\ b.paused = a.paused /\ b.src = a.src
  BY <1>0, <1>1, WarmIs
<1> HIDE DEF b
<1>3. /\ c \in PageType /\ PageHolds(c) /\ c.calls = b.calls /\ Left(c, 1)
      /\ Player(c) = Player(b) /\ Sweeping(c) = Sweeping(b) /\ Shown(c) = Shown(b)
      /\ c.paused = b.paused /\ c.src = b.src
  BY <1>0, <1>2, WarmIs
<1> HIDE DEF c
<1>4. /\ PageHolds(d) /\ d.calls = c.calls
      /\ Player(d) = Player(c) /\ Sweeping(d) = Sweeping(c) /\ Shown(d) = Shown(c)
      /\ d.paused = c.paused /\ d.src = c.src
  BY <1>0, <1>3, WarmIs
<1>5. Preload(p, s) = d
  BY DEF Preload, a, b, c
<1> HIDE DEF d
<1> QED
  BY <1>1, <1>2, <1>3, <1>4, <1>5

-----------------------------------------------------------------------------
(* One call goes on. *)

\* What the page asks of a call that has got to where c stands.
Fits(p, t, c) ==
  /\ c \in CallType /\ c.answer # "failed"
  /\ c.pc = "idle" => c.answer = "none"
  /\ c.pc \notin {"idle", "prime"} => c.song \in Songs
  /\ c.pc \in {"resolve", "element", "buffer"} => c.answer \in {"none", "ok"}
  /\ c.pc = "buffer" => ~c.auto \/ c.given
  /\ c.pc \in {"start", "retry", "resume"} => c.auto
  /\ c.pc = "resume" => ~c.given
  /\ t = Recovery => ~c.auto /\ c.pc \in {"idle", "resolve", "element", "buffer", "revive"}
  /\ t # Recovery => c.pc # "revive"
  /\ c.pc \in {"resolve", "element"} /\ c.answer = "none"
     => c.wait # NoRequest /\ p.flight[c.wait] = c.song
  /\ c.pc \in Starting /\ c.answer = "none" => ~p.paused /\ p.src # NoSong
  /\ c.pc = "buffer" /\ c.answer = "none" => ~p.ready
  /\ c.pc = "buffer" /\ c.answer = "ok" => ~p.broken /\ p.src # NoSong
  /\ /\ c.answer = "ok" /\ t # p.newest /\ p.newest # Nobody
     /\ c.pc \in {"resolve", "element", "buffer"} /\ (~c.auto \/ c.given)
     => Answer(p, p.newest) # "failed"

LEMMA PutHolds ==
  ASSUME NEW p \in PageType, PageHolds(p), NEW t \in 0..Calls, NEW c, Fits(p, t, c)
  PROVE  LET q == [p EXCEPT !.calls[t] = c]
         IN  /\ q \in PageType /\ PageHolds(q) /\ Rest(q) = Rest(p)
             /\ q.calls[t] = c /\ Others(p, q, t)
<1> DEFINE q == [p EXCEPT !.calls[t] = c]
<1>0. c \in CallType
  BY DEF Fits
<1>1. /\ q \in PageType /\ Rest(q) = Rest(p)
      /\ q.calls[t] = c /\ \A u \in 0..Calls : u # t => q.calls[u] = p.calls[u]
  BY <1>0, CallPut
<1> HIDE DEF q
<1>2. /\ Cache(q) = Cache(p) /\ Element(q) = Element(p) /\ Player(q) = Player(p)
      /\ Sweeping(q) = Sweeping(p) /\ Shown(q) = Shown(p)
  BY <1>1 DEF Rest
<1>3. \A u \in 0..Calls : u # t => /\ At(q, u) = At(p, u) /\ SongOf(q, u) = SongOf(p, u)
                                   /\ Answer(q, u) = Answer(p, u)
  BY <1>1 DEF At, SongOf, Answer
<1>4. At(q, t) = c.pc /\ SongOf(q, t) = c.song /\ Answer(q, t) = c.answer
  BY <1>1 DEF At, SongOf, Answer
<1>5. CallsHold(q)
  <2> SUFFICES ASSUME NEW u \in 0..Calls PROVE CallHolds(q, u)
    BY DEF CallsHold
  <2>1. CASE u = t
    BY <1>1, <1>4, <2>1 DEF CallHolds, Fits
  <2>2. CASE u # t
    BY <1>1, <1>3, <2>2 DEF PageHolds, CallsHold, CallHolds
  <2> QED
    BY <2>1, <2>2
<1>6. CacheHolds(q)
  <2>1. q.pending = p.pending /\ q.flight = p.flight
    BY <1>2 DEF Cache
  <2>2. ASSUME NEW u \in 0..Calls, At(q, u) \in {"resolve", "element"}, Answer(q, u) = "none"
        PROVE  q.calls[u].wait # NoRequest /\ q.flight[q.calls[u].wait] = SongOf(q, u)
    <3>1. CASE u = t
      BY <1>1, <1>4, <2>1, <2>2, <3>1 DEF Fits
    <3>2. CASE u # t
      BY <1>1, <1>3, <2>1, <2>2, <3>2 DEF PageHolds, CacheHolds
    <3> QED
      BY <3>1, <3>2
  <2> QED
    BY <2>1, <2>2 DEF PageHolds, CacheHolds
<1>7. ElementHolds(q)
  <2>1. /\ q.ready = p.ready /\ q.broken = p.broken /\ q.held = p.held /\ q.src = p.src
        /\ q.loaded = p.loaded /\ q.finished = p.finished /\ q.permitted = p.permitted
        /\ q.paused = p.paused
    BY <1>2 DEF Element, Player
  <2>2. ASSUME NEW u \in 0..Calls
        PROVE  /\ At(q, u) \in Starting /\ Answer(q, u) = "none" => ~q.paused /\ q.src # NoSong
               /\ At(q, u) = "buffer" /\ Answer(q, u) = "none" => ~q.ready
               /\ At(q, u) = "buffer" /\ Answer(q, u) = "ok" => ~q.broken /\ q.src # NoSong
    <3>1. CASE u = t
      BY <1>4, <2>1, <3>1 DEF Fits
    <3>2. CASE u # t
      BY <1>3, <2>1, <3>2 DEF PageHolds, ElementHolds
    <3> QED
      BY <3>1, <3>2
  <2> QED
    BY <2>1, <2>2 DEF PageHolds, ElementHolds
<1>9. SpareHolds(q)
  <2>1. q.newest = p.newest
    BY <1>2 DEF Sweeping
  <2>2. p.newest # Nobody => p.newest \in 0..Calls
    BY DEF PageType, Tasks
  <2> SUFFICES ASSUME q.newest # Nobody, Answer(q, q.newest) = "failed", NEW u \in 0..Calls, Hot(q, u)
               PROVE  FALSE
    BY DEF SpareHolds
  <2>3. p.newest # t /\ Answer(p, p.newest) = "failed"
    BY <1>3, <1>4, <2>1, <2>2 DEF Fits
  <2>4. CASE u = t
    <3>1. /\ c.answer = "ok" /\ c.pc \in {"resolve", "element", "buffer"}
          /\ ~c.auto \/ c.given
      BY <1>1, <1>4, <2>4 DEF Hot, Fits
    <3> QED
      BY <2>1, <2>3, <3>1 DEF Fits
  <2>5. CASE u # t
    <3>1. Hot(p, u)
      BY <1>1, <1>3, <2>1, <2>5 DEF Hot
    <3> QED
      BY <2>1, <2>3, <3>1 DEF PageHolds, SpareHolds
  <2> QED
    BY <2>4, <2>5
<1>11. Others(p, q, t)
  BY <1>1, <1>3 DEF Others, Leaves
<1> QED
  BY <1>1, <1>5, <1>6, <1>7, <1>9, <1>11 DEF PageHolds, q

Pcs == Laddered \cup Starting \cup {"idle"}
Answers == {"none", "ok", "failed", "abort", "denied"}

LEMMA GoesOn ==
  ASSUME NEW k \in CallType, NEW pc \in Pcs, NEW answer \in Answers, NEW wait \in 0..Requests
  PROVE  [k EXCEPT !.pc = pc, !.answer = answer, !.wait = wait] \in CallType
BY Zenon DEF CallType, Pcs, Answers

LEMMA NoWait == NoRequest \in 0..Requests
BY PlaybackAssumption DEF PlaybackAssumption, NoRequest

LEMMA FinishIs ==
  ASSUME NEW p \in PageType, PageHolds(p), NEW t \in 0..Calls
  PROVE  LET q == Finish(p, t)
         IN  /\ q \in PageType /\ PageHolds(q) /\ Rest(q) = Rest(p)
             /\ q.calls[t] = IdleCall /\ Others(p, q, t)
<1>1. Fits(p, t, IdleCall)
  BY IdleType DEF Fits, IdleCall, Starting
<1> QED
  BY <1>1, PutHolds DEF Finish

\* audio.play() is only ever called on an element that is not broken, and that
\* holds a stream once the page may play at all.
LEMMA StartIs ==
  ASSUME NEW p \in PageType, PageHolds(p), NEW t \in 0..Calls, NEW pc \in Starting,
         pc = "prime" \/ SongOf(p, t) \in Songs,
         pc \in {"start", "retry", "resume"} => p.calls[t].auto,
         pc = "resume" => ~p.calls[t].given,
         t = Recovery => pc = "revive" /\ ~p.calls[t].auto,
         t # Recovery => pc # "revive",
         ~p.broken, p.permitted => p.src # NoSong
  PROVE  LET q == Start(p, t, pc)
         IN  /\ q \in PageType /\ PageHolds(q) /\ Others(p, q, t)
             /\ At(q, t) = pc /\ SongOf(q, t) = SongOf(p, t) /\ Answer(q, t) \in {"none", "denied"}
             /\ Cache(q) = Cache(p) /\ Sweeping(q) = Sweeping(p) /\ q.retry = p.retry
             /\ q.loaded = p.loaded /\ q.loader = p.loader /\ q.current = p.current
<1>0. p.calls[t] \in CallType
  BY CallField
<1>1. ASSUME NEW a \in {"denied", "none"}, NEW r \in PageType, PageHolds(r), r.calls = p.calls,
             r.newest = p.newest,
             a = "none" => ~r.paused /\ r.src # NoSong
      PROVE  LET q == Await(r, t, pc, a)
             IN  /\ q \in PageType /\ PageHolds(q) /\ Rest(q) = Rest(r) /\ Others(p, q, t)
                 /\ At(q, t) = pc /\ SongOf(q, t) = SongOf(p, t) /\ Answer(q, t) = a
  <2> DEFINE c == [p.calls[t] EXCEPT !.pc = pc, !.answer = a, !.wait = NoRequest]
             q == [r EXCEPT !.calls[t] = c]
  <2>1. Await(r, t, pc, a) = q
    BY <1>1 DEF Await
  <2>0. pc \in Pcs /\ a \in Answers
    BY <1>1 DEF Pcs, Answers
  <2>00. c \in CallType
    BY <1>0, <2>0, NoWait, GoesOn
  <2>2. /\ c \in CallType /\ c.pc = pc /\ c.answer = a /\ c.song = p.calls[t].song
        /\ c.auto = p.calls[t].auto /\ c.given = p.calls[t].given
    BY <1>0, <2>00 DEF CallType
  <2>3. c.song = SongOf(p, t)
    BY <2>2 DEF SongOf
  <2>4. pc \notin {"idle", "resolve", "element", "buffer"}
    BY DEF Starting
  <2> HIDE DEF c
  <2>5. Fits(r, t, c)
    BY <1>1, <2>2, <2>3, <2>4 DEF Fits
  <2>6. /\ q \in PageType /\ PageHolds(q) /\ Rest(q) = Rest(r)
        /\ q.calls[t] = c /\ Others(r, q, t)
    BY <1>1, <2>5, PutHolds
  <2>7. Others(p, q, t)
    BY <1>1, <2>6 DEF Others, Leaves, At, SongOf, Answer
  <2> QED
    BY <2>1, <2>2, <2>3, <2>6, <2>7 DEF At, SongOf, Answer
<1>2. CASE ~p.permitted
  <2>1. Start(p, t, pc) = Await(p, t, pc, "denied")
    BY <1>2 DEF Start
  <2> HIDE DEF Await
  <2> QED
    BY <1>1, <2>1 DEF Rest, Player, Shown
<1>3. CASE p.permitted
  <2> DEFINE r == IF p.paused /\ p.loaded # NoSong
                  THEN [p EXCEPT !.paused = FALSE, !.quiet = FALSE, !.finished = FALSE, !.playing = TRUE]
                  ELSE [p EXCEPT !.paused = FALSE]
  <2>1. Start(p, t, pc) = Await(r, t, pc, "none")
    BY <1>3 DEF Start
  <2>2. r \in PageType
    BY HeldIs, ElementPut
  <2>3. /\ r.calls = p.calls /\ Cache(r) = Cache(p) /\ Sweeping(r) = Sweeping(p)
        /\ r.loader = p.loader /\ r.current = p.current /\ r.loaded = p.loaded
        /\ r.retry = p.retry
    BY DEF PageType, Cache, Sweeping
  <2>4. /\ ~r.paused /\ r.src = p.src /\ r.ready = p.ready /\ r.broken = p.broken
        /\ r.held = p.held /\ r.permitted = p.permitted
    BY DEF PageType
  <2> HIDE DEF r
  <2>5. /\ CallsHold(r) /\ CacheHolds(r) /\ SpareHolds(r)
    BY <2>2, <2>3, CallsKeep DEF PageHolds, Sweeping
  <2>6. ElementHolds(r)
    BY <1>3, <2>3, <2>4 DEF PageHolds, ElementHolds, At, Answer
  <2>8. PageHolds(r) /\ r.newest = p.newest
    BY <2>2, <2>3, <2>5, <2>6 DEF PageHolds, Sweeping
  <2> DEFINE q == Await(r, t, pc, "none")
  <2>9. /\ q \in PageType /\ PageHolds(q) /\ Rest(q) = Rest(r) /\ Others(p, q, t)
        /\ At(q, t) = pc /\ SongOf(q, t) = SongOf(p, t) /\ Answer(q, t) = "none"
    BY <1>1, <1>3, <2>2, <2>3, <2>4, <2>8
  <2> HIDE DEF q
  <2> QED
    BY <2>1, <2>3, <2>9 DEF Rest, Player, Shown, q
<1> QED
  BY <1>2, <1>3

\* What a song about to be fetched must not meet: a newest call that has failed,
\* when this one would go straight on to play through the element.
Alone(p, t) ==
  t # p.newest /\ p.newest # Nobody /\ (~p.calls[t].auto \/ p.calls[t].given)
  => Answer(p, p.newest) # "failed"

LEMMA FetchIs ==
  ASSUME NEW p \in PageType, PageHolds(p), NEW t \in 0..Calls, NEW s \in Songs,
         NEW pc \in {"resolve", "element"}, SongOf(p, t) = s, FreeRequests(p) # {},
         t = Recovery => ~p.calls[t].auto,
         p.url[s] = "fresh" => Alone(p, t)
  PROVE  LET q == Fetch(p, t, s, pc)
         IN  /\ q \in PageType /\ PageHolds(q) /\ Others(p, q, t)
             /\ At(q, t) = pc /\ SongOf(q, t) = s /\ Answer(q, t) \in {"ok", "none"}
             /\ Answer(q, t) = "ok" => p.url[s] = "fresh"
             /\ Player(q) = Player(p) /\ Sweeping(q) = Sweeping(p) /\ Shown(q) = Shown(p)
<1> DEFINE a == Asked(p, s)
           hit == a.url[s] = "fresh"
           answer == IF hit THEN "ok" ELSE "none"
           wait == IF hit THEN NoRequest ELSE a.pending[s]
           c == [a.calls[t] EXCEPT !.pc = pc, !.answer = answer, !.wait = wait]
           q == [a EXCEPT !.calls[t] = c]
<1>1. Fetch(p, t, s, pc) = q
  BY DEF Fetch
<1>2. /\ PageHolds(a) /\ a.calls = p.calls
      /\ a.url[s] = "fresh" \/ a.pending[s] # NoRequest
      /\ a.url[s] = "fresh" => p.url[s] = "fresh"
      /\ Player(a) = Player(p) /\ Sweeping(a) = Sweeping(p) /\ Shown(a) = Shown(p)
  BY AskedIs
<1> HIDE DEF a
<1>3. a \in PageType /\ a.calls[t] \in CallType
  BY <1>2, CallField DEF PageHolds
<1>4. pc \in Pcs /\ answer \in Answers /\ wait \in 0..Requests
  BY <1>3, NoWait DEF Pcs, Answers, Laddered, PageType
<1>5. /\ answer = "ok" => p.url[s] = "fresh"
      /\ answer \in {"ok", "none"}
      /\ answer = "none" => wait # NoRequest /\ a.flight[wait] = s
  BY <1>2 DEF PageHolds, CacheHolds
<1> HIDE DEF answer, wait
<1>6. c \in CallType
  BY <1>3, <1>4, GoesOn
<1>7. /\ c.pc = pc /\ c.answer = answer /\ c.wait = wait /\ c.song = s
      /\ c.auto = p.calls[t].auto /\ c.given = p.calls[t].given
  BY <1>2, <1>3 DEF CallType, SongOf
<1> HIDE DEF c
<1>8. Fits(a, t, c)
  <2>1. a.loader = p.loader /\ a.current = p.current /\ a.newest = p.newest
    BY <1>2 DEF Player, Sweeping
  <2>2. pc \notin Starting /\ pc \notin {"idle", "buffer", "start", "retry", "resume", "revive"}
    BY DEF Starting
  <2>3. Answer(a, a.newest) = Answer(p, p.newest)
    BY <1>2, <2>1 DEF Answer
  <2> QED
    BY <1>5, <1>6, <1>7, <2>1, <2>2, <2>3 DEF Fits, Alone
<1>9. /\ q \in PageType /\ PageHolds(q) /\ Rest(q) = Rest(a)
      /\ q.calls[t] = c /\ Others(a, q, t)
  BY <1>2, <1>3, <1>8, PutHolds
<1> HIDE DEF q
<1>10. Others(p, q, t)
  BY <1>2, <1>9 DEF Others, Leaves, At, SongOf, Answer
<1>11. /\ At(q, t) = pc /\ SongOf(q, t) = s /\ Answer(q, t) \in {"ok", "none"}
       /\ Answer(q, t) = "ok" => p.url[s] = "fresh"
  BY <1>5, <1>7, <1>9 DEF At, SongOf, Answer
<1> QED
  BY <1>1, <1>2, <1>9, <1>10, <1>11 DEF Rest

LEMMA UnloadPut ==
  ASSUME NEW p \in PageType
  PROVE  [p EXCEPT !.loaded = NoSong] \in PageType
BY Zenon DEF PageType

LEMMA LoadPut ==
  ASSUME NEW p \in PageType, NEW s \in Songs
  PROVE  [p EXCEPT !.loaded = s] \in PageType
BY Zenon DEF PageType

LEMMA PlayerPut ==
  ASSUME NEW p \in PageType, NEW t \in 0..Calls, NEW s \in Songs, NEW b \in BOOLEAN, NEW c \in BOOLEAN
  PROVE  [p EXCEPT !.loader = t, !.quiet = b, !.finished = FALSE, !.current = s, !.loading = c]
           \in PageType
<1>1. t \in (0..Calls) \cup {Nobody} /\ s \in Songs \cup {NoSong} /\ FALSE \in BOOLEAN
  OBVIOUS
<1> QED
  BY <1>1, ZenonT(60) DEF PageType

\* The element is put down before another song is loaded.
LEMMA DroppedIs ==
  ASSUME NEW p \in PageType, PageHolds(p)
  PROVE  LET a == IF p.finished THEN Release(p) ELSE p
             q == IF a.loaded # NoSong THEN [Silence(a) EXCEPT !.loaded = NoSong] ELSE a
         IN  /\ q \in PageType /\ PageHolds(q) /\ Undisturbed(p, q) /\ q.loaded = NoSong
             /\ Cache(q) = Cache(p) /\ Sweeping(q) = Sweeping(p) /\ Shown(q) = Shown(p)
<1> DEFINE a == IF p.finished THEN Release(p) ELSE p
           b == Silence(a)
           q == [b EXCEPT !.loaded = NoSong]
<1>1. /\ PageHolds(a) /\ Undisturbed(p, a)
      /\ Cache(a) = Cache(p) /\ Sweeping(a) = Sweeping(p) /\ Shown(a) = Shown(p)
  BY ReleaseIs, UndisturbedSame
<1> HIDE DEF a
<1>2. a \in PageType
  BY <1>1 DEF PageHolds
<1>3. CASE a.loaded = NoSong
  BY <1>1, <1>2, <1>3 DEF a
<1>4. CASE a.loaded # NoSong
  <2>1. /\ PageHolds(b) /\ Aborted(a, b)
        /\ Cache(b) = Cache(a) /\ Sweeping(b) = Sweeping(a) /\ Shown(b) = Shown(a)
    BY <1>1, <1>2, SilenceIs
  <2> HIDE DEF b
  <2>2. b \in PageType
    BY <2>1 DEF PageHolds
  <2>3. q \in PageType
    BY <2>2, UnloadPut
  <2>4. /\ q.calls = b.calls /\ Cache(q) = Cache(b) /\ Sweeping(q) = Sweeping(b) /\ Shown(q) = Shown(b)
        /\ Element(q) = Element(b) /\ q.loaded = NoSong /\ q.finished = b.finished
        /\ q.loader = b.loader /\ q.current = b.current /\ q.retry = b.retry /\ q.newest = b.newest
    BY <2>2 DEF PageType, Cache, Sweeping, Shown, Element
  <2> HIDE DEF q
  <2>5. ElementHolds(q)
    BY <2>1, <2>4 DEF PageHolds, ElementHolds, Element, At, Answer
  <2>7. CallsHold(q) /\ CacheHolds(q) /\ SpareHolds(q)
    BY <2>1, <2>2, <2>3, <2>4, CallsKeep DEF PageHolds
  <2>8. Undisturbed(p, q)
    <3>1. Undisturbed(a, b)
      BY <1>2, <2>1, <2>2, UndisturbedAborted
    <3>2. Undisturbed(b, q)
      BY <2>4, UndisturbedSame
    <3>3. Undisturbed(a, q)
      BY <3>1, <3>2, UndisturbedTrans
    <3> QED
      BY <1>1, <3>3, UndisturbedTrans
  <2>9. PageHolds(q)
    BY <2>3, <2>5, <2>7 DEF PageHolds
  <2> QED
    BY <1>1, <1>4, <2>1, <2>3, <2>4, <2>8, <2>9 DEF a, b, q
<1> QED
  BY <1>3, <1>4

\* One call goes on and the rest of the page keeps its hold.
Onward(p, q, t) == q \in PageType /\ PageHolds(q) /\ Others(p, q, t)

LEMMA OnwardAfter ==
  ASSUME NEW p, NEW q, NEW r, NEW t, Undisturbed(p, q), Onward(q, r, t)
  PROVE  Onward(p, r, t)
<1> SUFFICES ASSUME NEW u \in 0..Calls, u # t PROVE Leaves(p, r, u)
  BY DEF Onward, Others
<1>1. Leaves(p, q, u) /\ Leaves(q, r, u)
  BY DEF Undisturbed, Onward, Others
<1> QED
  BY <1>1 DEF Leaves, Answer

LEMMA OthersTrans ==
  ASSUME NEW p, NEW q, NEW r, NEW t, Others(p, q, t), Others(q, r, t)
  PROVE  Others(p, r, t)
<1> SUFFICES ASSUME NEW u \in 0..Calls, u # t PROVE Leaves(p, r, u)
  BY DEF Others
<1>1. Leaves(p, q, u) /\ Leaves(q, r, u)
  BY DEF Others
<1> QED
  BY <1>1 DEF Leaves, Answer

\* The owner is kept by whatever neither loads nor starts a call.
LEMMA OwnedKeeps ==
  ASSUME NEW p \in PageType, NEW q \in PageType, Owned(p), NEW t \in 0..Calls, Others(p, q, t),
         At(q, t) \in {"resolve", "element"}
         => At(p, t) \in {"resolve", "element"} /\ SongOf(q, t) = SongOf(p, t),
         t = Recovery /\ At(q, t) # "idle" => At(p, t) # "idle" /\ SongOf(q, t) = SongOf(p, t),
         q.loader = p.loader, q.current = p.current,
         q.loaded \in {p.loaded, NoSong}, q.retry \in {p.retry, NoSong}
  PROVE  Owned(q)
<1>1. p.loader # Nobody => p.loader \in 0..Calls
  BY DEF PageType
<1>2. Recovery \in 0..Calls
  BY PlaybackAssumption DEF PlaybackAssumption, Recovery
<1>3. \A u \in 0..Calls : u # t => At(q, u) = At(p, u) /\ SongOf(q, u) = SongOf(p, u)
  BY DEF Others, Leaves
<1>4. OwnerHolds(q)
  BY <1>1, <1>3 DEF Owned, OwnerHolds
<1>5. RecoveryHolds(q)
  BY <1>2, <1>3 DEF Owned, RecoveryHolds
<1> QED
  BY <1>4, <1>5 DEF Owned

\* The owner is kept by whatever leaves the calls where they are.
LEMMA OwnedStays ==
  ASSUME NEW p \in PageType, NEW q \in PageType, Owned(p), Undisturbed(p, q),
         q.loader = p.loader, q.current = p.current,
         q.loaded \in {p.loaded, NoSong}, q.retry \in {p.retry, NoSong}
  PROVE  Owned(q)
<1>1. Recovery \in 0..Calls
  BY PlaybackAssumption DEF PlaybackAssumption, Recovery
<1>2. Others(p, q, Recovery) /\ Leaves(p, q, Recovery)
  BY <1>1 DEF Undisturbed, Others
<1> QED
  BY <1>1, <1>2, OwnedKeeps DEF Leaves

\* loadSongIntoPlayer: the load owns the element from its first await on.
LEMMA LoadIs ==
  ASSUME NEW p \in PageType, PageHolds(p), NEW t \in 0..Calls, NEW s \in Songs,
         NEW quietly \in BOOLEAN, SongOf(p, t) = s, FreeRequests(p) # {},
         t = Recovery => ~p.calls[t].auto /\ p.retry = NoSong,
         p.url[s] = "fresh" => Alone(p, t)
  PROVE  LET q == Load(p, t, s, quietly)
         IN  /\ Onward(p, q, t) /\ Owned(q)
             /\ At(q, t) = "resolve" /\ SongOf(q, t) = s /\ Answer(q, t) \in {"ok", "none"}
             /\ Answer(q, t) = "ok" => p.url[s] = "fresh"
             /\ q.loader = t /\ q.current = s /\ q.loaded = NoSong
             /\ Sweeping(q) = Sweeping(p) /\ q.retry = p.retry
<1> DEFINE a == IF p.finished THEN Release(p) ELSE p
           b == IF a.loaded # NoSong THEN [Silence(a) EXCEPT !.loaded = NoSong] ELSE a
           loading == ~quietly \/ b.loading
           c == [b EXCEPT !.loader = t, !.quiet = quietly, !.finished = FALSE, !.current = s,
                          !.loading = loading]
           q == Fetch(c, t, s, "resolve")
<1>0. s # NoSong /\ t # Nobody
  BY DEF Songs, NoSong, Nobody
<1>1. Load(p, t, s, quietly) = q
  BY DEF Load
<1>2. /\ b \in PageType /\ PageHolds(b) /\ Undisturbed(p, b) /\ b.loaded = NoSong
      /\ Cache(b) = Cache(p) /\ Sweeping(b) = Sweeping(p) /\ Shown(b) = Shown(p)
  BY DroppedIs
<1> HIDE DEF a, b
<1>3. loading \in BOOLEAN
  BY <1>2 DEF PageType
<1> HIDE DEF loading
<1>4. c \in PageType
  BY <1>2, <1>3, PlayerPut
<1>5. /\ c.calls = b.calls /\ Cache(c) = Cache(b) /\ Element(c) = Element(b)
      /\ Sweeping(c) = Sweeping(b) /\ c.retry = b.retry
  BY <1>2 DEF PageType, Cache, Element, Sweeping
<1>6. c.loader = t /\ c.current = s /\ c.loaded = NoSong /\ ~c.finished
  BY <1>2 DEF PageType
<1> HIDE DEF c
<1>7. ElementHolds(c)
  BY <1>2, <1>5, <1>6 DEF PageHolds, ElementHolds, Element, At, Answer
<1>8. PageHolds(c)
  <2>1. c.newest = b.newest
    BY <1>5 DEF Sweeping
  <2> QED
    BY <1>2, <1>4, <1>5, <1>7, <2>1, CallsKeep DEF PageHolds
<1>9. Undisturbed(p, c)
  BY <1>2, <1>5, UndisturbedSame, UndisturbedTrans
<1>10. /\ SongOf(c, t) = s /\ c.calls[t].auto = p.calls[t].auto /\ c.calls[t].given = p.calls[t].given
  BY <1>9 DEF Undisturbed, Leaves
<1>11. FreeRequests(c) # {} /\ c.url = p.url /\ c.newest = p.newest /\ c.retry = p.retry
  BY <1>2, <1>5 DEF Cache, FreeRequests, Sweeping, Shown
<1>12. c.url[s] = "fresh" => Alone(c, t)
  <2>1. p.newest # Nobody => p.newest \in 0..Calls
    BY DEF PageType, Tasks
  <2>2. p.newest # Nobody /\ Answer(p, p.newest) # "failed" => Answer(c, p.newest) # "failed"
    BY <1>9, <2>1 DEF Undisturbed, Leaves
  <2> QED
    BY <1>10, <1>11, <2>2 DEF Alone
<1>13. /\ q \in PageType /\ PageHolds(q) /\ Others(c, q, t)
       /\ At(q, t) = "resolve" /\ SongOf(q, t) = s /\ Answer(q, t) \in {"ok", "none"}
       /\ Answer(q, t) = "ok" => c.url[s] = "fresh"
       /\ Player(q) = Player(c) /\ Sweeping(q) = Sweeping(c) /\ Shown(q) = Shown(c)
  BY <1>4, <1>8, <1>10, <1>11, <1>12, FetchIs
<1> HIDE DEF q
<1>14. Onward(p, q, t)
  BY <1>9, <1>13, OnwardAfter DEF Onward
<1>15. /\ q.loader = t /\ q.current = s /\ q.loaded = NoSong /\ q.retry = p.retry
       /\ Sweeping(q) = Sweeping(p)
  BY <1>2, <1>5, <1>6, <1>11, <1>13 DEF Player, Shown
<1>16. Owned(q)
  BY <1>0, <1>13, <1>15 DEF Owned, OwnerHolds, RecoveryHolds
<1> QED
  BY <1>1, <1>11, <1>13, <1>14, <1>15, <1>16

LEMMA RungPut ==
  ASSUME NEW p \in PageType, PageHolds(p), NEW t \in 0..Calls, NEW k \in 0..3
  PROVE  LET q == [p EXCEPT !.calls[t].rung = k]
         IN  /\ q \in PageType /\ PageHolds(q) /\ Rest(q) = Rest(p)
             /\ \A u \in 0..Calls : Leaves(p, q, u) \/ u = t
             /\ At(q, t) = At(p, t) /\ SongOf(q, t) = SongOf(p, t) /\ Answer(q, t) = Answer(p, t)
             /\ q.calls[t].auto = p.calls[t].auto /\ q.calls[t].given = p.calls[t].given
<1> DEFINE c == [p.calls[t] EXCEPT !.rung = k]
           q == [p EXCEPT !.calls[t] = c]
<1>0. p.calls[t] \in CallType
  BY CallField
<1>1. c \in CallType
  BY <1>0 DEF CallType
<1>2. /\ c.pc = p.calls[t].pc /\ c.song = p.calls[t].song /\ c.answer = p.calls[t].answer
      /\ c.auto = p.calls[t].auto /\ c.given = p.calls[t].given /\ c.wait = p.calls[t].wait
  BY <1>0 DEF CallType
<1>3. [p EXCEPT !.calls[t].rung = k] = q
  OBVIOUS
<1> HIDE DEF c
<1>4. /\ q \in PageType /\ Rest(q) = Rest(p)
      /\ q.calls[t] = c /\ \A u \in 0..Calls : u # t => q.calls[u] = p.calls[u]
  BY <1>1, CallPut
<1> HIDE DEF q
<1>5. \A u \in 0..Calls : /\ At(q, u) = At(p, u) /\ SongOf(q, u) = SongOf(p, u)
                          /\ Answer(q, u) = Answer(p, u)
                          /\ q.calls[u].auto = p.calls[u].auto /\ q.calls[u].given = p.calls[u].given
                          /\ q.calls[u].wait = p.calls[u].wait
  BY <1>2, <1>4 DEF At, SongOf, Answer
<1>6. /\ Cache(q) = Cache(p) /\ Element(q) = Element(p) /\ q.newest = p.newest
      /\ q.loaded = p.loaded /\ q.finished = p.finished
  BY <1>4 DEF Rest, Player, Sweeping
<1>7. CallsHold(q)
  BY <1>5 DEF PageHolds, CallsHold, CallHolds
<1>8. CacheHolds(q)
  BY <1>5, <1>6 DEF PageHolds, CacheHolds, Cache
<1>9. ElementHolds(q)
  BY <1>5, <1>6 DEF PageHolds, ElementHolds, Element
<1>10. SpareHolds(q)
  <2>1. p.newest # Nobody => p.newest \in 0..Calls
    BY DEF PageType, Tasks
  <2> QED
    BY <1>5, <1>6, <2>1 DEF PageHolds, SpareHolds, Hot
<1> QED
  BY <1>3, <1>4, <1>5, <1>7, <1>8, <1>9, <1>10 DEF PageHolds, Leaves

\* A rung of the ladder: only the newest play(), or one that asked for no position,
\* loads from here.
LEMMA RungIs ==
  ASSUME NEW p \in PageType, PageHolds(p), NEW t \in Tasks, NEW k \in 0..3,
         SongOf(p, t) \in Songs, FreeRequests(p) # {},
         t = p.newest \/ (p.calls[t].auto /\ ~p.calls[t].given)
  PROVE  LET q == Rung(p, t, k)
         IN  /\ Onward(p, q, t) /\ Owned(q)
             /\ At(q, t) = "resolve" /\ SongOf(q, t) = SongOf(p, t) /\ Answer(q, t) \in {"ok", "none"}
             /\ q.loader = t /\ q.current = SongOf(p, t) /\ q.loaded = NoSong
             /\ Sweeping(q) = Sweeping(p) /\ q.retry = p.retry
<1> DEFINE r == [p EXCEPT !.calls[t].rung = k]
           s == SongOf(p, t)
           q == Load(r, t, s, FALSE)
<1>0. t \in 0..Calls /\ t # Recovery
  BY PlaybackAssumption DEF PlaybackAssumption, Tasks, Recovery
<1>1. Rung(p, t, k) = q
  BY DEF Rung
<1>2. /\ r \in PageType /\ PageHolds(r) /\ Rest(r) = Rest(p)
      /\ \A u \in 0..Calls : Leaves(p, r, u) \/ u = t
      /\ SongOf(r, t) = s
      /\ r.calls[t].auto = p.calls[t].auto /\ r.calls[t].given = p.calls[t].given
  BY <1>0, RungPut
<1> HIDE DEF r
<1>3. /\ FreeRequests(r) # {} /\ r.newest = p.newest /\ r.retry = p.retry
      /\ Sweeping(r) = Sweeping(p)
  BY <1>2 DEF Rest, Cache, FreeRequests, Sweeping, Shown
<1>4. Alone(r, t)
  BY <1>2, <1>3 DEF Alone
<1>5. /\ Onward(r, q, t) /\ Owned(q)
      /\ At(q, t) = "resolve" /\ SongOf(q, t) = s /\ Answer(q, t) \in {"ok", "none"}
      /\ q.loader = t /\ q.current = s /\ q.loaded = NoSong
      /\ Sweeping(q) = Sweeping(r) /\ q.retry = r.retry
  <2>1. r \in PageType /\ PageHolds(r) /\ SongOf(r, t) = s /\ FreeRequests(r) # {}
    BY <1>2, <1>3
  <2> HIDE DEF s
  <2>2. s \in Songs
    BY DEF s
  <2>3. FALSE \in BOOLEAN /\ (t = Recovery => ~r.calls[t].auto /\ r.retry = NoSong)
    BY <1>0
  <2>4. r.url[s] = "fresh" => Alone(r, t)
    BY <1>4
  <2>5. t \in 0..Calls
    BY <1>0
  <2> HIDE DEF r
  <2> QED
    <3> DEFINE loud == FALSE
    <3>1. q = Load(r, t, s, loud) /\ loud \in BOOLEAN
      OBVIOUS
    <3> HIDE DEF q, loud
    <3> QED
      BY <2>1, <2>2, <2>3, <2>4, <2>5, <3>1, LoadIs
<1> HIDE DEF q
<1>6. Others(p, r, t) /\ Others(r, q, t)
  BY <1>2, <1>5 DEF Others, Onward
<1>7. Onward(p, q, t)
  BY <1>5, <1>6, OthersTrans DEF Onward
<1> QED
  BY <1>1, <1>3, <1>5, <1>7

LEMMA PlayPut ==
  ASSUME NEW p \in PageType, NEW t \in Tasks, NEW f \in [0..Calls -> CallType]
  PROVE  [p EXCEPT !.newest = t, !.blocked = FALSE, !.calls = f] \in PageType
<1>1. t \in Tasks \cup {Nobody} /\ FALSE \in BOOLEAN
  OBVIOUS
<1> QED
  BY <1>1, Zenon DEF PageType

\* play() from its start to its first await.
LEMMA PlayIs ==
  ASSUME NEW p \in PageType, PageHolds(p), NEW t \in Tasks, NEW call \in CallType,
         call.pc = "idle", call.answer = "none", call.song \in Songs, call.auto,
         FreeRequests(p) # {},
         Owned(p) \/ call.given \/ ~HasLoaded(p, call.song)
  PROVE  LET q == Play(p, t, call)
         IN  /\ Onward(p, q, t) /\ Owned(q)
             /\ At(q, t) \in {"resume", "resolve"} /\ Answer(q, t) \in {"none", "ok", "denied"}
             /\ q.newest = t /\ q.retry = NoSong /\ q.index = p.index
             /\ q.loader \in {p.loader, t}
<1> DEFINE a == [p EXCEPT !.retry = NoSong]
           f == [p.calls EXCEPT ![t] = call]
           q == [a EXCEPT !.newest = t, !.blocked = FALSE, !.calls = f]
<1>0. t \in 0..Calls /\ t # Recovery /\ t # Nobody
  BY PlaybackAssumption DEF PlaybackAssumption, Tasks, Recovery, Nobody
<1>1. a \in PageType
  BY ShownPut
<1>2. /\ f \in [0..Calls -> CallType] /\ f[t] = call
      /\ \A u \in 0..Calls : u # t => f[u] = p.calls[u]
  BY <1>0 DEF PageType
<1>3. q = [CancelRecovery(p) EXCEPT !.newest = t, !.blocked = FALSE, !.calls[t] = call]
  <2>1. a.calls = p.calls
    BY DEF PageType
  <2>2. [a EXCEPT !.newest = t, !.blocked = FALSE, !.calls[t] = call]
        = [a EXCEPT !.newest = t, !.blocked = FALSE, !.calls = [a.calls EXCEPT ![t] = call]]
    BY <1>1 DEF PageType
  <2> QED
    BY <2>1, <2>2 DEF CancelRecovery
<1>4. a.calls = p.calls /\ Cache(a) = Cache(p) /\ Element(a) = Element(p) /\ Player(a) = Player(p)
      /\ a.index = p.index /\ a.retry = NoSong
  BY DEF PageType, Cache, Element, Player
<1> HIDE DEF a, f
<1>5. q \in PageType
  BY <1>1, <1>2, PlayPut
<1>6. /\ q.calls = f /\ Cache(q) = Cache(a) /\ Element(q) = Element(a) /\ Player(q) = Player(a)
      /\ q.index = a.index /\ q.retry = a.retry /\ q.newest = t
  BY <1>1 DEF PageType, Cache, Element, Player
<1> HIDE DEF q
<1>7. /\ Cache(q) = Cache(p) /\ Element(q) = Element(p) /\ Player(q) = Player(p)
      /\ q.index = p.index /\ q.retry = NoSong
      /\ q.calls[t] = call /\ \A u \in 0..Calls : u # t => q.calls[u] = p.calls[u]
  BY <1>2, <1>4, <1>6
<1>8. At(q, t) = "idle" /\ Answer(q, t) = "none" /\ SongOf(q, t) = call.song
  BY <1>7 DEF At, Answer, SongOf
<1>9. \A u \in 0..Calls : u # t => /\ At(q, u) = At(p, u) /\ SongOf(q, u) = SongOf(p, u)
                                   /\ Answer(q, u) = Answer(p, u)
  BY <1>7 DEF At, Answer, SongOf
<1>10. PageHolds(q)
  <2>1. CallsHold(q)
    <3> SUFFICES ASSUME NEW u \in 0..Calls PROVE CallHolds(q, u)
      BY DEF CallsHold
    <3>1. CASE u = t
      BY <1>0, <1>8, <3>1 DEF CallHolds
    <3>2. CASE u # t
      BY <1>7, <1>9, <3>2 DEF PageHolds, CallsHold, CallHolds
    <3> QED
      BY <3>1, <3>2
  <2>2. CacheHolds(q)
    BY <1>7, <1>8, <1>9 DEF PageHolds, CacheHolds, Cache
  <2>3. ElementHolds(q)
    <3>1. /\ q.ready = p.ready /\ q.broken = p.broken /\ q.held = p.held /\ q.src = p.src
          /\ q.loaded = p.loaded /\ q.finished = p.finished /\ q.permitted = p.permitted
          /\ q.paused = p.paused
      BY <1>7 DEF Element, Player
    <3> QED
      BY <1>8, <1>9, <3>1 DEF PageHolds, ElementHolds, Starting
  <2>4. SpareHolds(q)
    BY <1>6, <1>8 DEF SpareHolds
  <2> QED
    BY <1>5, <2>1, <2>2, <2>3, <2>4 DEF PageHolds
<1>11. Others(p, q, t)
  BY <1>7, <1>9 DEF Others, Leaves
<1>12. FreeRequests(q) # {}
  BY <1>7 DEF FreeRequests, Cache
<1>13. Play(p, t, call) = IF ~call.given /\ HasLoaded(q, call.song) THEN Start(q, t, "resume")
                          ELSE Rung(q, t, 1)
  BY <1>3 DEF Play
<1>14. CASE ~call.given /\ HasLoaded(q, call.song)
  <2>1. Owned(q)
    <3>0. HasLoaded(p, call.song)
      BY <1>7, <1>14 DEF Player, Element, HasLoaded, Usable
    <3>1. q.loader = p.loader /\ q.loaded = p.loaded /\ q.current = p.current
      BY <1>7 DEF Player
    <3> QED
      BY <1>0, <1>5, <1>7, <1>8, <1>11, <1>14, <3>0, <3>1, OwnedKeeps
  <2>2. ~q.broken /\ q.src # NoSong
    BY <1>10, <1>14 DEF HasLoaded, Usable, PageHolds, ElementHolds
  <2> DEFINE r == Start(q, t, "resume")
  <2>3. /\ r \in PageType /\ PageHolds(r) /\ Others(q, r, t)
        /\ At(r, t) = "resume" /\ SongOf(r, t) = SongOf(q, t)
        /\ Answer(r, t) \in {"none", "denied"}
        /\ Sweeping(r) = Sweeping(q) /\ r.retry = q.retry
        /\ r.loaded = q.loaded /\ r.loader = q.loader /\ r.current = q.current
    BY <1>0, <1>5, <1>7, <1>8, <1>10, <1>14, <2>2, StartIs DEF Starting
  <2> HIDE DEF r
  <2>5. Owned(r)
    BY <1>0, <1>5, <2>1, <2>3, OwnedKeeps
  <2>6. Onward(p, r, t)
    BY <1>11, <2>3, OthersTrans DEF Onward
  <2>7. r.newest = t /\ r.index = p.index /\ r.loader = p.loader
    BY <1>6, <1>7, <2>3 DEF Sweeping, Player
  <2> QED
    BY <1>7, <1>13, <1>14, <2>3, <2>5, <2>6, <2>7 DEF r
<1>15. CASE ~(~call.given /\ HasLoaded(q, call.song))
  <2> DEFINE r == Rung(q, t, 1)
  <2>1. /\ Onward(q, r, t) /\ Owned(r)
        /\ At(r, t) = "resolve" /\ Answer(r, t) \in {"ok", "none"}
        /\ r.loader = t /\ Sweeping(r) = Sweeping(q) /\ r.retry = q.retry
    BY <1>5, <1>6, <1>8, <1>10, <1>12, RungIs
  <2> HIDE DEF r
  <2>2. Onward(p, r, t)
    BY <1>11, <2>1, OthersTrans DEF Onward
  <2>3. r.newest = t /\ r.index = p.index
    BY <1>6, <1>7, <2>1 DEF Sweeping
  <2> QED
    BY <1>7, <1>13, <1>15, <2>1, <2>2, <2>3 DEF r
<1> QED
  BY <1>14, <1>15

LEMMA LeastNat ==
  ASSUME NEW T \in SUBSET Nat, T # {}
  PROVE  \E x \in T : \A y \in T : x <= y
<1>1. PICK x \in T : \A y \in T : ~(<<y, x>> \in OpToRel(<, Nat))
  BY NatLessThanWellFounded, WFMin
<1>2. \A y \in T : ~(y < x)
  BY <1>1 DEF OpToRel
<1> QED
  BY <1>2

\* The sweep goes on to a track it has not given up on.
LEMMA NextIs ==
  ASSUME NEW from \in Songs, NEW tried, Untried(from, tried) # {}
  PROVE  NextUntried(from, tried) \in Untried(from, tried)
<1> DEFINE d(s) == (s - from) % (Last + 1)
           U == Untried(from, tried)
           D == {d(s) : s \in U}
<1>1. \A s \in U : d(s) \in Nat
  <2>1. Last + 1 \in Nat \ {0} /\ from \in Int
    BY PlaybackAssumption DEF PlaybackAssumption, Songs
  <2> QED
    BY <2>1 DEF Untried, Songs
<1> HIDE DEF d
<1>2. D \in SUBSET Nat /\ D # {}
  BY <1>1
<1>3. PICK x \in D : \A y \in D : x <= y
  BY <1>2, LeastNat
<1>4. \E s \in U : \A u \in U : d(s) <= d(u)
  BY <1>3
<1>5. NextUntried(from, tried) = CHOOSE s \in U : \A u \in U : d(s) <= d(u)
  BY DEF NextUntried, d
<1> QED
  BY <1>4, <1>5

LEMMA PlayAtIndexPut ==
  ASSUME NEW p \in PageType, NEW s \in Songs
  PROVE  [p EXCEPT !.index = s, !.current = s] \in PageType
<1>1. s \in Songs \cup {NoSong}
  OBVIOUS
<1> QED
  BY <1>1, Zenon DEF PageType

\* playAtIndex: the track is named before it is played.
LEMMA PlayAtIndexIs ==
  ASSUME NEW p \in PageType, PageHolds(p), NEW t \in Tasks, NEW s \in Songs,
         NEW tried \in SUBSET Songs, FreeRequests(p) # {}
  PROVE  LET q == PlayAtIndex(p, t, s, tried)
         IN  /\ Onward(p, q, t) /\ Owned(q)
             /\ At(q, t) \in {"resume", "resolve"} /\ Answer(q, t) \in {"none", "ok", "denied"}
             /\ q.newest = t /\ q.retry = NoSong /\ q.index = s
<1> DEFINE r == [p EXCEPT !.index = s, !.current = s]
           given == HasLoaded(p, s)
           call == [IdleCall EXCEPT !.song = s, !.given = given, !.auto = TRUE,
                                    !.tried = tried, !.sweeps = TRUE]
           q == Play(r, t, call)
<1>1. PlayAtIndex(p, t, s, tried) = q
  BY DEF PlayAtIndex
<1>2. r \in PageType
  BY PlayAtIndexPut
<1>3. /\ r.calls = p.calls /\ Cache(r) = Cache(p) /\ Element(r) = Element(p)
      /\ r.newest = p.newest /\ r.loaded = p.loaded /\ r.finished = p.finished /\ r.index = s
  BY DEF PageType, Cache, Element
<1> HIDE DEF r
<1>4. PageHolds(r)
  <2>1. ElementHolds(r)
    BY <1>3 DEF PageHolds, ElementHolds, Element, At, Answer
  <2> QED
    BY <1>2, <1>3, <2>1, CallsKeep DEF PageHolds
<1>5. given \in BOOLEAN /\ (given <=> HasLoaded(r, s))
  BY <1>3 DEF HasLoaded, Usable, Element
<1> HIDE DEF given
<1>6. call \in CallType
  <2>1. IdleCall \in CallType /\ s \in Songs \cup {NoSong} /\ TRUE \in BOOLEAN
    BY IdleType
  <2> QED
    BY <1>5, <2>1, Zenon DEF CallType
<1>7. call.pc = "idle" /\ call.answer = "none" /\ call.song = s /\ call.auto /\ call.given = given
  BY DEF IdleCall
<1> HIDE DEF call
<1>8. FreeRequests(r) # {} /\ Undisturbed(p, r)
  BY <1>3, UndisturbedSame DEF FreeRequests, Cache
<1>9. /\ Onward(r, q, t) /\ Owned(q)
      /\ At(q, t) \in {"resume", "resolve"} /\ Answer(q, t) \in {"none", "ok", "denied"}
      /\ q.newest = t /\ q.retry = NoSong /\ q.index = r.index
  BY <1>2, <1>4, <1>5, <1>6, <1>7, <1>8, PlayIs
<1> HIDE DEF q
<1> QED
  BY <1>1, <1>3, <1>8, <1>9, OnwardAfter

LEMMA PlayBareIs ==
  ASSUME NEW p \in PageType, PageHolds(p), Owned(p), NEW t \in Tasks, NEW s \in Songs,
         NEW given \in BOOLEAN, FreeRequests(p) # {}
  PROVE  LET q == PlayBare(p, t, s, given)
         IN  /\ Onward(p, q, t) /\ Owned(q)
             /\ At(q, t) \in {"resume", "resolve"} /\ Answer(q, t) \in {"none", "ok", "denied"}
             /\ q.newest = t /\ q.retry = NoSong /\ q.index = p.index
<1> DEFINE call == [IdleCall EXCEPT !.song = s, !.given = given, !.auto = TRUE]
           q == Play(p, t, call)
<1>1. PlayBare(p, t, s, given) = q
  BY DEF PlayBare
<1>2. call \in CallType
  <2>1. IdleCall \in CallType /\ s \in Songs \cup {NoSong} /\ TRUE \in BOOLEAN
    BY IdleType
  <2> QED
    BY <2>1, Zenon DEF CallType
<1>3. call.pc = "idle" /\ call.answer = "none" /\ call.song = s /\ call.auto /\ call.given = given
  BY DEF IdleCall
<1> HIDE DEF call
<1>4. /\ Onward(p, q, t) /\ Owned(q)
      /\ At(q, t) \in {"resume", "resolve"} /\ Answer(q, t) \in {"none", "ok", "denied"}
      /\ q.newest = t /\ q.retry = NoSong /\ q.index = p.index
  BY <1>2, <1>3, PlayIs
<1> QED
  BY <1>1, <1>4

-----------------------------------------------------------------------------
(* What the step of one call may do to the sweep, the owner and the recovery. *)

Drives(p, q, t) ==
  /\ Onward(p, q, t) /\ Owned(q)
  /\ q.index # p.index => q.newest = t /\ q.index \notin p.calls[t].tried
  /\ q.loader = t /\ p.loader # t => q.newest = t \/ At(p, t) = "resume"
  /\ p.retry # NoSong /\ q.retry = NoSong
     => q.loader = Nobody \/ (q.newest = t /\ q.calls[t] # p.calls[t])

LEMMA DrivesAfter ==
  ASSUME NEW p, NEW r, NEW q, NEW t \in 0..Calls, Undisturbed(p, r), Answer(p, t) # "none",
         r.index = p.index, r.loader = p.loader, r.retry = p.retry, Drives(r, q, t)
  PROVE  Drives(p, q, t)
<1>1. Onward(p, q, t)
  BY OnwardAfter DEF Drives
<1>2. r.calls[t] = p.calls[t] /\ At(r, t) = At(p, t)
  BY DEF Undisturbed, Leaves
<1> QED
  BY <1>1, <1>2 DEF Drives

LEMMA FinishDrives ==
  ASSUME NEW p \in PageType, PageHolds(p), Owned(p), NEW t \in 0..Calls
  PROVE  Drives(p, Finish(p, t), t) /\ Finish(p, t).retry = p.retry
<1> DEFINE q == Finish(p, t)
<1>1. /\ q \in PageType /\ PageHolds(q) /\ Rest(q) = Rest(p)
      /\ q.calls[t] = IdleCall /\ Others(p, q, t)
  BY FinishIs
<1> HIDE DEF q
<1>2. /\ q.loader = p.loader /\ q.current = p.current /\ q.loaded = p.loaded
      /\ q.retry = p.retry /\ q.index = p.index
  BY <1>1 DEF Rest, Player, Sweeping, Shown
<1>3. At(q, t) = "idle"
  BY <1>1 DEF At, IdleCall
<1>4. Owned(q)
  BY <1>1, <1>2, <1>3, OwnedKeeps
<1>5. Drives(p, q, t) /\ q.retry = p.retry
  BY <1>1, <1>2, <1>4 DEF Drives, Onward
<1> QED
  BY <1>5 DEF q

LEMMA FailedPut ==
  ASSUME NEW p \in PageType, NEW f \in SUBSET Songs
  PROVE  [p EXCEPT !.failed = f] \in PageType
BY Zenon DEF PageType

LEMMA BlockedPut ==
  ASSUME NEW p \in PageType, NEW b \in BOOLEAN
  PROVE  [p EXCEPT !.blocked = b] \in PageType
BY Zenon DEF PageType

LEMMA BlockPut ==
  ASSUME NEW p \in PageType, NEW f \in SUBSET Songs, NEW s \in Songs \cup {NoSong}, NEW b \in BOOLEAN
  PROVE  [p EXCEPT !.blocked = b, !.failed = f, !.armed = s] \in PageType
BY Zenon DEF PageType

\* Marks made beside the calls, the element and its owner.
Beside(p, q) ==
  /\ q.calls = p.calls /\ Cache(q) = Cache(p) /\ Element(q) = Element(p) /\ Player(q) = Player(p)
  /\ q.newest = p.newest /\ q.index = p.index /\ q.retry = p.retry

LEMMA BesideIs ==
  ASSUME NEW p \in PageType, PageHolds(p), NEW q \in PageType, Beside(p, q)
  PROVE  /\ PageHolds(q) /\ Undisturbed(p, q) /\ (Owned(p) => Owned(q))
         /\ q.loader = p.loader /\ q.current = p.current /\ q.loaded = p.loaded
         /\ FreeRequests(q) = FreeRequests(p)
<1>1. PageHolds(q) /\ Undisturbed(p, q)
  BY ShowsIs DEF Beside
<1>2. /\ q.loader = p.loader /\ q.current = p.current /\ q.loaded = p.loaded
      /\ FreeRequests(q) = FreeRequests(p)
  BY DEF Beside, Player, Cache, FreeRequests
<1>3. Owned(p) => Owned(q)
  BY <1>1, <1>2, OwnedStays DEF Beside
<1> QED
  BY <1>1, <1>2, <1>3

\* A play() that has begun to sound, and what playAtIndex warms up after it.
LEMMA SucceedIs ==
  ASSUME NEW p \in PageType, PageHolds(p), Owned(p), NEW t \in 0..Calls, Left(p, 4)
  PROVE  Drives(p, Succeed(p, t), t)
<1> DEFINE s == SongOf(p, t)
           f == p.failed \ {s}
           a == [p EXCEPT !.failed = f]
           b == Finish(a, t)
           c == Preload(b, s)
<1>1. Succeed(p, t) \in {b, c}
  BY DEF Succeed
<1>2. a \in PageType
  <2>1. f \in SUBSET Songs
    BY DEF PageType
  <2> QED
    BY <2>1, FailedPut
<1>3. Beside(p, a)
  BY DEF PageType, Beside, Cache, Element, Player
<1> HIDE DEF a
<1>4. /\ PageHolds(a) /\ Undisturbed(p, a) /\ Owned(a)
      /\ a.loader = p.loader /\ a.current = p.current /\ a.loaded = p.loaded
      /\ FreeRequests(a) = FreeRequests(p)
  BY <1>2, <1>3, BesideIs
<1>5. /\ b \in PageType /\ PageHolds(b) /\ Rest(b) = Rest(a)
      /\ b.calls[t] = IdleCall /\ Others(a, b, t)
  BY <1>2, <1>4, FinishIs
<1> HIDE DEF b
<1>6. /\ b.loader = p.loader /\ b.current = p.current /\ b.loaded = p.loaded
      /\ b.retry = p.retry /\ b.index = p.index /\ b.newest = p.newest
  BY <1>3, <1>4, <1>5 DEF Rest, Player, Sweeping, Shown, Beside
<1>7. Left(b, 4)
  BY <1>4, <1>5 DEF Left, FreeRequests, Rest, Cache
<1>8. Others(p, b, t)
  <2>1. Onward(a, b, t)
    BY <1>5 DEF Onward
  <2> QED
    BY <1>4, <2>1, OnwardAfter DEF Onward
<1>9. At(b, t) = "idle"
  BY <1>5 DEF At, IdleCall
<1>10. Owned(b)
  BY <1>5, <1>6, <1>8, <1>9, OwnedKeeps
<1>11. Drives(p, b, t)
  BY <1>5, <1>6, <1>8, <1>10 DEF Drives, Onward
<1>12. /\ PageHolds(c) /\ c.calls = b.calls
       /\ Player(c) = Player(b) /\ Sweeping(c) = Sweeping(b) /\ Shown(c) = Shown(b)
  BY <1>5, <1>7, PreloadIs
<1> HIDE DEF c
<1>13. /\ c \in PageType /\ c.loader = b.loader /\ c.current = b.current /\ c.loaded = b.loaded
       /\ c.retry = b.retry /\ c.index = b.index
  BY <1>12 DEF PageHolds, Player, Sweeping, Shown
<1>14. Undisturbed(b, c)
  BY <1>12, UndisturbedSame
<1>15. Owned(c)
  BY <1>5, <1>10, <1>13, <1>14, OwnedStays
<1>16. Others(p, c, t)
  BY <1>8, <1>12 DEF Others, Leaves, At, SongOf, Answer
<1>17. Drives(p, c, t)
  BY <1>6, <1>12, <1>13, <1>15, <1>16 DEF Drives, Onward
<1> QED
  BY <1>1, <1>11, <1>17

LEMMA StopPut ==
  ASSUME NEW p \in PageType
  PROVE  [p EXCEPT !.held = NoSong, !.loader = Nobody, !.quiet = FALSE, !.finished = FALSE,
                   !.loaded = NoSong, !.current = NoSong,
                   !.playing = FALSE, !.loading = FALSE] \in PageType
BY ZenonT(60) DEF PageType

\* stopPlayer, unless a call is about to play through the element.
LEMMA StopPlayerIs ==
  ASSUME NEW p \in PageType, PageHolds(p),
         \A u \in 0..Calls : ~(At(p, u) = "buffer" /\ Answer(p, u) = "ok")
  PROVE  LET q == StopPlayer(p)
         IN  /\ q \in PageType /\ PageHolds(q) /\ Undisturbed(p, q) /\ Owned(q)
             /\ q.loader = Nobody /\ q.retry = NoSong /\ q.loaded = NoSong
             /\ Sweeping(q) = Sweeping(p) /\ Cache(q) = Cache(p)
<1> DEFINE a == CancelRecovery(p)
           b == IF a.loaded # NoSong THEN Silence(a) ELSE a
           c == Swap(b, NoSong)
           q == [c EXCEPT !.held = NoSong, !.loader = Nobody, !.quiet = FALSE, !.finished = FALSE,
                          !.loaded = NoSong, !.current = NoSong,
                          !.playing = FALSE, !.loading = FALSE]
<1>1. StopPlayer(p) = q
  BY DEF StopPlayer, DropBuffers
<1>2. a \in PageType
  BY ShownPut DEF CancelRecovery
<1>3. /\ a.calls = p.calls /\ Cache(a) = Cache(p) /\ Element(a) = Element(p)
      /\ Player(a) = Player(p) /\ Sweeping(a) = Sweeping(p) /\ a.newest = p.newest
      /\ a.retry = NoSong
  BY DEF PageType, CancelRecovery, Cache, Element, Player, Sweeping
<1> HIDE DEF a
<1>4. PageHolds(a)
  <2>1. ElementHolds(a)
    BY <1>3 DEF PageHolds, ElementHolds, Element, Player, At, Answer
  <2> QED
    BY <1>2, <1>3, <2>1, CallsKeep DEF PageHolds
<1>5. /\ PageHolds(b) /\ Undisturbed(a, b) /\ Cache(b) = Cache(a) /\ Sweeping(b) = Sweeping(a)
      /\ Shown(b) = Shown(a) /\ b.permitted = a.permitted
  <2>1. CASE a.loaded # NoSong
    <3> DEFINE e == Silence(a)
    <3>1. /\ PageHolds(e) /\ Aborted(a, e) /\ Cache(e) = Cache(a) /\ Sweeping(e) = Sweeping(a)
          /\ Shown(e) = Shown(a) /\ e.permitted = a.permitted
      BY <1>2, <1>4, SilenceIs
    <3>2. e \in PageType
      BY <3>1 DEF PageHolds
    <3> HIDE DEF e
    <3>3. Undisturbed(a, e)
      BY <1>2, <3>1, <3>2, UndisturbedAborted
    <3> QED
      BY <2>1, <3>1, <3>3 DEF e
  <2>2. CASE a.loaded = NoSong
    BY <1>4, <2>2, UndisturbedSame
  <2> QED
    BY <2>1, <2>2
<1> HIDE DEF b
<1>6. b \in PageType
  BY <1>5 DEF PageHolds
<1>7. /\ c \in PageType /\ Aborted(b, c)
      /\ Cache(c) = Cache(b) /\ Sweeping(c) = Sweeping(b) /\ Shown(c) = Shown(b)
      /\ c.src = NoSong /\ c.paused /\ ~c.ready /\ ~c.broken /\ c.permitted = b.permitted
  BY <1>6, HeldIs, SwapIs
<1> HIDE DEF c
<1>8. q \in PageType
  BY <1>7, StopPut
<1>9. /\ q.calls = c.calls /\ Cache(q) = Cache(c) /\ Sweeping(q) = Sweeping(c)
      /\ q.src = c.src /\ q.paused = c.paused /\ q.ready = c.ready /\ q.broken = c.broken
      /\ q.permitted = c.permitted
  BY <1>7 DEF PageType, Cache, Sweeping
<1>10. /\ q.held = NoSong /\ q.loader = Nobody /\ ~q.finished /\ q.loaded = NoSong
       /\ q.current = NoSong /\ q.retry = c.retry
  BY <1>7 DEF PageType
<1> HIDE DEF q
<1>11. Aborted(b, q)
  BY <1>7, <1>9 DEF Aborted
<1>12. Undisturbed(b, q) /\ Undisturbed(p, q)
  <2>1. Undisturbed(p, a) /\ Undisturbed(b, q)
    BY <1>3, <1>6, <1>8, <1>11, UndisturbedSame, UndisturbedAborted
  <2>2. Undisturbed(p, b)
    BY <1>5, <2>1, UndisturbedTrans
  <2> QED
    BY <2>1, <2>2, UndisturbedTrans
<1>13. ElementHolds(q)
  <2>1. \A u \in 0..Calls : At(q, u) \in Starting => Answer(q, u) # "none"
    BY <1>6, <1>8, <1>11, AbortedCalls
  <2>2. ASSUME NEW u \in 0..Calls PROVE ~(At(q, u) = "buffer" /\ Answer(q, u) = "ok")
    <3>1. Leaves(p, q, u) /\ ~(At(p, u) = "buffer" /\ Answer(p, u) = "ok")
      BY <1>12 DEF Undisturbed
    <3> QED
      BY <3>1 DEF Leaves
  <2> QED
    BY <1>7, <1>9, <1>10, <2>1, <2>2, HeldIs DEF ElementHolds
<1>14. PageHolds(q)
  <2>1. q.newest = b.newest /\ Cache(q) = Cache(b)
    BY <1>7, <1>9 DEF Sweeping
  <2> QED
    BY <1>5, <1>6, <1>8, <1>11, <1>13, <2>1, AbortedKeeps DEF PageHolds
<1>15. Owned(q)
  BY <1>10 DEF Owned, OwnerHolds, RecoveryHolds, Nobody, Recovery
<1>16. q.retry = NoSong
  BY <1>3, <1>5, <1>7, <1>10 DEF Shown
<1> QED
  BY <1>1, <1>3, <1>5, <1>7, <1>8, <1>9, <1>10, <1>12, <1>14, <1>15, <1>16

LEMMA TaskIs ==
  ASSUME NEW t \in Tasks
  PROVE  t \in 0..Calls /\ t # Recovery /\ t # Nobody
BY PlaybackAssumption DEF PlaybackAssumption, Tasks, Recovery, Nobody

\* playAtIndex once play() has failed: on to another track, unless the page waits
\* for a gesture, or the player stops.
LEMMA SweepIs ==
  ASSUME NEW p \in PageType, PageHolds(p), Owned(p), NEW t \in Tasks, At(p, t) \notin {"idle", "prime"},
         FreeRequests(p) # {},
         p.blocked \/ (Answer(p, t) = "failed" /\ \A u \in 0..Calls : ~Hot(p, u))
  PROVE  Drives(p, Sweep(p, t), t)
<1> DEFINE s == SongOf(p, t)
           tried == p.calls[t].tried \cup {s}
           q == Finish(p, t)
<1>0. t \in 0..Calls /\ t # Recovery
  BY TaskIs
<1>1. s \in Songs
  BY <1>0 DEF PageHolds, CallsHold, CallHolds
<1>2. tried \in SUBSET Songs
  BY <1>0, <1>1, CallField DEF CallType
<1>3. /\ q \in PageType /\ PageHolds(q) /\ Rest(q) = Rest(p)
      /\ q.calls[t] = IdleCall /\ Others(p, q, t)
  BY <1>0, FinishIs
<1>4. FreeRequests(q) # {} /\ q.index = p.index
  BY <1>3 DEF Rest, Cache, Sweeping, FreeRequests
<1>5. CASE ~p.calls[t].sweeps \/ p.index # s \/ p.blocked
  <2>1. Sweep(p, t) = q
    BY <1>5 DEF Sweep
  <2> QED
    BY <1>0, <2>1, FinishDrives
<1>6. CASE ~(~p.calls[t].sweeps \/ p.index # s \/ p.blocked) /\ Untried(s, tried) = {}
  <2> DEFINE r == StopPlayer(q)
  <2>1. Sweep(p, t) = r
    BY <1>6 DEF Sweep
  <2>2. \A u \in 0..Calls : ~(At(q, u) = "buffer" /\ Answer(q, u) = "ok")
    <3> SUFFICES ASSUME NEW u \in 0..Calls PROVE ~(At(q, u) = "buffer" /\ Answer(q, u) = "ok")
      OBVIOUS
    <3>1. CASE u = t
      BY <1>3, <3>1 DEF At, IdleCall
    <3>2. CASE u # t
      BY <1>3, <1>6, <3>2 DEF Others, Leaves, Hot
    <3> QED
      BY <3>1, <3>2
  <2>3. /\ r \in PageType /\ PageHolds(r) /\ Undisturbed(q, r) /\ Owned(r)
        /\ r.loader = Nobody /\ Sweeping(r) = Sweeping(q)
    BY <1>3, <2>2, StopPlayerIs
  <2> HIDE DEF r, q
  <2>4. Others(p, r, t)
    <3>1. Others(q, r, t)
      BY <2>3 DEF Undisturbed, Others
    <3> QED
      BY <1>3, <3>1, OthersTrans
  <2>5. r.index = p.index /\ r.loader # t
    BY <1>0, <1>4, <2>3 DEF Sweeping, Nobody
  <2> QED
    BY <2>1, <2>3, <2>4, <2>5 DEF Drives, Onward
<1>7. CASE ~(~p.calls[t].sweeps \/ p.index # s \/ p.blocked) /\ Untried(s, tried) # {}
  <2> DEFINE n == NextUntried(s, tried)
             r == PlayAtIndex(q, t, n, tried)
  <2>1. Sweep(p, t) = r
    BY <1>7 DEF Sweep
  <2>2. n \in Songs /\ n \notin p.calls[t].tried
    <3>1. n \in Untried(s, tried)
      BY <1>1, <1>7, NextIs
    <3> QED
      BY <3>1 DEF Untried
  <2> HIDE DEF n, q, tried
  <2>3. /\ Onward(q, r, t) /\ Owned(r) /\ Answer(r, t) \in {"none", "ok", "denied"}
        /\ r.newest = t /\ r.index = n
    BY <1>2, <1>3, <1>4, <2>2, PlayAtIndexIs
  <2> HIDE DEF r
  <2>4. Onward(p, r, t)
    BY <1>3, <2>3, OthersTrans DEF Onward
  <2>5. r.calls[t] # p.calls[t]
    BY <1>7, <2>3 DEF Answer
  <2> QED
    BY <2>1, <2>2, <2>3, <2>4, <2>5 DEF Drives
<1> QED
  BY <1>5, <1>6, <1>7

\* blocked(): the page waits for a gesture and nothing sweeps on.
LEMMA BlockIs ==
  ASSUME NEW p \in PageType, PageHolds(p), Owned(p), NEW t \in Tasks, At(p, t) \notin {"idle", "prime"},
         Answer(p, t) # "none", FreeRequests(p) # {}
  PROVE  Drives(p, Block(p, t), t)
<1> DEFINE s == SongOf(p, t)
           f == p.failed \ {s}
           armed == IF p.armed = NoSong THEN s ELSE p.armed
           a == [p EXCEPT !.blocked = TRUE, !.failed = f, !.armed = armed]
<1>0. t \in 0..Calls
  BY TaskIs
<1>1. Block(p, t) = Sweep(a, t)
  BY DEF Block
<1>2. f \in SUBSET Songs /\ armed \in Songs \cup {NoSong} /\ TRUE \in BOOLEAN
  BY <1>0 DEF PageType, PageHolds, CallsHold, CallHolds
<1> HIDE DEF f, armed
<1>3. a \in PageType
  BY <1>2, BlockPut
<1>4. Beside(p, a) /\ a.blocked
  BY DEF PageType, Beside, Cache, Element, Player
<1> HIDE DEF a
<1>5. /\ PageHolds(a) /\ Undisturbed(p, a) /\ Owned(a) /\ a.loader = p.loader
      /\ FreeRequests(a) # {}
  BY <1>3, <1>4, BesideIs
<1>6. At(a, t) \notin {"idle", "prime"}
  BY <1>0, <1>5 DEF Undisturbed, Leaves
<1>7. Drives(a, Sweep(a, t), t)
  BY <1>3, <1>4, <1>5, <1>6, SweepIs
<1> QED
  BY <1>0, <1>1, <1>4, <1>5, <1>7, DrivesAfter DEF Beside

LEMMA MarkStoppedIs ==
  ASSUME NEW p \in PageType
  PROVE  LET q == MarkStopped(p)
         IN  q \in PageType /\ Beside(p, q) /\ q.blocked = p.blocked
<1> DEFINE q == [p EXCEPT !.loading = FALSE, !.playing = FALSE]
<1>1. MarkStopped(p) \in {p, q}
  BY DEF MarkStopped
<1>2. q \in PageType
  <2>1. FALSE \in BOOLEAN /\ NoSong \in Songs \cup {NoSong}
    OBVIOUS
  <2> QED
    BY <2>1, Zenon DEF PageType
<1>3. Beside(p, q) /\ q.blocked = p.blocked
  BY DEF PageType, Beside, Cache, Element, Player
<1>4. Beside(p, p)
  BY DEF Beside
<1> QED
  BY <1>1, <1>2, <1>3, <1>4

\* The newest play() climbs on, over a page it has marked.
LEMMA NewestRung ==
  ASSUME NEW p \in PageType, NEW r \in PageType, PageHolds(r), NEW t \in Tasks, NEW k \in 0..3,
         Undisturbed(p, r), Answer(p, t) # "none", SongOf(p, t) \in Songs,
         r.newest = t, r.index = p.index, r.retry = p.retry, FreeRequests(r) # {}
  PROVE  Drives(p, Rung(r, t, k), t)
<1> DEFINE q == Rung(r, t, k)
<1>0. t \in 0..Calls
  BY TaskIs
<1>1. SongOf(r, t) \in Songs
  BY <1>0 DEF Undisturbed, Leaves
<1>2. /\ Onward(r, q, t) /\ Owned(q) /\ Sweeping(q) = Sweeping(r) /\ q.retry = r.retry
  BY <1>1, RungIs
<1> HIDE DEF q
<1>3. Onward(p, q, t)
  BY <1>2, OnwardAfter
<1>4. q.newest = t /\ q.index = p.index
  BY <1>2 DEF Sweeping
<1>5. Drives(p, q, t)
  BY <1>2, <1>3, <1>4 DEF Drives
<1> QED
  BY <1>5 DEF q

\* A failed rung: the next one, the sweep, or the gesture the page waits for.
LEMMA EscalateIs ==
  ASSUME NEW p \in PageType, PageHolds(p), Owned(p), NEW t \in Tasks, FreeRequests(p) # {},
         At(p, t) \in {"resolve", "element", "buffer", "start"}, p.calls[t].auto,
         Answer(p, t) = "failed" \/ (p.blocked /\ Answer(p, t) = "denied")
  PROVE  Drives(p, Escalate(p, t), t)
<1> DEFINE s == SongOf(p, t)
           k == p.calls[t].rung
<1>0. t \in 0..Calls /\ t # Recovery /\ t # Nobody
  BY TaskIs
<1>1. s \in Songs /\ k \in 0..3 /\ At(p, t) \notin {"idle", "prime"} /\ Answer(p, t) # "none"
  BY <1>0, CallField DEF PageHolds, CallsHold, CallHolds, CallType
<1>2. CASE Superseded(p, t)
  BY <1>0, <1>2, FinishDrives DEF Escalate
<1>3. CASE ~Superseded(p, t)
  <2>0. p.newest = t
    BY <1>3 DEF Superseded
  <2>1. p.blocked \/ (Answer(p, t) = "failed" /\ \A u \in 0..Calls : ~Hot(p, u))
    BY <1>0, <2>0 DEF PageHolds, SpareHolds
  <2>2. CASE Spent(p, t)
    <3> DEFINE f == p.failed \cup {s}
               a == [p EXCEPT !.failed = f]
    <3>1. Escalate(p, t) = Sweep(a, t)
      BY <1>3, <2>2 DEF Escalate
    <3>2. f \in SUBSET Songs
      BY <1>1 DEF PageType
    <3> HIDE DEF f
    <3>3. a \in PageType
      BY <3>2, FailedPut
    <3>4. Beside(p, a) /\ a.blocked = p.blocked
      BY DEF PageType, Beside, Cache, Element, Player
    <3> HIDE DEF a
    <3>5. /\ PageHolds(a) /\ Undisturbed(p, a) /\ Owned(a) /\ a.loader = p.loader
          /\ FreeRequests(a) # {}
      BY <3>3, <3>4, BesideIs
    <3>6. /\ At(a, t) \notin {"idle", "prime"} /\ Answer(a, t) = Answer(p, t)
          /\ \A u \in 0..Calls : Hot(a, u) = Hot(p, u)
      BY <1>1, <3>4 DEF Beside, At, Answer, Hot
    <3>7. Drives(a, Sweep(a, t), t)
      BY <2>1, <3>3, <3>4, <3>5, <3>6, SweepIs
    <3> QED
      BY <1>0, <1>1, <3>1, <3>4, <3>5, <3>7, DrivesAfter DEF Beside
  <2>3. CASE ~Spent(p, t) /\ p.blocked
    <3>1. Escalate(p, t) = Block(p, t)
      BY <1>3, <2>3 DEF Escalate
    <3> QED
      BY <1>1, <3>1, BlockIs
  <2>4. CASE ~Spent(p, t) /\ ~p.blocked /\ k = 2
    <3> DEFINE r == Remove(p, s)
    <3>1. Escalate(p, t) = Rung(r, t, 3)
      BY <1>3, <2>4 DEF Escalate
    <3>2. /\ PageHolds(r) /\ r.calls = p.calls /\ r.flight = p.flight
          /\ Sweeping(r) = Sweeping(p) /\ Shown(r) = Shown(p)
      BY <1>1, RemoveIs
    <3> HIDE DEF r
    <3>3. /\ r \in PageType /\ Undisturbed(p, r) /\ r.newest = t /\ r.index = p.index
          /\ r.retry = p.retry /\ FreeRequests(r) # {}
      BY <2>0, <3>2, UndisturbedSame DEF PageHolds, Sweeping, Shown, FreeRequests
    <3> QED
      BY <1>1, <3>1, <3>2, <3>3, NewestRung
  <2>5. CASE ~Spent(p, t) /\ ~p.blocked /\ k # 2 /\ HasLoaded(p, s)
    <3> DEFINE r == Start(p, t, "retry")
    <3>1. Escalate(p, t) = r
      BY <1>3, <2>5 DEF Escalate
    <3>2. ~p.broken /\ p.src # NoSong
      BY <1>1, <2>5 DEF HasLoaded, Usable, PageHolds, ElementHolds
    <3>3. /\ r \in PageType /\ PageHolds(r) /\ Others(p, r, t)
          /\ At(r, t) = "retry" /\ SongOf(r, t) = SongOf(p, t)
          /\ Sweeping(r) = Sweeping(p) /\ r.retry = p.retry
          /\ r.loaded = p.loaded /\ r.loader = p.loader /\ r.current = p.current
      BY <1>0, <1>1, <3>2, StartIs DEF Starting
    <3> HIDE DEF r
    <3>4. Owned(r)
      BY <1>0, <3>3, OwnedKeeps
    <3>5. r.index = p.index
      BY <3>3 DEF Sweeping
    <3> QED
      BY <3>1, <3>3, <3>4, <3>5 DEF Drives, Onward
  <2>6. CASE ~Spent(p, t) /\ ~p.blocked /\ k # 2 /\ ~HasLoaded(p, s)
    <3> DEFINE r == Release(p)
    <3>1. Escalate(p, t) = Rung(r, t, k + 1)
      BY <1>3, <2>6 DEF Escalate
    <3>2. /\ PageHolds(r) /\ Undisturbed(p, r) /\ Cache(r) = Cache(p)
          /\ Sweeping(r) = Sweeping(p) /\ Shown(r) = Shown(p)
      BY ReleaseIs
    <3> HIDE DEF r
    <3>3. /\ r \in PageType /\ r.newest = t /\ r.index = p.index
          /\ r.retry = p.retry /\ FreeRequests(r) # {}
      BY <2>0, <3>2 DEF PageHolds, Sweeping, Shown, FreeRequests, Cache
    <3>4. k + 1 \in 0..3
      BY <1>1, <2>6 DEF Spent
    <3> HIDE DEF k
    <3> QED
      BY <1>1, <3>1, <3>2, <3>3, <3>4, NewestRung
  <2> QED
    BY <2>2, <2>3, <2>4, <2>5, <2>6
<1> QED
  BY <1>2, <1>3

\* A reload is put off until later.
LEMMA ScheduleIs ==
  ASSUME NEW p \in PageType, PageHolds(p), Owned(p), NEW s \in Songs,
         p.loader = Recovery => s = p.current
  PROVE  LET q == ScheduleRecovery(p, s)
         IN  /\ q \in PageType /\ PageHolds(q) /\ Owned(q) /\ q.calls = p.calls
             /\ q.retry # NoSong /\ Cache(q) = Cache(p) /\ Element(q) = Element(p)
             /\ Player(q) = Player(p) /\ Sweeping(q) = Sweeping(p)
<1> DEFINE retry == IF p.retry = NoSong THEN s ELSE p.retry
           q == [p EXCEPT !.retry = retry]
<1>0. s # NoSong
  BY DEF Songs, NoSong
<1>1. ScheduleRecovery(p, s) = q
  BY DEF ScheduleRecovery
<1>2. /\ retry \in Songs \cup {NoSong} /\ retry # NoSong
      /\ retry = s \/ (p.retry # NoSong /\ retry = p.retry)
  BY <1>0 DEF PageType
<1> HIDE DEF retry
<1>3. q \in PageType
  <2>1. FALSE \in BOOLEAN
    OBVIOUS
  <2> QED
    BY <1>2, <2>1, Zenon DEF PageType
<1>4. /\ q.calls = p.calls /\ q.retry = retry /\ Cache(q) = Cache(p) /\ Element(q) = Element(p)
      /\ Player(q) = Player(p) /\ Sweeping(q) = Sweeping(p)
  BY DEF PageType, Cache, Element, Player, Sweeping
<1> HIDE DEF q
<1>5. PageHolds(q)
  <2>1. ElementHolds(q) /\ q.newest = p.newest
    BY <1>4 DEF PageHolds, ElementHolds, Element, Player, Sweeping, At, Answer
  <2> QED
    BY <1>3, <1>4, <2>1, CallsKeep DEF PageHolds
<1>6. Owned(q)
  BY <1>2, <1>4 DEF Owned, OwnerHolds, RecoveryHolds, Player, At, SongOf
<1> QED
  BY <1>1, <1>2, <1>3, <1>4, <1>5, <1>6

\* A load that ends: the reload of a dead stream will be tried again.
LEMMA GiveUpIs ==
  ASSUME NEW p \in PageType, PageHolds(p), Owned(p), NEW t \in 0..Calls, At(p, t) # "idle",
         Answer(p, t) # "none"
  PROVE  /\ Drives(p, GiveUp(p, t), t)
         /\ t = Recovery => GiveUp(p, t).retry # NoSong
<1>1. CASE t # Recovery
  BY <1>1, FinishDrives DEF GiveUp
<1>2. CASE t = Recovery
  <2> DEFINE s == SongOf(p, t)
             a == ScheduleRecovery(p, s)
             q == Finish(a, t)
  <2>1. GiveUp(p, t) = q
    BY <1>2 DEF GiveUp
  <2>2. s \in Songs
    BY <1>2 DEF PageHolds, CallsHold, CallHolds
  <2>3. p.loader = Recovery => s = p.current
    BY <1>2 DEF Owned, RecoveryHolds
  <2> HIDE DEF s
  <2>4. /\ a \in PageType /\ PageHolds(a) /\ Owned(a) /\ a.calls = p.calls
        /\ a.retry # NoSong /\ Player(a) = Player(p) /\ Sweeping(a) = Sweeping(p)
    BY <2>2, <2>3, ScheduleIs
  <2> HIDE DEF a
  <2>5. Drives(a, q, t) /\ q.retry = a.retry
    BY <2>4, FinishDrives
  <2>6. Undisturbed(p, a) /\ a.index = p.index /\ a.loader = p.loader
    BY <2>4, UndisturbedSame DEF Player, Sweeping
  <2> HIDE DEF q
  <2>7. Onward(p, q, t)
    BY <2>5, <2>6, OnwardAfter DEF Drives
  <2>8. Drives(p, q, t)
    BY <1>2, <2>4, <2>5, <2>6, <2>7 DEF Drives, At
  <2> QED
    BY <2>1, <2>4, <2>5, <2>8
<1> QED
  BY <1>1, <1>2

LEMMA FailLoadIs ==
  ASSUME NEW p \in PageType, PageHolds(p), Owned(p), NEW t \in 0..Calls, FreeRequests(p) # {},
         At(p, t) \in {"resolve", "element", "buffer"}, Answer(p, t) = "failed"
  PROVE  /\ Drives(p, FailLoad(MarkStopped(p), t), t)
         /\ t = Recovery => FailLoad(MarkStopped(p), t).retry # NoSong
<1> DEFINE a == MarkStopped(p)
           q == FailLoad(a, t)
<1>1. a \in PageType /\ Beside(p, a) /\ a.blocked = p.blocked
  BY MarkStoppedIs
<1> HIDE DEF a
<1>2. /\ PageHolds(a) /\ Undisturbed(p, a) /\ Owned(a) /\ a.loader = p.loader
      /\ FreeRequests(a) # {}
  BY <1>1, BesideIs
<1>3. At(a, t) = At(p, t) /\ Answer(a, t) = "failed" /\ a.calls = p.calls
  BY <1>1 DEF Beside, At, Answer
<1>4. CASE a.calls[t].auto
  <2>1. t \in Tasks /\ t # Recovery
    BY <1>2, <1>4 DEF PageHolds, CallsHold, CallHolds, Tasks, Recovery
  <2>2. q = Escalate(a, t)
    BY <1>4 DEF FailLoad
  <2>3. Drives(a, q, t)
    BY <1>1, <1>2, <1>3, <1>4, <2>1, <2>2, EscalateIs
  <2> HIDE DEF q
  <2>4. Drives(p, q, t)
    BY <1>1, <1>2, <2>3, DrivesAfter DEF Beside
  <2> QED
    BY <2>1, <2>4 DEF q, a
<1>5. CASE ~a.calls[t].auto
  <2>1. q = GiveUp(a, t)
    BY <1>5 DEF FailLoad
  <2>2. Drives(a, q, t) /\ (t = Recovery => q.retry # NoSong)
    BY <1>1, <1>2, <1>3, <2>1, GiveUpIs
  <2> HIDE DEF q
  <2>3. Drives(p, q, t)
    BY <1>1, <1>2, <2>2, DrivesAfter DEF Beside
  <2> QED
    BY <2>2, <2>3 DEF q, a
<1> QED
  BY <1>4, <1>5

\* A load that waits for enough of the stream to play.
LEMMA BufferIs ==
  ASSUME NEW p \in PageType, PageHolds(p), NEW t \in 0..Calls, SongOf(p, t) \in Songs,
         ~p.calls[t].auto \/ p.calls[t].given, t = Recovery => ~p.calls[t].auto,
         p.src # NoSong, ~p.broken, Alone(p, t)
  PROVE  LET q == Await(p, t, "buffer", IF p.ready THEN "ok" ELSE "none")
         IN  /\ q \in PageType /\ PageHolds(q) /\ Rest(q) = Rest(p) /\ Others(p, q, t)
             /\ At(q, t) = "buffer" /\ SongOf(q, t) = SongOf(p, t)
<1> DEFINE ready == IF p.ready THEN "ok" ELSE "none"
           c == [p.calls[t] EXCEPT !.pc = "buffer", !.answer = ready, !.wait = NoRequest]
           q == [p EXCEPT !.calls[t] = c]
<1>1. Await(p, t, "buffer", ready) = q
  BY DEF Await
<1>0. p.calls[t] \in CallType
  BY CallField
<1>2. /\ ready \in Answers /\ "buffer" \in Pcs
      /\ ready \in {"none", "ok"} /\ (ready = "none" => ~p.ready)
  BY DEF Answers, Pcs, Laddered
<1> HIDE DEF ready
<1>3. c \in CallType
  BY <1>0, <1>2, NoWait, GoesOn
<1>4. /\ c.pc = "buffer" /\ c.answer = ready /\ c.song = SongOf(p, t)
      /\ c.auto = p.calls[t].auto /\ c.given = p.calls[t].given
  BY <1>0, <1>3 DEF CallType, SongOf
<1> HIDE DEF c
<1>5. "buffer" \notin Starting
  BY DEF Starting
<1>6. Fits(p, t, c)
  BY <1>2, <1>3, <1>4, <1>5 DEF Fits, Alone
<1>7. /\ q \in PageType /\ PageHolds(q) /\ Rest(q) = Rest(p)
      /\ q.calls[t] = c /\ Others(p, q, t)
  BY <1>6, PutHolds
<1> HIDE DEF q
<1>8. At(q, t) = "buffer" /\ SongOf(q, t) = SongOf(p, t)
  BY <1>4, <1>7 DEF At, SongOf
<1> QED
  BY <1>1, <1>7, <1>8 DEF ready

\* The load that owns the element attaches it and waits, or starts it at once.
LEMMA AttachIs ==
  ASSUME NEW p \in PageType, PageHolds(p), Owned(p), NEW t \in 0..Calls, At(p, t) = "element",
         Answer(p, t) = "ok", p.loader = t, p.src # NoSong, ~p.broken
  PROVE  LET q == Attach(p, t)
         IN  Drives(p, q, t) /\ q.retry = p.retry /\ At(q, t) # "idle"
<1> DEFINE s == SongOf(p, t)
           a == [p EXCEPT !.loaded = s]
           b == [a EXCEPT !.playing = FALSE]
           q == Attach(p, t)
<1>0. t # Nobody
  BY DEF Nobody
<1>1. s \in Songs /\ s = p.current
  BY <1>0 DEF PageHolds, CallsHold, CallHolds, Owned, OwnerHolds
<1>2. a \in PageType
  BY <1>1, LoadPut
<1>3. /\ a.calls = p.calls /\ Cache(a) = Cache(p) /\ Element(a) = Element(p)
      /\ Sweeping(a) = Sweeping(p) /\ a.retry = p.retry /\ a.newest = p.newest /\ a.index = p.index
      /\ a.loaded = s /\ a.loader = t /\ a.current = p.current
  BY DEF PageType, Cache, Element, Sweeping
<1>4. a.src # NoSong /\ ~a.broken /\ a.ready = p.ready
  BY <1>3 DEF Element
<1> HIDE DEF a
<1>5. PageHolds(a)
  <2>1. ElementHolds(a)
    <3>1. a.finished \in BOOLEAN /\ (~a.permitted => ~a.finished)
      <4>1. a.finished = p.finished
        BY DEF PageType, a
      <4> QED
        BY <1>3, <4>1 DEF Element, PageHolds, ElementHolds, PageType
    <3> QED
      BY <1>3, <1>4, <3>1 DEF PageHolds, ElementHolds, Element, At, Answer
  <2> QED
    BY <1>2, <1>3, <2>1, CallsKeep DEF PageHolds
<1>6. b \in PageType /\ Beside(a, b)
  <2>2. b \in PageType
    BY <1>2, ShownPut
  <2> QED
    BY <1>2, <2>2 DEF PageType, Beside, Cache, Element, Player
<1> HIDE DEF b
<1>7. PageHolds(b) /\ b.loader = t /\ b.current = p.current /\ b.loaded = s
  BY <1>2, <1>3, <1>5, <1>6, BesideIs
<1>8. ASSUME NEW r \in PageType, PageHolds(r), NEW x \in PageType, PageHolds(x), Others(r, x, t),
             r.calls = p.calls, At(x, t) \in {"buffer", "start"}, SongOf(x, t) = s,
             x.loader = t, x.current = p.current, x.loaded = s, x.retry = p.retry, x.index = p.index
      PROVE  Drives(p, x, t) /\ x.retry = p.retry /\ At(x, t) # "idle"
  <2>1. Others(p, x, t)
    BY <1>8 DEF Others, Leaves, At, SongOf, Answer
  <2>2. At(p, Recovery) # "idle" => t # Recovery \/ SongOf(x, Recovery) = p.current
    BY <1>1, <1>8
  <2>3. Owned(x)
    BY <1>0, <1>1, <1>8 DEF Owned, OwnerHolds, RecoveryHolds, Songs, NoSong
  <2> QED
    BY <1>8, <2>1, <2>3 DEF Drives, Onward
<1>9. CASE ~p.calls[t].auto \/ p.calls[t].given
  <2> DEFINE r == IF ~p.calls[t].auto /\ ~a.quiet THEN b ELSE a
             x == Await(r, t, "buffer", IF r.ready THEN "ok" ELSE "none")
  <2>1. /\ r \in PageType /\ PageHolds(r) /\ r.calls = p.calls /\ r.src # NoSong /\ ~r.broken
        /\ r.ready = p.ready /\ r.newest = p.newest /\ r.index = p.index /\ r.retry = p.retry
        /\ r.loader = t /\ r.current = p.current /\ r.loaded = s
    BY <1>2, <1>3, <1>4, <1>5, <1>6, <1>7 DEF Beside, Element
  <2>2. q = x
    <3>1. a = [p EXCEPT !.loaded = SongOf(p, t)] /\ b = [a EXCEPT !.playing = FALSE]
      BY DEF a, b
    <3> QED
      BY <1>9, <2>1, <3>1 DEF Attach
  <2> HIDE DEF r
  <2>3. SongOf(r, t) = s /\ r.calls[t] = p.calls[t]
    BY <2>1 DEF SongOf
  <2>4. t = Recovery => ~p.calls[t].auto
    BY DEF PageHolds, CallsHold, CallHolds
  <2>5. Alone(r, t)
    <3>1. t # p.newest => Hot(p, t)
      BY <1>9 DEF Hot
    <3>2. Answer(r, r.newest) = Answer(p, p.newest)
      BY <2>1 DEF Answer
    <3> QED
      BY <2>1, <3>1, <3>2 DEF Alone, PageHolds, SpareHolds
  <2>6. /\ x \in PageType /\ PageHolds(x) /\ Rest(x) = Rest(r) /\ Others(r, x, t)
        /\ At(x, t) = "buffer" /\ SongOf(x, t) = SongOf(r, t)
    BY <1>1, <1>9, <2>1, <2>3, <2>4, <2>5, BufferIs
  <2> HIDE DEF x, q
  <2>7. /\ x.loader = t /\ x.current = p.current /\ x.loaded = s /\ x.retry = p.retry
        /\ x.index = p.index
    BY <2>1, <2>6 DEF Rest, Player, Sweeping, Shown
  <2>8. Drives(p, x, t) /\ x.retry = p.retry /\ At(x, t) # "idle"
    BY <1>8, <2>1, <2>3, <2>6, <2>7
  <2> QED
    BY <2>2, <2>8 DEF q
<1>10. CASE ~(~p.calls[t].auto \/ p.calls[t].given)
  <2> DEFINE x == Start(a, t, "start")
  <2>1. q = x
    BY <1>10 DEF Attach, a
  <2>2. t # Recovery
    BY <1>10 DEF PageHolds, CallsHold, CallHolds
  <2>3. SongOf(a, t) = s /\ a.calls[t] = p.calls[t]
    BY <1>3 DEF SongOf
  <2>4. /\ x \in PageType /\ PageHolds(x) /\ Others(a, x, t)
        /\ At(x, t) = "start" /\ SongOf(x, t) = SongOf(a, t)
        /\ Sweeping(x) = Sweeping(a) /\ x.retry = a.retry
        /\ x.loaded = a.loaded /\ x.loader = a.loader /\ x.current = a.current
    BY <1>1, <1>2, <1>4, <1>5, <1>10, <2>2, <2>3, StartIs DEF Starting
  <2> HIDE DEF x, q
  <2>5. x.index = p.index
    BY <1>3, <2>4 DEF Sweeping
  <2>6. Drives(p, x, t) /\ x.retry = p.retry /\ At(x, t) # "idle"
    BY <1>2, <1>3, <1>5, <1>8, <2>3, <2>4, <2>5
  <2> QED
    BY <2>1, <2>6 DEF q
<1> QED
  BY <1>9, <1>10

-----------------------------------------------------------------------------
(* The continuations, one by one. *)

\* What one continuation of call t makes of a page that holds.
Continues(p, q, t) ==
  /\ Drives(p, q, t)
  /\ t = Recovery /\ At(q, t) = "idle"
     => q.retry # NoSong \/ (At(p, t) = "revive" /\ Answer(p, t) = "ok")

Ready(p) == p \in PageType /\ PageHolds(p) /\ Owned(p) /\ Left(p, 4)

LEMMA ReadyFree ==
  ASSUME NEW p, Ready(p)
  PROVE  FreeRequests(p) # {}
<1>1. p \in PageType /\ 3 \in Nat /\ Left(p, 3 + 1)
  BY DEF Ready
<1> QED
  BY <1>1, LeftSome

LEMMA BesideContinues ==
  ASSUME NEW p \in PageType, PageHolds(p), NEW r \in PageType, Beside(p, r),
         NEW t \in 0..Calls, Answer(p, t) # "none", NEW q, Drives(r, q, t)
  PROVE  Drives(p, q, t)
BY BesideIs, DrivesAfter DEF Beside

LEMMA ResolveStep ==
  ASSUME Ready(page), NEW t \in 0..Calls, ResolveDone(t)
  PROVE  Continues(page, page', t)
<1> DEFINE s == SongOf(page, t)
<1>1. /\ page \in PageType /\ PageHolds(page) /\ Owned(page) /\ FreeRequests(page) # {}
      /\ At(page, t) = "resolve" /\ Answer(page, t) # "none"
  BY ReadyFree DEF Ready, ResolveDone, Answered
<1>2. Answer(page, t) \in {"ok", "failed"} /\ s \in Songs
  BY <1>1 DEF PageHolds, CallsHold, CallHolds
<1>3. CASE Answer(page, t) = "ok"
  <2> DEFINE q == Fetch(page, t, s, "element")
  <2>1. page' = q
    BY <1>3 DEF ResolveDone, Becomes
  <2>2. Alone(page, t)
    <3>1. t # page.newest /\ (~page.calls[t].auto \/ page.calls[t].given) => Hot(page, t)
      BY <1>1, <1>3 DEF Hot
    <3> QED
      BY <1>1, <3>1 DEF Alone, PageHolds, SpareHolds
  <2>3. t = Recovery => ~page.calls[t].auto
    BY <1>1 DEF PageHolds, CallsHold, CallHolds
  <2>4. /\ q \in PageType /\ PageHolds(q) /\ Others(page, q, t)
        /\ At(q, t) = "element" /\ SongOf(q, t) = s
        /\ Player(q) = Player(page) /\ Sweeping(q) = Sweeping(page) /\ Shown(q) = Shown(page)
    BY <1>1, <1>2, <2>2, <2>3, FetchIs
  <2> HIDE DEF q
  <2>5. /\ q.loader = page.loader /\ q.current = page.current /\ q.loaded = page.loaded
        /\ q.retry = page.retry /\ q.index = page.index
    BY <2>4 DEF Player, Sweeping, Shown
  <2>6. Owned(q)
    BY <1>1, <2>4, <2>5, OwnedKeeps
  <2>7. Continues(page, q, t)
    BY <2>4, <2>5, <2>6 DEF Continues, Drives, Onward
  <2> QED
    BY <2>1, <2>7
<1>4. CASE Answer(page, t) # "ok" /\ TokenLost(page, t)
  <2>1. page' = GiveUp(page, t)
    BY <1>4 DEF ResolveDone, Becomes
  <2>2. Drives(page, GiveUp(page, t), t) /\ (t = Recovery => GiveUp(page, t).retry # NoSong)
    BY <1>1, GiveUpIs
  <2> QED
    BY <2>1, <2>2 DEF Continues
<1>5. CASE Answer(page, t) # "ok" /\ ~TokenLost(page, t)
  <2>1. page' = FailLoad(MarkStopped(page), t)
    BY <1>5 DEF ResolveDone, Becomes
  <2>2. /\ Drives(page, FailLoad(MarkStopped(page), t), t)
        /\ t = Recovery => FailLoad(MarkStopped(page), t).retry # NoSong
    BY <1>1, <1>2, <1>5, FailLoadIs
  <2> QED
    BY <2>1, <2>2 DEF Continues
<1> QED
  BY <1>3, <1>4, <1>5

LEMMA ElementStep ==
  ASSUME Ready(page), NEW t \in 0..Calls, ElementDone(t)
  PROVE  Continues(page, page', t)
<1> DEFINE s == SongOf(page, t)
           r == GetElement(page, s)
<1>1. /\ page \in PageType /\ PageHolds(page) /\ Owned(page) /\ FreeRequests(page) # {}
      /\ At(page, t) = "element" /\ Answer(page, t) # "none"
  BY ReadyFree DEF Ready, ElementDone, Answered
<1>2. Answer(page, t) \in {"ok", "failed"} /\ s \in Songs
  BY <1>1 DEF PageHolds, CallsHold, CallHolds
<1>3. CASE Answer(page, t) = "ok"
  <2>1. /\ PageHolds(r) /\ Undisturbed(page, r)
        /\ Player(r) = Player(page) /\ Sweeping(r) = Sweeping(page) /\ Shown(r) = Shown(page)
        /\ r.src # NoSong /\ ~r.broken
    BY <1>1, <1>2, GetElementIs
  <2>2. page' = IF TokenLost(page, t) THEN GiveUp(r, t) ELSE Attach(r, t)
    BY <1>3 DEF ElementDone, Becomes
  <2> HIDE DEF r
  <2>3. /\ r \in PageType /\ r.loader = page.loader /\ r.current = page.current
        /\ r.loaded = page.loaded /\ r.retry = page.retry /\ r.index = page.index
    BY <2>1 DEF PageHolds, Player, Sweeping, Shown
  <2>4. Owned(r)
    BY <1>1, <2>1, <2>3, OwnedStays
  <2>5. At(r, t) = "element" /\ Answer(r, t) = "ok"
    BY <1>1, <1>3, <2>1 DEF Undisturbed, Leaves, Answer
  <2>6. CASE TokenLost(page, t)
    <3>1. Drives(r, GiveUp(r, t), t) /\ (t = Recovery => GiveUp(r, t).retry # NoSong)
      BY <2>1, <2>3, <2>4, <2>5, GiveUpIs
    <3>2. Drives(page, GiveUp(r, t), t)
      BY <1>1, <2>1, <2>3, <3>1, DrivesAfter
    <3> QED
      BY <2>2, <2>6, <3>1, <3>2 DEF Continues
  <2>7. CASE ~TokenLost(page, t)
    <3> DEFINE q == Attach(r, t)
    <3>1. r.loader = t
      BY <2>3, <2>7 DEF TokenLost
    <3>2. Drives(r, q, t) /\ At(q, t) # "idle"
      BY <2>1, <2>3, <2>4, <2>5, <3>1, AttachIs
    <3>3. Drives(page, q, t)
      BY <1>1, <2>1, <2>3, <3>2, DrivesAfter
    <3> QED
      BY <2>2, <2>7, <3>2, <3>3 DEF Continues
  <2> QED
    BY <2>6, <2>7
<1>4. CASE Answer(page, t) # "ok" /\ TokenLost(page, t)
  <2>1. page' = GiveUp(page, t)
    BY <1>4 DEF ElementDone, Becomes
  <2>2. Drives(page, GiveUp(page, t), t) /\ (t = Recovery => GiveUp(page, t).retry # NoSong)
    BY <1>1, GiveUpIs
  <2> QED
    BY <2>1, <2>2 DEF Continues
<1>5. CASE Answer(page, t) # "ok" /\ ~TokenLost(page, t)
  <2>1. page' = FailLoad(MarkStopped(page), t)
    BY <1>5 DEF ElementDone, Becomes
  <2>2. /\ Drives(page, FailLoad(MarkStopped(page), t), t)
        /\ t = Recovery => FailLoad(MarkStopped(page), t).retry # NoSong
    BY <1>1, <1>2, <1>5, FailLoadIs
  <2> QED
    BY <2>1, <2>2 DEF Continues
<1> QED
  BY <1>3, <1>4, <1>5

\* audio.play() of a load that has its buffer.
LEMMA StartDrives ==
  ASSUME NEW p \in PageType, PageHolds(p), Owned(p), NEW t \in 0..Calls, NEW pc \in Starting,
         At(p, t) \notin {"idle", "prime"},
         pc \in {"start", "retry", "resume"} => p.calls[t].auto,
         pc = "resume" => ~p.calls[t].given,
         t = Recovery => pc = "revive" /\ ~p.calls[t].auto,
         t # Recovery => pc # "revive",
         ~p.broken, p.src # NoSong
  PROVE  Drives(p, Start(p, t, pc), t) /\ At(Start(p, t, pc), t) # "idle"
<1> DEFINE q == Start(p, t, pc)
<1>1. SongOf(p, t) \in Songs
  BY DEF PageHolds, CallsHold, CallHolds
<1>2. /\ q \in PageType /\ PageHolds(q) /\ Others(p, q, t)
      /\ At(q, t) = pc /\ SongOf(q, t) = SongOf(p, t)
      /\ Sweeping(q) = Sweeping(p) /\ q.retry = p.retry
      /\ q.loaded = p.loaded /\ q.loader = p.loader /\ q.current = p.current
  BY <1>1, StartIs
<1> HIDE DEF q
<1>3. pc \notin {"resolve", "element", "idle"}
  BY DEF Starting
<1>4. Owned(q)
  BY <1>2, <1>3, OwnedKeeps
<1>5. q.index = p.index
  BY <1>2 DEF Sweeping
<1>6. Drives(p, q, t) /\ At(q, t) # "idle"
  BY <1>2, <1>3, <1>4, <1>5 DEF Drives, Onward
<1> QED
  BY <1>6 DEF q

LEMMA MarksIs ==
  ASSUME NEW p \in PageType
  PROVE  /\ [p EXCEPT !.playing = TRUE] \in PageType /\ Beside(p, [p EXCEPT !.playing = TRUE])
         /\ [p EXCEPT !.loading = FALSE] \in PageType /\ Beside(p, [p EXCEPT !.loading = FALSE])
         /\ [p EXCEPT !.blocked = TRUE] \in PageType /\ Beside(p, [p EXCEPT !.blocked = TRUE])
<1>1. /\ [p EXCEPT !.playing = TRUE] \in PageType
      /\ [p EXCEPT !.loading = FALSE] \in PageType
      /\ [p EXCEPT !.blocked = TRUE] \in PageType
  BY ShownPut, BlockedPut
<1>2. Beside(p, [p EXCEPT !.playing = TRUE])
  BY DEF PageType, Beside, Cache, Element, Player
<1>3. Beside(p, [p EXCEPT !.loading = FALSE])
  BY DEF PageType, Beside, Cache, Element, Player
<1>4. Beside(p, [p EXCEPT !.blocked = TRUE])
  BY DEF PageType, Beside, Cache, Element, Player
<1> QED
  BY <1>1, <1>2, <1>3, <1>4

LEMMA BufferStep ==
  ASSUME Ready(page), NEW t \in 0..Calls, BufferDone(t)
  PROVE  Continues(page, page', t)
<1>1. /\ page \in PageType /\ PageHolds(page) /\ Owned(page) /\ FreeRequests(page) # {}
      /\ At(page, t) = "buffer" /\ Answer(page, t) # "none"
  BY ReadyFree DEF Ready, BufferDone, Answered
<1>2. /\ Answer(page, t) \in {"ok", "failed"} /\ (t = Recovery => ~page.calls[t].auto)
      /\ Answer(page, t) = "ok" => ~page.broken /\ page.src # NoSong
  BY <1>1 DEF PageHolds, CallsHold, CallHolds, ElementHolds
<1>3. CASE Answer(page, t) # "ok"
  <2>1. page' = FailLoad(MarkStopped(page), t)
    BY <1>3 DEF BufferDone, Becomes
  <2>2. /\ Drives(page, FailLoad(MarkStopped(page), t), t)
        /\ t = Recovery => FailLoad(MarkStopped(page), t).retry # NoSong
    BY <1>1, <1>2, <1>3, FailLoadIs
  <2> QED
    BY <2>1, <2>2 DEF Continues
<1>4. CASE Answer(page, t) = "ok" /\ page.calls[t].auto
  <2>1. page' = Start(page, t, "start")
    BY <1>4 DEF BufferDone, Becomes
  <2>2. Drives(page, Start(page, t, "start"), t) /\ At(Start(page, t, "start"), t) # "idle"
    BY <1>1, <1>2, <1>4, StartDrives DEF Starting
  <2> QED
    BY <2>1, <2>2 DEF Continues
<1>5. CASE Answer(page, t) = "ok" /\ ~page.calls[t].auto /\ TokenLost(page, t)
  <2>1. page' = GiveUp(page, t)
    BY <1>5 DEF BufferDone, Becomes
  <2>2. Drives(page, GiveUp(page, t), t) /\ (t = Recovery => GiveUp(page, t).retry # NoSong)
    BY <1>1, GiveUpIs
  <2> QED
    BY <2>1, <2>2 DEF Continues
<1>6. CASE Answer(page, t) = "ok" /\ ~page.calls[t].auto /\ ~TokenLost(page, t)
  <2> DEFINE q == IF page.quiet THEN page ELSE [page EXCEPT !.loading = FALSE]
             x == IF t = Recovery THEN Start(q, t, "revive") ELSE Finish(q, t)
  <2>1. page' = x
    BY <1>6 DEF BufferDone, Becomes
  <2>2. q \in PageType /\ Beside(page, q)
    BY <1>1, MarksIs DEF Beside
  <2> HIDE DEF q
  <2>3. PageHolds(q) /\ Owned(q) /\ q.calls = page.calls /\ q.src # NoSong /\ ~q.broken
    BY <1>1, <1>2, <1>6, <2>2, BesideIs DEF Beside, Element
  <2>4. Drives(q, x, t) /\ (t = Recovery => At(x, t) # "idle")
    <3>1. CASE t = Recovery
      <4>1. At(q, t) \notin {"idle", "prime"}
        BY <1>1, <2>3 DEF At
      <4>2. Drives(q, Start(q, t, "revive"), t) /\ At(Start(q, t, "revive"), t) # "idle"
        BY <1>6, <2>2, <2>3, <3>1, <4>1, StartDrives DEF Starting
      <4> QED
        BY <3>1, <4>2
    <3>2. CASE t # Recovery
      BY <2>2, <2>3, <3>2, FinishDrives
    <3> QED
      BY <3>1, <3>2
  <2> HIDE DEF x
  <2>5. Drives(page, x, t)
    BY <1>1, <2>2, <2>4, BesideContinues
  <2> QED
    BY <2>1, <2>4, <2>5 DEF Continues
<1> QED
  BY <1>3, <1>4, <1>5, <1>6

LEMMA StartStep ==
  ASSUME Ready(page), NEW t \in 0..Calls, StartDone(t)
  PROVE  Continues(page, page', t)
<1> DEFINE answer == Answer(page, t)
           q == IF answer = "denied" THEN [page EXCEPT !.blocked = TRUE] ELSE page
<1>1. /\ page \in PageType /\ PageHolds(page) /\ Owned(page) /\ FreeRequests(page) # {}
      /\ At(page, t) = "start" /\ answer # "none" /\ Left(page, 4)
  BY ReadyFree DEF Ready, StartDone, Answered
<1>2. t \in Tasks /\ t # Recovery /\ page.calls[t].auto
  BY <1>1 DEF PageHolds, CallsHold, CallHolds, Tasks, Recovery
<1>3. CASE TokenLost(page, t)
  <2> DEFINE r == IF answer = "ok" THEN Pause(page) ELSE page
  <2>1. page' = Finish(r, t)
    BY <1>3 DEF StartDone, Becomes
  <2>2. /\ PageHolds(r) /\ Undisturbed(page, r) /\ Player(r) = Player(page)
        /\ Sweeping(r) = Sweeping(page) /\ r.retry = page.retry
    BY <1>1, PauseIs, UndisturbedSame
  <2> HIDE DEF r
  <2>3. /\ r \in PageType /\ r.loader = page.loader /\ r.current = page.current
        /\ r.loaded = page.loaded /\ r.index = page.index
    BY <2>2 DEF PageHolds, Player, Sweeping
  <2>4. Owned(r)
    BY <1>1, <2>2, <2>3, OwnedStays
  <2>5. Drives(r, Finish(r, t), t)
    BY <2>2, <2>3, <2>4, FinishDrives
  <2>6. Drives(page, Finish(r, t), t)
    BY <1>1, <2>2, <2>3, <2>5, DrivesAfter
  <2> QED
    BY <1>2, <2>1, <2>6 DEF Continues
<1>4. CASE ~TokenLost(page, t) /\ answer \in {"denied", "failed"}
  <2>1. page' = Escalate(MarkStopped(q), t)
    BY <1>4 DEF StartDone, Becomes
  <2>0. [page EXCEPT !.blocked = TRUE].blocked
    BY <1>1 DEF PageType
  <2>2. q \in PageType /\ Beside(page, q) /\ (answer = "denied" => q.blocked)
    BY <1>1, <2>0, MarksIs DEF Beside
  <2> HIDE DEF q
  <2> DEFINE r == MarkStopped(q)
  <2>3. r \in PageType /\ Beside(q, r) /\ r.blocked = q.blocked
    BY <2>2, MarkStoppedIs
  <2> HIDE DEF r
  <2>4. Beside(page, r)
    BY <2>2, <2>3 DEF Beside
  <2>5. PageHolds(r) /\ Owned(r) /\ FreeRequests(r) # {}
    BY <1>1, <2>3, <2>4, BesideIs
  <2>6. At(r, t) = "start" /\ r.calls[t].auto /\ Answer(r, t) = answer
    BY <1>1, <1>2, <2>4 DEF Beside, At, Answer
  <2>7. Drives(r, Escalate(r, t), t)
    BY <1>2, <1>4, <2>2, <2>3, <2>5, <2>6, EscalateIs
  <2>8. Drives(page, Escalate(r, t), t)
    BY <1>1, <2>3, <2>4, <2>7, BesideContinues
  <2> QED
    BY <1>2, <2>1, <2>8 DEF Continues, r
<1>5. CASE ~TokenLost(page, t) /\ answer \notin {"denied", "failed"} /\ Superseded(page, t)
  <2>1. page' = Finish(page, t)
    BY <1>5 DEF StartDone, Becomes
  <2> QED
    BY <1>1, <1>2, <2>1, FinishDrives DEF Continues
<1>6. CASE ~TokenLost(page, t) /\ answer \notin {"denied", "failed"} /\ ~Superseded(page, t)
  <2> DEFINE r == IF answer = "ok" THEN [page EXCEPT !.playing = TRUE] ELSE page
  <2>1. page' = Succeed(r, t)
    BY <1>6 DEF StartDone, Becomes
  <2>2. r \in PageType /\ Beside(page, r)
    BY <1>1, MarksIs DEF Beside
  <2> HIDE DEF r
  <2>3. PageHolds(r) /\ Owned(r) /\ Left(r, 4)
    BY <1>1, <2>2, BesideIs DEF Left
  <2>4. Drives(r, Succeed(r, t), t)
    BY <2>2, <2>3, SucceedIs
  <2>5. Drives(page, Succeed(r, t), t)
    BY <1>1, <2>2, <2>4, BesideContinues
  <2> QED
    BY <1>2, <2>1, <2>5 DEF Continues
<1> QED
  BY <1>3, <1>4, <1>5, <1>6

LEMMA RetryStep ==
  ASSUME Ready(page), NEW t \in 0..Calls, RetryDone(t)
  PROVE  Continues(page, page', t)
<1> DEFINE answer == Answer(page, t)
           q == IF answer = "denied" THEN [page EXCEPT !.blocked = TRUE] ELSE page
<1>1. /\ page \in PageType /\ PageHolds(page) /\ Owned(page) /\ FreeRequests(page) # {}
      /\ At(page, t) = "retry" /\ answer # "none" /\ Left(page, 4)
  BY ReadyFree DEF Ready, RetryDone, Answered
<1>2. t \in Tasks /\ t # Recovery /\ SongOf(page, t) \in Songs
  BY <1>1 DEF PageHolds, CallsHold, CallHolds, Tasks, Recovery
<1>3. CASE answer = "ok"
  <2> DEFINE r == [page EXCEPT !.playing = TRUE]
  <2>1. page' = Succeed(r, t)
    BY <1>3 DEF RetryDone, Becomes
  <2>2. r \in PageType /\ Beside(page, r)
    BY <1>1, MarksIs
  <2> HIDE DEF r
  <2>3. PageHolds(r) /\ Owned(r) /\ Left(r, 4)
    BY <1>1, <2>2, BesideIs DEF Left
  <2>4. Drives(r, Succeed(r, t), t)
    BY <2>2, <2>3, SucceedIs
  <2>5. Drives(page, Succeed(r, t), t)
    BY <1>1, <2>2, <2>4, BesideContinues
  <2> QED
    BY <1>2, <2>1, <2>5 DEF Continues
<1>4. CASE answer # "ok" /\ Superseded(page, t)
  <2>1. page' = Finish(page, t)
    BY <1>4 DEF RetryDone, Becomes
  <2> QED
    BY <1>1, <1>2, <2>1, FinishDrives DEF Continues
<1>5. CASE answer # "ok" /\ ~Superseded(page, t)
  <2>1. page' = IF q.blocked THEN Block(q, t) ELSE Rung(Release(q), t, 2)
    BY <1>5 DEF RetryDone, Becomes
  <2>2. q \in PageType /\ Beside(page, q)
    BY <1>1, MarksIs DEF Beside
  <2> HIDE DEF q
  <2>3. PageHolds(q) /\ Undisturbed(page, q) /\ Owned(q) /\ FreeRequests(q) # {}
    BY <1>1, <2>2, BesideIs
  <2>4. CASE q.blocked
    <3>1. At(q, t) \notin {"idle", "prime"} /\ Answer(q, t) # "none"
      BY <1>1, <2>2 DEF Beside, At, Answer
    <3>2. Drives(q, Block(q, t), t)
      BY <1>2, <2>2, <2>3, <3>1, BlockIs
    <3>3. Drives(page, Block(q, t), t)
      BY <1>1, <2>2, <3>2, BesideContinues
    <3> QED
      BY <1>2, <2>1, <2>4, <3>3 DEF Continues
  <2>5. CASE ~q.blocked
    <3> DEFINE r == Release(q)
    <3>1. /\ PageHolds(r) /\ Undisturbed(q, r) /\ Cache(r) = Cache(q)
          /\ Sweeping(r) = Sweeping(q) /\ Shown(r) = Shown(q)
      BY <2>2, <2>3, ReleaseIs
    <3> HIDE DEF r
    <3>2. /\ r \in PageType /\ r.newest = t /\ r.index = page.index
          /\ r.retry = page.retry /\ FreeRequests(r) # {}
      BY <1>5, <2>2, <2>3, <3>1 DEF Superseded, PageHolds, Beside, Sweeping, Shown, FreeRequests, Cache
    <3>3. Undisturbed(page, r)
      BY <2>3, <3>1, UndisturbedTrans
    <3>4. Drives(page, Rung(r, t, 2), t)
      BY <1>1, <1>2, <3>1, <3>2, <3>3, NewestRung
    <3> QED
      BY <1>2, <2>1, <2>5, <3>4 DEF Continues, r
  <2> QED
    BY <2>4, <2>5
<1> QED
  BY <1>3, <1>4, <1>5

LEMMA ResumeStep ==
  ASSUME Ready(page), NEW t \in 0..Calls, ResumeDone(t)
  PROVE  Continues(page, page', t)
<1> DEFINE answer == Answer(page, t)
           s == SongOf(page, t)
<1>1. /\ page \in PageType /\ PageHolds(page) /\ Owned(page) /\ FreeRequests(page) # {}
      /\ At(page, t) = "resume" /\ answer # "none" /\ Left(page, 4)
  BY ReadyFree DEF Ready, ResumeDone, Answered
<1>2. /\ t \in Tasks /\ t # Recovery /\ s \in Songs
      /\ page.calls[t].auto /\ ~page.calls[t].given
  BY <1>1 DEF PageHolds, CallsHold, CallHolds, Tasks, Recovery
<1>3. CASE answer = "denied"
  <2>1. page' = Block(page, t)
    BY <1>3 DEF ResumeDone, Becomes
  <2>2. Drives(page, Block(page, t), t)
    BY <1>1, <1>2, BlockIs
  <2> QED
    BY <1>2, <2>1, <2>2 DEF Continues
<1>4. CASE answer \notin {"denied", "ok"}
  <2> DEFINE q == Rung(page, t, 1)
  <2>1. page' = q
    BY <1>4 DEF ResumeDone, Becomes
  <2>2. Onward(page, q, t) /\ Owned(q) /\ Sweeping(q) = Sweeping(page) /\ q.retry = page.retry
    BY <1>1, <1>2, RungIs
  <2> HIDE DEF q
  <2>3. q.index = page.index
    BY <2>2 DEF Sweeping
  <2> QED
    BY <1>1, <1>2, <2>1, <2>2, <2>3 DEF Continues, Drives
<1>5. CASE answer = "ok" /\ page.loaded # s
  <2>1. page' = Finish(page, t)
    BY <1>5 DEF ResumeDone, Becomes
  <2> QED
    BY <1>1, <1>2, <2>1, FinishDrives DEF Continues
<1>6. CASE answer = "ok" /\ page.loaded = s
  <2> DEFINE r == [page EXCEPT !.playing = TRUE]
  <2>1. page' = Succeed(r, t)
    BY <1>6 DEF ResumeDone, Becomes
  <2>2. r \in PageType /\ Beside(page, r)
    BY <1>1, MarksIs
  <2> HIDE DEF r
  <2>3. PageHolds(r) /\ Owned(r) /\ Left(r, 4)
    BY <1>1, <2>2, BesideIs DEF Left
  <2>4. Drives(r, Succeed(r, t), t)
    BY <2>2, <2>3, SucceedIs
  <2>5. Drives(page, Succeed(r, t), t)
    BY <1>1, <2>2, <2>4, BesideContinues
  <2> QED
    BY <1>2, <2>1, <2>5 DEF Continues
<1> QED
  BY <1>3, <1>4, <1>5, <1>6

LEMMA UnpauseStep ==
  ASSUME Ready(page), NEW t \in 0..Calls, UnpauseDone(t)
  PROVE  Continues(page, page', t)
<1> DEFINE s == IF page.current # NoSong THEN page.current ELSE page.index
<1>1. /\ page \in PageType /\ PageHolds(page) /\ Owned(page) /\ FreeRequests(page) # {}
      /\ At(page, t) = "unpause" /\ Answer(page, t) # "none"
  BY ReadyFree DEF Ready, UnpauseDone, Answered
<1>2. t \in Tasks /\ t # Recovery
  BY <1>1 DEF PageHolds, CallsHold, CallHolds, Tasks, Recovery
<1>3. s \in Songs
  BY <1>1 DEF PageType
<1>4. CASE Answer(page, t) \in {"ok", "abort"}
  <2>1. page' = Finish(page, t)
    BY <1>4 DEF UnpauseDone, Becomes
  <2> QED
    BY <1>1, <1>2, <2>1, FinishDrives DEF Continues
<1>5. CASE Answer(page, t) \notin {"ok", "abort"}
  <2> DEFINE given == FALSE
             q == PlayBare(page, t, s, given)
  <2>1. page' = q /\ given \in BOOLEAN
    BY <1>5 DEF UnpauseDone, Becomes
  <2> HIDE DEF s, given
  <2>2. /\ Onward(page, q, t) /\ Owned(q) /\ At(q, t) \in {"resume", "resolve"}
        /\ q.newest = t /\ q.index = page.index
    BY <1>1, <1>2, <1>3, <2>1, PlayBareIs
  <2> HIDE DEF q
  <2>3. q.calls[t] # page.calls[t]
    BY <1>1, <2>2 DEF At
  <2> QED
    BY <1>2, <2>1, <2>2, <2>3 DEF Continues, Drives
<1> QED
  BY <1>4, <1>5

LEMMA HeardFinish ==
  ASSUME NEW p \in PageType, PageHolds(p), Owned(p), NEW r \in PageType, Beside(p, r),
         NEW t \in 0..Calls, Answer(p, t) # "none"
  PROVE  Drives(p, Finish(r, t), t)
<1>1. PageHolds(r) /\ Owned(r)
  BY BesideIs
<1>2. Drives(r, Finish(r, t), t)
  BY <1>1, FinishDrives
<1> QED
  BY <1>2, BesideContinues

LEMMA GestureStep ==
  ASSUME Ready(page), NEW t \in 0..Calls, GestureDone(t)
  PROVE  Continues(page, page', t)
<1> DEFINE f == page.failed \ {SongOf(page, t)}
           a == [page EXCEPT !.playing = TRUE]
           r == [page EXCEPT !.playing = TRUE, !.failed = f]
<1>1. /\ page \in PageType /\ PageHolds(page) /\ Owned(page)
      /\ At(page, t) = "gesture" /\ Answer(page, t) # "none"
  BY DEF Ready, GestureDone, Answered
<1>2. t # Recovery
  BY <1>1 DEF PageHolds, CallsHold, CallHolds
<1>3. page' \in {Finish(r, t), Finish(page, t)}
  BY DEF GestureDone, Becomes
<1>4. r \in PageType /\ Beside(page, r)
  <2>1. a \in PageType
    BY <1>1, MarksIs
  <2>2. f \in SUBSET Songs
    BY <1>1 DEF PageType
  <2>3. r = [a EXCEPT !.failed = f]
    BY <1>1 DEF PageType
  <2> HIDE DEF f, a
  <2>4. r \in PageType
    BY <2>1, <2>2, <2>3, FailedPut
  <2>5. Beside(page, r)
    BY <1>1 DEF PageType, Beside, Cache, Element, Player
  <2> QED
    BY <2>4, <2>5
<1> HIDE DEF r
<1>5. Drives(page, Finish(r, t), t) /\ Drives(page, Finish(page, t), t)
  BY <1>1, <1>4, HeardFinish, FinishDrives
<1> QED
  BY <1>2, <1>3, <1>5 DEF Continues

\* The silent clip is paused: no load and no track of the queue is touched.
LEMMA PrimeStep ==
  ASSUME Ready(page), NEW t \in 0..Calls, PrimeDone(t)
  PROVE  Continues(page, page', t)
<1> DEFINE r == Pause(page)
<1>1. /\ page \in PageType /\ PageHolds(page) /\ Owned(page)
      /\ At(page, t) = "prime" /\ Answer(page, t) # "none"
  BY DEF Ready, PrimeDone, Answered
<1>2. t # Recovery
  BY <1>1 DEF PageHolds, CallsHold, CallHolds
<1>3. page' \in {Finish(r, t), Finish(page, t)}
  BY DEF PrimeDone, Becomes
<1>4. /\ PageHolds(r) /\ Undisturbed(page, r) /\ Player(r) = Player(page)
      /\ Sweeping(r) = Sweeping(page) /\ r.retry = page.retry
  BY <1>1, PauseIs
<1> HIDE DEF r
<1>5. /\ r \in PageType /\ r.loader = page.loader /\ r.current = page.current
      /\ r.loaded = page.loaded /\ r.index = page.index
  BY <1>4 DEF PageHolds, Player, Sweeping
<1>6. Owned(r)
  BY <1>1, <1>4, <1>5, OwnedStays
<1>7. Drives(r, Finish(r, t), t)
  BY <1>4, <1>5, <1>6, FinishDrives
<1>8. Drives(page, Finish(r, t), t)
  BY <1>1, <1>4, <1>5, <1>7, DrivesAfter
<1>9. Drives(page, Finish(page, t), t)
  BY <1>1, FinishDrives
<1> QED
  BY <1>2, <1>3, <1>8, <1>9 DEF Continues

LEMMA ReviveStep ==
  ASSUME Ready(page), ReviveDone
  PROVE  Continues(page, page', Recovery)
<1> DEFINE t == Recovery
           f == page.failed \ {SongOf(page, Recovery)}
           r == [page EXCEPT !.failed = f]
<1>1. /\ page \in PageType /\ PageHolds(page) /\ Owned(page)
      /\ At(page, t) = "revive" /\ Answer(page, t) # "none" /\ t \in 0..Calls
  BY PlaybackAssumption DEF Ready, ReviveDone, Answered, PlaybackAssumption, Recovery
<1>2. CASE Answer(page, t) = "ok"
  <2>1. page' = Finish(r, t)
    BY <1>2 DEF ReviveDone, Becomes
  <2>2. f \in SUBSET Songs
    BY <1>1 DEF PageType
  <2> HIDE DEF f
  <2>3. r \in PageType
    BY <1>1, <2>2, FailedPut
  <2>4. Beside(page, r)
    BY <1>1 DEF PageType, Beside, Cache, Element, Player
  <2> HIDE DEF r
  <2>5. Drives(page, Finish(r, t), t)
    BY <1>1, <2>3, <2>4, HeardFinish
  <2> QED
    BY <1>1, <1>2, <2>1, <2>5 DEF Continues
<1>3. CASE Answer(page, t) # "ok"
  <2>1. page' = GiveUp(page, t)
    BY <1>3 DEF ReviveDone, Becomes
  <2>2. Drives(page, GiveUp(page, t), t) /\ (t = Recovery => GiveUp(page, t).retry # NoSong)
    BY <1>1, GiveUpIs
  <2> QED
    BY <2>1, <2>2 DEF Continues
<1> QED
  BY <1>2, <1>3

\* Every continuation, whichever call it is of.
LEMMA MicrotaskStep ==
  ASSUME Ready(page), Microtasks
  PROVE  /\ \E t \in 0..Calls : Answered(t) /\ Continues(page, page', t)
         /\ UNCHANGED <<online, down, moves, faults>>
<1>1. ASSUME NEW t \in 0..Calls, Continue(t)
      PROVE  Answered(t) /\ Continues(page, page', t) /\ UNCHANGED <<online, down, moves, faults>>
  <2>1. CASE ResolveDone(t)
    BY <2>1, ResolveStep DEF ResolveDone, Becomes
  <2>2. CASE ElementDone(t)
    BY <2>2, ElementStep DEF ElementDone, Becomes
  <2>3. CASE BufferDone(t)
    BY <2>3, BufferStep DEF BufferDone, Becomes
  <2>4. CASE StartDone(t)
    BY <2>4, StartStep DEF StartDone, Becomes
  <2>5. CASE RetryDone(t)
    BY <2>5, RetryStep DEF RetryDone, Becomes
  <2>6. CASE ResumeDone(t)
    BY <2>6, ResumeStep DEF ResumeDone, Becomes
  <2>7. CASE UnpauseDone(t)
    BY <2>7, UnpauseStep DEF UnpauseDone, Becomes
  <2>8. CASE GestureDone(t)
    BY <2>8, GestureStep DEF GestureDone, Becomes
  <2>9. CASE PrimeDone(t)
    BY <2>9, PrimeStep DEF PrimeDone, Becomes
  <2> QED
    BY <1>1, <2>1, <2>2, <2>3, <2>4, <2>5, <2>6, <2>7, <2>8, <2>9 DEF Continue
<1>2. ASSUME ReviveDone
      PROVE  /\ Recovery \in 0..Calls /\ Answered(Recovery) /\ Continues(page, page', Recovery)
             /\ UNCHANGED <<online, down, moves, faults>>
  BY <1>2, ReviveStep, PlaybackAssumption DEF ReviveDone, Becomes, PlaybackAssumption, Recovery
<1> QED
  BY <1>1, <1>2 DEF Microtasks

-----------------------------------------------------------------------------
(* What happens to a page at rest: no call has an answer it has not read. *)

Resting(p) == \A t \in 0..Calls : Answer(p, t) = "none"

LEMMA DrainedRests ==
  ASSUME Ready(page), Drained
  PROVE  Resting(page)
<1> SUFFICES ASSUME NEW t \in 0..Calls PROVE Answer(page, t) = "none"
  BY DEF Resting
<1>1. page.calls \in [0..Calls -> CallType]
  BY DEF Ready, PageType
<1>2. ~Answered(t) /\ CallHolds(page, t)
  BY <1>1 DEF Drained, Ready, PageHolds, CallsHold
<1> QED
  BY <1>2 DEF Answered, CallHolds

LEMMA RestingSpare ==
  ASSUME NEW p \in PageType, Resting(p)
  PROVE  /\ p.newest # Nobody => Answer(p, p.newest) = "none"
         /\ SpareHolds(p) /\ \A t : Alone(p, t)
         /\ \A u \in 0..Calls : ~(At(p, u) = "buffer" /\ Answer(p, u) = "ok")
<1>1. p.newest # Nobody => p.newest \in 0..Calls
  BY DEF PageType, Tasks
<1> QED
  BY <1>1 DEF Resting, SpareHolds, Alone

\* Every call is where it was.
Stays(p, q) ==
  \A u \in 0..Calls : /\ At(q, u) = At(p, u) /\ SongOf(q, u) = SongOf(p, u)
                      /\ q.calls[u].auto = p.calls[u].auto /\ q.calls[u].given = p.calls[u].given

LEMMA OwnedWhere ==
  ASSUME NEW p \in PageType, NEW q \in PageType, Owned(p), Stays(p, q),
         q.loader = p.loader, q.current = p.current,
         q.loaded \in {p.loaded, NoSong}, q.retry \in {p.retry, NoSong}
  PROVE  Owned(q)
<1>1. p.loader # Nobody => p.loader \in 0..Calls
  BY DEF PageType
<1>2. Recovery \in 0..Calls
  BY PlaybackAssumption DEF PlaybackAssumption, Recovery
<1> QED
  BY <1>1, <1>2 DEF Stays, Owned, OwnerHolds, RecoveryHolds

LEMMA UndisturbedStays ==
  ASSUME NEW p, NEW q, Undisturbed(p, q)
  PROVE  Stays(p, q)
BY DEF Undisturbed, Leaves, Stays

\* The calls, the requests and what is newest stay as they are.
LEMMA SameHolds ==
  ASSUME NEW p \in PageType, PageHolds(p), NEW q \in PageType, ElementHolds(q), q.calls = p.calls,
         q.pending = p.pending, q.flight = p.flight, q.newest = p.newest
  PROVE  PageHolds(q) /\ Undisturbed(p, q) /\ Stays(p, q)
<1>1. CacheHolds(q)
  BY DEF PageHolds, CacheHolds, At, Answer, SongOf
<1>2. Undisturbed(p, q)
  BY UndisturbedSame
<1> QED
  BY <1>1, <1>2, CallsKeep, UndisturbedStays DEF PageHolds

LEMMA ToldCall ==
  ASSUME NEW p \in PageType, Resting(p), NEW r \in PageType, r.calls = p.calls,
         NEW pcs, NEW answer \in {"ok", "failed"}, NEW t \in 0..Calls
  PROVE  LET q == Tell(r, pcs, answer)
         IN  /\ At(q, t) = At(p, t) /\ SongOf(q, t) = SongOf(p, t)
             /\ q.calls[t].auto = p.calls[t].auto /\ q.calls[t].given = p.calls[t].given
             /\ q.calls[t].wait = p.calls[t].wait
             /\ At(p, t) \in pcs => Answer(q, t) = answer
             /\ At(p, t) \notin pcs => Answer(q, t) = "none"
<1> DEFINE q == Tell(r, pcs, answer)
<1>1. \A u \in 0..Calls : q.calls[u] = IF At(r, u) \in pcs /\ Answer(r, u) = "none"
                                       THEN [r.calls[u] EXCEPT !.answer = answer] ELSE r.calls[u]
  BY TellIs
<1> HIDE DEF q
<1>2. p.calls[t] \in CallType /\ Answer(p, t) = "none"
  BY CallField DEF Resting
<1>3. CASE At(p, t) \in pcs
  <2>1. q.calls[t] = [p.calls[t] EXCEPT !.answer = answer]
    BY <1>1, <1>2, <1>3 DEF At, Answer
  <2> HIDE DEF q
  <2>2. /\ q.calls[t].pc = p.calls[t].pc /\ q.calls[t].song = p.calls[t].song
        /\ q.calls[t].auto = p.calls[t].auto /\ q.calls[t].given = p.calls[t].given
        /\ q.calls[t].wait = p.calls[t].wait /\ q.calls[t].answer = answer
    BY <1>2, <2>1 DEF CallType
  <2> QED
    BY <1>3, <2>2 DEF At, SongOf, Answer, q
<1>4. CASE At(p, t) \notin pcs
  <2>1. q.calls[t] = p.calls[t]
    BY <1>1, <1>4 DEF At
  <2> QED
    BY <1>2, <1>4, <2>1 DEF At, SongOf, Answer, q
<1> QED
  BY <1>3, <1>4

\* A call at pcs is told how it went, and all the others wait on.
LEMMA ToldHolds ==
  ASSUME NEW p \in PageType, PageHolds(p), Resting(p), NEW r \in PageType, r.calls = p.calls,
         Cache(r) = Cache(p), NEW pcs, NEW answer \in {"ok", "failed"},
         "idle" \notin pcs, ElementHolds(Tell(r, pcs, answer))
  PROVE  LET q == Tell(r, pcs, answer)
         IN  /\ q \in PageType /\ PageHolds(q) /\ Stays(p, q) /\ Rest(q) = Rest(r)
<1> DEFINE q == Tell(r, pcs, answer)
<1>1. /\ q \in PageType /\ Rest(q) = Rest(r)
      /\ \A t \in 0..Calls : q.calls[t] = IF At(r, t) \in pcs /\ Answer(r, t) = "none"
                                          THEN [r.calls[t] EXCEPT !.answer = answer] ELSE r.calls[t]
  BY TellIs
<1> HIDE DEF q
<1>2. ASSUME NEW t \in 0..Calls
      PROVE  /\ At(q, t) = At(p, t) /\ SongOf(q, t) = SongOf(p, t)
             /\ q.calls[t].auto = p.calls[t].auto /\ q.calls[t].given = p.calls[t].given
             /\ q.calls[t].wait = p.calls[t].wait
             /\ At(p, t) \in pcs => Answer(q, t) = answer
             /\ At(p, t) \notin pcs => Answer(q, t) = "none"
  BY ToldCall DEF q
<1>3. CallsHold(q)
  <2> SUFFICES ASSUME NEW t \in 0..Calls PROVE CallHolds(q, t)
    BY DEF CallsHold
  <2>1. CallHolds(p, t) /\ Answer(q, t) \in {"none", "ok", "failed"}
    BY <1>2 DEF PageHolds, CallsHold
  <2>2. At(p, t) = "idle" => Answer(q, t) = "none"
    BY <1>2
  <2> QED
    BY <1>2, <2>1, <2>2 DEF CallHolds
<1>4. CacheHolds(q)
  <2>1. q.pending = p.pending /\ q.flight = p.flight
    BY <1>1 DEF Rest, Cache
  <2>2. \A t \in 0..Calls : Answer(p, t) = "none"
    BY DEF Resting
  <2> QED
    BY <1>2, <2>1, <2>2 DEF PageHolds, CacheHolds
<1>5. SpareHolds(q)
  <2>1. q.newest # Nobody => q.newest \in 0..Calls
    BY <1>1 DEF PageType, Tasks
  <2> QED
    BY <1>2, <2>1 DEF SpareHolds, Hot
<1>6. PageHolds(q)
  BY <1>1, <1>3, <1>4, <1>5 DEF PageHolds, q
<1>7. Stays(p, q)
  BY <1>2 DEF Stays
<1> QED
  BY <1>1, <1>6, <1>7 DEF q

\* What the element keeps when calls are told.
LEMMA ToldElement ==
  ASSUME NEW p \in PageType, PageHolds(p), Resting(p), NEW r \in PageType, r.calls = p.calls,
         NEW pcs, NEW answer \in {"ok", "failed"},
         r.ready => ~r.broken, r.held # NoSong => r.src = r.held,
         r.loaded # NoSong /\ ~r.finished => r.src # NoSong,
         ~r.permitted => r.paused /\ ~r.finished /\ r.src # Silent,
         Starting \subseteq pcs \/ (r.paused = p.paused /\ r.src = p.src),
         "buffer" \in pcs \/ (r.ready => p.ready),
         "buffer" \in pcs /\ answer = "ok" => ~r.broken /\ r.src # NoSong
  PROVE  ElementHolds(Tell(r, pcs, answer))
<1> DEFINE q == Tell(r, pcs, answer)
<1>1. /\ q \in PageType /\ Rest(q) = Rest(r)
      /\ \A t \in 0..Calls : q.calls[t] = IF At(r, t) \in pcs /\ Answer(r, t) = "none"
                                          THEN [r.calls[t] EXCEPT !.answer = answer] ELSE r.calls[t]
  BY TellIs
<1> HIDE DEF q
<1>2. /\ q.ready = r.ready /\ q.broken = r.broken /\ q.held = r.held /\ q.src = r.src
      /\ q.loaded = r.loaded /\ q.finished = r.finished /\ q.permitted = r.permitted
      /\ q.paused = r.paused
  BY <1>1 DEF Rest, Element, Player
<1>3. ASSUME NEW t \in 0..Calls
      PROVE  /\ At(q, t) \in Starting /\ Answer(q, t) = "none" => ~q.paused /\ q.src # NoSong
             /\ At(q, t) = "buffer" /\ Answer(q, t) = "none" => ~q.ready
             /\ At(q, t) = "buffer" /\ Answer(q, t) = "ok" => ~q.broken /\ q.src # NoSong
  <2>1. p.calls[t] \in CallType /\ Answer(p, t) = "none"
    BY CallField DEF Resting
  <2>2. /\ At(q, t) = At(p, t)
        /\ At(p, t) \in pcs => Answer(q, t) = answer
        /\ At(p, t) \notin pcs => Answer(q, t) = "none"
    BY ToldCall DEF q
  <2>3. /\ At(p, t) \in Starting => ~p.paused /\ p.src # NoSong
        /\ At(p, t) = "buffer" => ~p.ready
    BY <2>1 DEF PageHolds, ElementHolds
  <2> QED
    BY <1>2, <2>2, <2>3
<1>4. ElementHolds(q)
  BY <1>2, <1>3 DEF ElementHolds
<1> QED
  BY <1>4 DEF q

\* recover(): whatever the page knows of it, a dead stream is being reloaded or
\* waits to be.
LEMMA RecoverIs ==
  ASSUME NEW p \in PageType, PageHolds(p), Owned(p), FreeRequests(p) # {}, p.retry = NoSong,
         NEW connected
  PROVE  LET q == Recover(p, connected)
         IN  /\ q \in PageType /\ PageHolds(q) /\ Owned(q)
             /\ Recovering(p) => Recovering(q)
             /\ p.current # NoSong => Recovering(q)
<1> DEFINE s == p.current
<1>0. Recovery \in 0..Calls /\ TRUE \in BOOLEAN
  BY PlaybackAssumption DEF PlaybackAssumption, Recovery
<1>1. CASE At(p, Recovery) # "idle" \/ s = NoSong
  <2>1. Recover(p, connected) = p
    BY <1>1 DEF Recover
  <2> QED
    BY <1>1, <2>1 DEF Recovering
<1>2. CASE At(p, Recovery) = "idle" /\ s # NoSong /\ ~connected
  <2>1. Recover(p, connected) = ScheduleRecovery(p, s)
    BY <1>2 DEF Recover
  <2>2. s \in Songs
    BY <1>2 DEF PageType
  <2> DEFINE q == ScheduleRecovery(p, s)
  <2>3. q \in PageType /\ PageHolds(q) /\ Owned(q) /\ q.retry # NoSong
    BY <2>2, ScheduleIs
  <2> QED
    BY <2>1, <2>3 DEF Recovering
<1>3. CASE At(p, Recovery) = "idle" /\ s # NoSong /\ connected
  <2> DEFINE c == [IdleCall EXCEPT !.song = s]
             a == [p EXCEPT !.calls[Recovery] = c]
             b == Remove(a, s)
             quietly == TRUE
             q == Load(b, Recovery, s, quietly)
  <2>1. Recover(p, connected) = q
    BY <1>3 DEF Recover
  <2>2. s \in Songs
    BY <1>3 DEF PageType
  <2> HIDE DEF s
  <2>3. /\ c \in CallType /\ c.pc = "idle" /\ c.answer = "none" /\ c.song = s /\ ~c.auto
    <3>1. s \in Songs \cup {NoSong} /\ IdleCall \in CallType
      BY <2>2, IdleType
    <3>2. c \in CallType
      BY <3>1, Zenon DEF CallType
    <3> QED
      BY <3>2 DEF IdleCall
  <2> HIDE DEF c
  <2>4. Fits(p, Recovery, c)
    BY <2>3 DEF Fits, Starting
  <2>5. a \in PageType /\ PageHolds(a) /\ Rest(a) = Rest(p) /\ a.calls[Recovery] = c
    BY <1>0, <2>4, PutHolds
  <2> HIDE DEF a
  <2>6. FreeRequests(a) # {} /\ a.retry = NoSong
    BY <2>5 DEF Rest, Cache, Shown, FreeRequests
  <2>7. /\ PageHolds(b) /\ b.calls = a.calls /\ b.flight = a.flight /\ b.url[s] = "none"
        /\ Shown(b) = Shown(a)
    BY <2>2, <2>5, RemoveIs
  <2> HIDE DEF b
  <2>8. /\ b \in PageType /\ FreeRequests(b) # {} /\ b.retry = NoSong /\ SongOf(b, Recovery) = s
        /\ ~b.calls[Recovery].auto /\ b.url[s] # "fresh"
    BY <2>3, <2>5, <2>6, <2>7 DEF PageHolds, FreeRequests, Shown, SongOf
  <2>9. quietly \in BOOLEAN
    OBVIOUS
  <2> HIDE DEF quietly
  <2>10. Onward(b, q, Recovery) /\ Owned(q) /\ At(q, Recovery) = "resolve"
    BY <1>0, <2>2, <2>7, <2>8, <2>9, LoadIs
  <2> QED
    BY <2>1, <2>10 DEF Onward, Recovering
<1> QED
  BY <1>1, <1>2, <1>3

LEMMA RequestIs ==
  ASSUME NEW p \in PageType, PageHolds(p), Owned(p), FreeRequests(p) # {}
  PROVE  LET q == RequestRecovery(p)
         IN  /\ q \in PageType /\ PageHolds(q) /\ Owned(q)
             /\ Recovering(p) => Recovering(q)
BY RecoverIs DEF RequestRecovery

\* What an event makes of a page that holds: a recovery outlives it, unless the
\* element is heard or another load has taken it over.
Occurs(p, q) ==
  /\ q \in PageType /\ PageHolds(q) /\ Owned(q)
  /\ Recovering(p) /\ ~Recovering(q)
     => Heard(q) \/ q.loader # Recovery \/ \E t \in Tasks : q.newest = t /\ q.calls[t] # p.calls[t]

LEMMA StaysRecovering ==
  ASSUME NEW p, NEW q, Stays(p, q), q.retry = p.retry, Recovering(p)
  PROVE  Recovering(q)
<1>1. Recovery \in 0..Calls
  BY PlaybackAssumption DEF PlaybackAssumption, Recovery
<1> QED
  BY <1>1 DEF Stays, Recovering

LEMMA ExpireStep ==
  ASSUME Ready(page), NEW s \in Songs, Expire(s)
  PROVE  Occurs(page, page')
<1> DEFINE url == [page.url EXCEPT ![s] = "expired"]
           q == [page EXCEPT !.url = url]
<1>1. page' = q /\ page \in PageType /\ PageHolds(page) /\ Owned(page)
  BY DEF Ready, Expire, Suffers
<1>2. url \in [Songs -> {"none", "fresh", "expired"}]
  BY <1>1 DEF PageType
<1> HIDE DEF url
<1>3. q \in PageType
  <2> SUFFICES ASSUME NEW p \in PageType PROVE [p EXCEPT !.url = url] \in PageType
    BY <1>1
  <2> QED
    BY <1>2, Zenon DEF PageType
<1>4. /\ q.calls = page.calls /\ q.pending = page.pending /\ q.flight = page.flight
      /\ Element(q) = Element(page) /\ Player(q) = Player(page) /\ q.newest = page.newest
      /\ q.retry = page.retry
  BY <1>1 DEF PageType, Element, Player
<1> HIDE DEF q
<1>5. ElementHolds(q)
  BY <1>1, <1>4 DEF PageHolds, ElementHolds, Element, Player, At, Answer
<1>6. PageHolds(q) /\ Stays(page, q)
  BY <1>1, <1>3, <1>4, <1>5, SameHolds
<1>7. Owned(q)
  BY <1>1, <1>3, <1>4, <1>6, OwnedWhere DEF Player
<1> QED
  BY <1>1, <1>3, <1>4, <1>6, <1>7, StaysRecovering DEF Occurs

LEMMA QuietStep ==
  ASSUME Ready(page), QuietEnds
  PROVE  Occurs(page, page')
<1> DEFINE q == [page EXCEPT !.quiet = FALSE]
<1>1. page' = q /\ page \in PageType /\ PageHolds(page) /\ Owned(page)
  BY DEF Ready, QuietEnds, Suffers
<1>2. q \in PageType
  <2> SUFFICES ASSUME NEW p \in PageType PROVE [p EXCEPT !.quiet = FALSE] \in PageType
    BY <1>1
  <2> QED
    BY Zenon DEF PageType
<1>3. /\ q.calls = page.calls /\ q.pending = page.pending /\ q.flight = page.flight
      /\ Element(q) = Element(page) /\ q.newest = page.newest /\ q.retry = page.retry
      /\ q.loaded = page.loaded /\ q.finished = page.finished /\ q.loader = page.loader
      /\ q.current = page.current
  BY <1>1 DEF PageType, Element
<1> HIDE DEF q
<1>4. ElementHolds(q)
  BY <1>1, <1>3 DEF PageHolds, ElementHolds, Element, At, Answer
<1>5. PageHolds(q) /\ Stays(page, q)
  BY <1>1, <1>2, <1>3, <1>4, SameHolds
<1>6. Owned(q)
  BY <1>1, <1>2, <1>3, <1>5, OwnedWhere
<1> QED
  BY <1>1, <1>2, <1>3, <1>5, <1>6, StaysRecovering DEF Occurs

LEMMA WaitsStep ==
  ASSUME Ready(page), Waits
  PROVE  Occurs(page, page')
<1> DEFINE loading == page.loading \/ (page.loaded # NoSong /\ ~page.paused)
           q == [page EXCEPT !.ready = FALSE, !.loading = loading]
<1>1. page' = q /\ page \in PageType /\ PageHolds(page) /\ Owned(page) /\ page.ready
  BY DEF Ready, Waits, Suffers
<1>2. loading \in BOOLEAN
  BY <1>1 DEF PageType
<1> HIDE DEF loading
<1>3. q \in PageType
  <2> SUFFICES ASSUME NEW p \in PageType, NEW b \in BOOLEAN
               PROVE  [p EXCEPT !.ready = FALSE, !.loading = b] \in PageType
    BY <1>1, <1>2
  <2>1. FALSE \in BOOLEAN
    OBVIOUS
  <2> QED
    BY <2>1, ZenonT(60) DEF PageType
<1>4. /\ q.calls = page.calls /\ q.pending = page.pending /\ q.flight = page.flight
      /\ q.newest = page.newest /\ q.retry = page.retry /\ Player(q) = Player(page)
      /\ q.held = page.held /\ q.src = page.src /\ ~q.ready /\ q.paused = page.paused
      /\ q.broken = page.broken /\ q.permitted = page.permitted
  BY <1>1 DEF PageType, Player
<1> HIDE DEF q
<1>5. ElementHolds(q)
  BY <1>1, <1>4 DEF PageHolds, ElementHolds, Player, At, Answer
<1>6. PageHolds(q) /\ Stays(page, q)
  BY <1>1, <1>3, <1>4, <1>5, SameHolds
<1>7. Owned(q)
  BY <1>1, <1>3, <1>4, <1>6, OwnedWhere DEF Player
<1> QED
  BY <1>1, <1>3, <1>4, <1>6, <1>7, StaysRecovering DEF Occurs

LEMMA StallsStep ==
  ASSUME Ready(page), Stalls
  PROVE  Occurs(page, page')
<1>1. page' = RequestRecovery(page)
  BY DEF Stalls, Becomes
<1>2. page \in PageType /\ PageHolds(page) /\ Owned(page) /\ FreeRequests(page) # {}
  BY ReadyFree DEF Ready
<1> QED
  BY <1>1, <1>2, RequestIs DEF Occurs

LEMMA BufferedStep ==
  ASSUME Ready(page), Buffered
  PROVE  Occurs(page, page')
<1> DEFINE r == [page EXCEPT !.ready = TRUE]
           q == Tell(r, {"buffer"}, "ok")
<1>1. page' = q /\ page \in PageType /\ PageHolds(page) /\ Owned(page) /\ Resting(page)
      /\ page.src # NoSong /\ ~page.broken
  BY DrainedRests DEF Ready, Buffered, Becomes
<1>2. r \in PageType
  <2> SUFFICES ASSUME NEW p \in PageType PROVE [p EXCEPT !.ready = TRUE] \in PageType
    BY <1>1
  <2> QED
    BY Zenon DEF PageType
<1>3. /\ r.calls = page.calls /\ Cache(r) = Cache(page) /\ Player(r) = Player(page)
      /\ r.newest = page.newest /\ r.retry = page.retry
      /\ r.held = page.held /\ r.src = page.src /\ r.ready /\ r.paused = page.paused
      /\ r.broken = page.broken /\ r.permitted = page.permitted
  BY <1>1 DEF PageType, Cache, Player
<1> HIDE DEF r
<1>4. ElementHolds(q)
  BY <1>1, <1>2, <1>3, ToldElement DEF PageHolds, ElementHolds, Player
<1> HIDE DEF q
<1>5. q \in PageType /\ PageHolds(q) /\ Stays(page, q) /\ Rest(q) = Rest(r)
  BY <1>1, <1>2, <1>3, <1>4, ToldHolds DEF q
<1>6. /\ q.loader = page.loader /\ q.current = page.current /\ q.loaded = page.loaded
      /\ q.retry = page.retry
  BY <1>3, <1>5 DEF Rest, Player, Shown
<1>7. Owned(q)
  BY <1>1, <1>5, <1>6, OwnedWhere
<1> QED
  BY <1>1, <1>5, <1>6, <1>7, StaysRecovering DEF Occurs

LEMMA SoundsStep ==
  ASSUME Ready(page), Sounds
  PROVE  Occurs(page, page')
<1> DEFINE a == [page EXCEPT !.loading = FALSE]
           b == CancelRecovery(a)
           r == IF page.loaded = NoSong THEN page ELSE b
           q == Tell(r, Starting, "ok")
<1>1. page' = q /\ page \in PageType /\ PageHolds(page) /\ Owned(page) /\ Resting(page)
      /\ page.ready /\ ~page.paused
  BY DrainedRests DEF Ready, Sounds, Becomes
<1>2. a \in PageType /\ Beside(page, a)
  BY <1>1, MarksIs
<1> HIDE DEF a
<1>3. b \in PageType
  BY <1>2, ShownPut DEF CancelRecovery
<1>4. /\ b.calls = a.calls /\ Cache(b) = Cache(a) /\ Element(b) = Element(a)
      /\ Player(b) = Player(a) /\ b.newest = a.newest /\ b.retry = NoSong
  BY <1>2 DEF CancelRecovery, PageType, Cache, Element, Player
<1> HIDE DEF b
<1>5. /\ r \in PageType /\ r.calls = page.calls /\ Cache(r) = Cache(page)
      /\ Element(r) = Element(page) /\ Player(r) = Player(page) /\ r.newest = page.newest
      /\ IF page.loaded = NoSong THEN r.retry = page.retry ELSE r.retry = NoSong
  BY <1>1, <1>2, <1>3, <1>4 DEF Beside
<1> HIDE DEF r
<1>6. /\ r.held = page.held /\ r.src = page.src /\ r.ready = page.ready /\ r.paused = page.paused
      /\ r.broken = page.broken /\ r.permitted = page.permitted
      /\ r.loaded = page.loaded /\ r.finished = page.finished
  BY <1>5 DEF Element, Player
<1>7. "buffer" \notin Starting /\ "idle" \notin Starting
  BY DEF Starting
<1>8. ElementHolds(q)
  BY <1>1, <1>5, <1>6, <1>7, ToldElement DEF PageHolds, ElementHolds
<1> HIDE DEF q
<1>9. q \in PageType /\ PageHolds(q) /\ Stays(page, q) /\ Rest(q) = Rest(r)
  BY <1>1, <1>5, <1>7, <1>8, ToldHolds DEF q
<1>10. /\ q.loader = page.loader /\ q.current = page.current /\ q.loaded = page.loaded
       /\ q.retry = r.retry /\ q.ready /\ ~q.paused
  BY <1>1, <1>5, <1>6, <1>9 DEF Rest, Player, Shown, Element
<1>11. Owned(q)
  BY <1>1, <1>5, <1>9, <1>10, OwnedWhere
<1>12. Recovering(page) /\ ~Recovering(q) => Heard(q)
  BY <1>5, <1>9, <1>10, StaysRecovering DEF Heard
<1> QED
  BY <1>1, <1>9, <1>11, <1>12 DEF Occurs

LEMMA BufferTimeoutStep ==
  ASSUME Ready(page), NEW t \in 0..Calls, BufferTimeout(t)
  PROVE  Occurs(page, page')
<1> DEFINE q == Tell(page, {"buffer"}, "failed")
<1>1. page' = q /\ page \in PageType /\ PageHolds(page) /\ Owned(page) /\ Resting(page)
  BY DrainedRests DEF Ready, BufferTimeout, Becomes, Suffers
<1>2. ElementHolds(q)
  BY <1>1, ToldElement DEF PageHolds, ElementHolds
<1> HIDE DEF q
<1>3. q \in PageType /\ PageHolds(q) /\ Stays(page, q) /\ Rest(q) = Rest(page)
  BY <1>1, <1>2, ToldHolds DEF q
<1>4. /\ q.loader = page.loader /\ q.current = page.current /\ q.loaded = page.loaded
      /\ q.retry = page.retry
  BY <1>3 DEF Rest, Player, Shown
<1>5. Owned(q)
  BY <1>1, <1>3, <1>4, OwnedWhere
<1> QED
  BY <1>1, <1>3, <1>4, <1>5, StaysRecovering DEF Occurs

LEMMA LostPut ==
  ASSUME NEW p \in PageType
  PROVE  [p EXCEPT !.loaded = NoSong, !.playing = FALSE, !.loading = FALSE] \in PageType
BY Zenon DEF PageType

LEMMA BreaksStep ==
  ASSUME Ready(page), Breaks
  PROVE  Occurs(page, page')
<1> DEFINE r == [page EXCEPT !.broken = TRUE, !.ready = FALSE]
           pcs == Starting \cup {"buffer"}
           q == Tell(r, pcs, "failed")
           removed == Remove(q, page.loaded)
           lost == [removed EXCEPT !.loaded = NoSong, !.playing = FALSE, !.loading = FALSE]
<1>1. page \in PageType /\ PageHolds(page) /\ Owned(page) /\ Resting(page) /\ FreeRequests(page) # {}
  BY DrainedRests, ReadyFree DEF Ready, Breaks
<1>0. page' \in (IF page.loaded = NoSong THEN {q} ELSE {lost, RequestRecovery(lost)})
  <2>1. CASE page.loaded = NoSong
    BY <2>1 DEF Breaks, Suffers
  <2>2. CASE page.loaded # NoSong
    BY <2>2 DEF Breaks, Suffers
  <2> QED
    BY <2>1, <2>2
<1>2. r \in PageType
  <2> SUFFICES ASSUME NEW p \in PageType PROVE [p EXCEPT !.broken = TRUE, !.ready = FALSE] \in PageType
    BY <1>1
  <2> QED
    BY Zenon DEF PageType
<1>3. /\ r.calls = page.calls /\ Cache(r) = Cache(page) /\ Player(r) = Player(page)
      /\ r.newest = page.newest /\ r.retry = page.retry
      /\ r.held = page.held /\ r.src = page.src /\ ~r.ready /\ r.paused = page.paused
      /\ r.broken /\ r.permitted = page.permitted
  BY <1>1 DEF PageType, Cache, Player
<1> HIDE DEF r
<1>4. /\ Starting \subseteq pcs /\ "buffer" \in pcs /\ "idle" \notin pcs
      /\ r.loaded = page.loaded /\ r.finished = page.finished
  BY <1>3 DEF Starting, Player
<1> HIDE DEF pcs
<1>5. ElementHolds(q)
  <2>1. ElementHolds(page)
    BY <1>1 DEF PageHolds
  <2> QED
    BY <1>1, <1>2, <1>3, <1>4, <2>1, ToldElement DEF ElementHolds
<1> HIDE DEF q
<1>6. q \in PageType /\ PageHolds(q) /\ Stays(page, q) /\ Rest(q) = Rest(r)
  BY <1>1, <1>2, <1>3, <1>4, <1>5, ToldHolds DEF q
<1>7. /\ q.loader = page.loader /\ q.current = page.current /\ q.loaded = page.loaded
      /\ q.retry = page.retry /\ q.flight = page.flight
  BY <1>3, <1>6 DEF Rest, Player, Shown, Cache
<1>8. Owned(q)
  BY <1>1, <1>6, <1>7, OwnedWhere
<1>9. CASE page.loaded = NoSong
  BY <1>0, <1>6, <1>7, <1>8, <1>9, StaysRecovering DEF Occurs
<1>10. CASE page.loaded # NoSong
  <2>1. page.loaded \in Songs
    BY <1>1, <1>10 DEF PageType
  <2>2. /\ PageHolds(removed) /\ removed.calls = q.calls /\ removed.flight = q.flight
        /\ Player(removed) = Player(q) /\ Sweeping(removed) = Sweeping(q) /\ Shown(removed) = Shown(q)
    BY <1>6, <2>1, RemoveIs
  <2> HIDE DEF removed
  <2>3. removed \in PageType
    BY <2>2 DEF PageHolds
  <2>4. lost \in PageType
    BY <2>3, LostPut
  <2>5. /\ lost.calls = removed.calls /\ lost.flight = removed.flight
        /\ lost.pending = removed.pending /\ Element(lost) = Element(removed)
        /\ lost.newest = removed.newest /\ lost.retry = removed.retry
        /\ lost.finished = removed.finished /\ lost.loaded = NoSong
        /\ lost.loader = removed.loader /\ lost.current = removed.current
    BY <2>3 DEF PageType, Element
  <2> HIDE DEF lost
  <2>6. ElementHolds(lost)
    BY <2>2, <2>5 DEF PageHolds, ElementHolds, Element, At, Answer
  <2>7. PageHolds(lost) /\ Stays(removed, lost)
    BY <2>2, <2>3, <2>4, <2>5, <2>6, SameHolds
  <2>8. /\ lost.loader = q.loader /\ lost.current = q.current /\ lost.retry = q.retry
        /\ FreeRequests(lost) # {} /\ Stays(q, lost)
    BY <1>1, <1>7, <2>2, <2>5 DEF Player, Shown, FreeRequests, Stays, At, SongOf
  <2>9. Owned(lost)
    BY <1>6, <1>8, <2>4, <2>5, <2>8, OwnedWhere
  <2>10. Recovering(page) => Recovering(lost)
    BY <1>6, <1>7, <2>8, StaysRecovering
  <2> DEFINE x == RequestRecovery(lost)
  <2>11. x \in PageType /\ PageHolds(x) /\ Owned(x) /\ (Recovering(lost) => Recovering(x))
    BY <2>4, <2>7, <2>8, <2>9, RequestIs
  <2> QED
    BY <1>0, <1>10, <2>4, <2>7, <2>9, <2>10, <2>11 DEF Occurs
<1> QED
  BY <1>9, <1>10

\* A resolve that is over is forgotten by the cache, and tells the calls that wait for it.
Tells(p, q, r, answer) ==
  /\ q \in PageType
  /\ q.flight = [p.flight EXCEPT ![r] = NoSong]
  /\ q.pending = [p.pending EXCEPT ![p.flight[r]] = NoRequest]
  /\ q.held \in {p.held, NoSong} /\ Player(q) = Player(p) /\ Sweeping(q) = Sweeping(p)
  /\ Shown(q) = Shown(p)
  /\ q.src = p.src /\ q.ready = p.ready /\ q.paused = p.paused /\ q.broken = p.broken
  /\ q.permitted = p.permitted
  /\ \A t \in 0..Calls :
       q.calls[t] = IF At(p, t) \in {"resolve", "element"} /\ p.calls[t].wait = r
                    THEN [p.calls[t] EXCEPT !.answer = answer, !.wait = NoRequest]
                    ELSE p.calls[t]

LEMMA SettledIs ==
  ASSUME NEW p \in PageType, NEW r \in 1..Requests, NEW good \in BOOLEAN, p.flight[r] \in Songs
  PROVE  Tells(p, Settled(p, r, good), r, IF good THEN "ok" ELSE "failed")
<1> DEFINE answer == IF good THEN "ok" ELSE "failed"
           s == p.flight[r]
           flight == [p.flight EXCEPT ![r] = NoSong]
           pending == [p.pending EXCEPT ![s] = NoRequest]
           url == [p.url EXCEPT ![s] = IF good THEN "fresh" ELSE p.url[s]]
           held == IF good /\ p.held = s THEN NoSong ELSE p.held
           kept == [p EXCEPT !.flight = flight, !.pending = pending, !.url = url, !.held = held]
           f == [t \in 0..Calls |-> IF At(p, t) \in {"resolve", "element"} /\ p.calls[t].wait = r
                                    THEN [p.calls[t] EXCEPT !.answer = answer, !.wait = NoRequest]
                                    ELSE p.calls[t]]
           q == [kept EXCEPT !.calls = f]
<1>1. answer \in Answers
  BY DEF Answers
<1>2. Settled(p, r, good) = q
  <2>1. kept = [p EXCEPT !.flight[r] = NoSong, !.pending[s] = NoRequest,
                         !.url[s] = IF good THEN "fresh" ELSE p.url[s],
                         !.held = IF good /\ p.held = s THEN NoSong ELSE p.held]
    OBVIOUS
  <2>2. kept.calls = p.calls /\ "calls" \in DOMAIN kept /\ DOMAIN p.calls = 0..Calls
    BY DEF PageType
  <2> HIDE DEF kept, answer
  <2>3. [kept EXCEPT !.calls = [t \in DOMAIN @ |->
           IF @[t].pc \in {"resolve", "element"} /\ @[t].wait = r
           THEN [@[t] EXCEPT !.answer = answer, !.wait = NoRequest] ELSE @[t]]] = q
    BY <2>2 DEF At
  <2> QED
    BY <2>1, <2>3 DEF Settled, answer
<1>3. /\ flight \in [1..Requests -> Songs \cup {NoSong}]
      /\ pending \in [Songs -> 0..Requests]
      /\ url \in [Songs -> {"none", "fresh", "expired"}]
      /\ held \in Held /\ held \in {p.held, NoSong}
  BY NoWait DEF PageType, Held
<1> HIDE DEF flight, pending, url, held
<1>4. kept \in PageType
  BY <1>3, CachePut
<1>5. /\ kept.flight = flight /\ kept.pending = pending /\ kept.held = held
      /\ kept.src = p.src /\ kept.ready = p.ready /\ kept.paused = p.paused
      /\ kept.broken = p.broken /\ kept.permitted = p.permitted
  BY DEF PageType
<1>6. Player(kept) = Player(p) /\ Sweeping(kept) = Sweeping(p) /\ Shown(kept) = Shown(p)
  BY DEF PageType, Player, Sweeping, Shown
<1> HIDE DEF kept
<1>7. f \in [0..Calls -> CallType]
  <2> SUFFICES ASSUME NEW t \in 0..Calls PROVE f[t] \in CallType
    OBVIOUS
  <2>1. p.calls[t] \in CallType
    BY CallField
  <2>2. ASSUME NEW k \in CallType, NEW a \in Answers, NEW w \in 0..Requests
        PROVE  [k EXCEPT !.answer = a, !.wait = w] \in CallType
    BY Zenon DEF CallType, Answers
  <2> HIDE DEF answer
  <2>3. [p.calls[t] EXCEPT !.answer = answer, !.wait = NoRequest] \in CallType
    BY <1>1, <2>1, <2>2, NoWait
  <2> QED
    BY <2>1, <2>3
<1>8. \A t \in 0..Calls : f[t] = IF At(p, t) \in {"resolve", "element"} /\ p.calls[t].wait = r
                                 THEN [p.calls[t] EXCEPT !.answer = answer, !.wait = NoRequest]
                                 ELSE p.calls[t]
  OBVIOUS
<1> HIDE DEF f
<1>9. q \in PageType /\ q.calls = f /\ Rest(q) = Rest(kept)
  BY <1>4, <1>7, CallsPut
<1> HIDE DEF q
<1>10. /\ q.flight = flight /\ q.pending = pending /\ q.held = held
       /\ q.src = p.src /\ q.ready = p.ready /\ q.paused = p.paused
       /\ q.broken = p.broken /\ q.permitted = p.permitted
       /\ Player(q) = Player(p) /\ Sweeping(q) = Sweeping(p) /\ Shown(q) = Shown(p)
  BY <1>5, <1>6, <1>9 DEF Rest, Cache, Element
<1> HIDE DEF answer
<1>11. Tells(p, q, r, answer)
  BY <1>3, <1>8, <1>9, <1>10 DEF flight, pending, Tells
<1> QED
  BY <1>2, <1>11, Zenon DEF answer

LEMMA SettleStep ==
  ASSUME Ready(page), NEW r \in 1..Requests, NEW good \in BOOLEAN, Settle(r, good)
  PROVE  Occurs(page, page')
<1> DEFINE q == Settled(page, r, good)
           s == page.flight[r]
           answer == IF good THEN "ok" ELSE "failed"
           told(t) == At(page, t) \in {"resolve", "element"} /\ page.calls[t].wait = r
<1>1. page' = q /\ page \in PageType /\ PageHolds(page) /\ Owned(page) /\ Resting(page)
  BY DrainedRests DEF Ready, Settle, Becomes, Suffers
<1>2. s \in Songs /\ s # NoSong
  BY <1>1 DEF Settle, PageType
<1>3. Tells(page, q, r, answer)
  <2>1. page.flight[r] \in Songs
    BY <1>2
  <2> QED
    BY <1>1, <2>1, SettledIs, Zenon
<1> HIDE DEF q
<1>4. answer \in {"ok", "failed"} /\ (answer = "failed" <=> ~good)
  OBVIOUS
<1> HIDE DEF answer
<1>5. ASSUME NEW t \in 0..Calls
      PROVE  /\ At(q, t) = At(page, t) /\ SongOf(q, t) = SongOf(page, t)
             /\ q.calls[t].auto = page.calls[t].auto /\ q.calls[t].given = page.calls[t].given
             /\ told(t) => Answer(q, t) = answer
             /\ ~told(t) => Answer(q, t) = "none" /\ q.calls[t].wait = page.calls[t].wait
  <2>1. page.calls[t] \in CallType /\ Answer(page, t) = "none"
    BY <1>1, CallField DEF Resting
  <2>2. CASE told(t)
    <3>1. q.calls[t] = [page.calls[t] EXCEPT !.answer = answer, !.wait = NoRequest]
      BY <1>3, <2>2 DEF Tells
    <3>2. /\ q.calls[t].pc = page.calls[t].pc /\ q.calls[t].song = page.calls[t].song
          /\ q.calls[t].auto = page.calls[t].auto /\ q.calls[t].given = page.calls[t].given
          /\ q.calls[t].answer = answer
      BY <2>1, <3>1 DEF CallType
    <3> QED
      BY <2>2, <3>2 DEF At, SongOf, Answer
  <2>3. CASE ~told(t)
    <3>1. q.calls[t] = page.calls[t]
      BY <1>3, <2>3 DEF Tells
    <3> QED
      BY <2>1, <2>3, <3>1 DEF At, SongOf, Answer
  <2> QED
    BY <2>2, <2>3
<1>6. CallsHold(q)
  <2> SUFFICES ASSUME NEW t \in 0..Calls PROVE CallHolds(q, t)
    BY DEF CallsHold
  <2>1. CallHolds(page, t) /\ Answer(q, t) \in {"none", "ok", "failed"}
    BY <1>1, <1>4, <1>5 DEF PageHolds, CallsHold
  <2>2. At(page, t) = "idle" => Answer(q, t) = "none"
    BY <1>5
  <2> QED
    BY <1>5, <2>1, <2>2 DEF CallHolds
<1>7. CacheHolds(q)
  <2>1. \A u \in 1..Requests : u # r => q.flight[u] = page.flight[u]
    BY <1>1, <1>3 DEF PageType, Tells
  <2>2. ASSUME NEW u \in Songs, q.pending[u] # NoRequest PROVE q.flight[q.pending[u]] = u
    <3>0. q.pending = [page.pending EXCEPT ![s] = NoRequest] /\ page.pending \in [Songs -> 0..Requests]
      BY <1>1, <1>3 DEF PageType, Tells
    <3>1. u # s /\ q.pending[u] = page.pending[u] /\ page.pending[u] \in 1..Requests
      BY <1>2, <2>2, <3>0 DEF NoRequest
    <3>2. page.flight[page.pending[u]] = u
      BY <1>1, <2>2, <3>1 DEF PageHolds, CacheHolds
    <3> QED
      BY <2>1, <3>1, <3>2
  <2>3. ASSUME NEW t \in 0..Calls, At(q, t) \in {"resolve", "element"}, Answer(q, t) = "none"
        PROVE  q.calls[t].wait # NoRequest /\ q.flight[q.calls[t].wait] = SongOf(q, t)
    <3>1. /\ ~told(t) /\ q.calls[t].wait = page.calls[t].wait
          /\ At(page, t) \in {"resolve", "element"} /\ SongOf(q, t) = SongOf(page, t)
      BY <1>4, <1>5, <2>3
    <3>2. /\ page.calls[t].wait # NoRequest /\ page.flight[page.calls[t].wait] = SongOf(page, t)
          /\ page.calls[t].wait \in 0..Requests
      BY <1>1, <3>1, CallField DEF PageHolds, CacheHolds, Resting, CallType
    <3>3. page.calls[t].wait \in 1..Requests /\ page.calls[t].wait # r
      BY <3>1, <3>2 DEF NoRequest
    <3> QED
      BY <2>1, <3>1, <3>2, <3>3
  <2> QED
    BY <2>2, <2>3 DEF CacheHolds
<1>8. ElementHolds(q)
  <2>1. q.loaded = page.loaded /\ q.finished = page.finished
    BY <1>3 DEF Player, Tells
  <2>2. ASSUME NEW t \in 0..Calls, At(q, t) \in Starting \cup {"buffer"}
        PROVE  At(page, t) = At(q, t) /\ Answer(q, t) = Answer(page, t)
    <3>1. ~told(t)
      BY <1>5, <2>2 DEF Starting
    <3> QED
      BY <1>1, <1>5, <3>1 DEF Resting
  <2> QED
    BY <1>1, <1>3, <2>1, <2>2 DEF PageHolds, ElementHolds, Tells
<1>9. SpareHolds(q)
  <2>0. q.newest = page.newest
    BY <1>3 DEF Sweeping, Tells
  <2>1. q.newest = page.newest /\ (q.newest # Nobody => q.newest \in 0..Calls)
    BY <1>1, <2>0 DEF PageType, Tasks
  <2> QED
    BY <1>4, <1>5, <2>1 DEF SpareHolds, Hot
<1>10. PageHolds(q)
  BY <1>3, <1>6, <1>7, <1>8, <1>9 DEF PageHolds, Tells
<1>11. Stays(page, q)
  BY <1>5 DEF Stays
<1>12. /\ q.loader = page.loader /\ q.current = page.current /\ q.loaded = page.loaded
       /\ q.retry = page.retry
  BY <1>3 DEF Player, Shown, Tells
<1>13. Owned(q)
  BY <1>1, <1>3, <1>11, <1>12, OwnedWhere DEF Tells
<1> QED
  BY <1>1, <1>3, <1>10, <1>11, <1>12, <1>13, StaysRecovering DEF Occurs, Tells

\* endPlayback: the element has nothing left to play, and every call is idle or waits
\* for a resolve or for buffers.
LEMMA EndedIs ==
  ASSUME NEW p \in PageType, PageHolds(p), Owned(p), Resting(p),
         ~p.paused \/ p.src = Silent
  PROVE  LET q == [DropBuffers([p EXCEPT !.finished = TRUE]) EXCEPT !.playing = FALSE]
         IN  /\ q \in PageType /\ PageHolds(q) /\ Owned(q) /\ Stays(p, q)
             /\ Aborted(p, q) /\ q.retry = p.retry /\ q.index = p.index
             /\ FreeRequests(q) = FreeRequests(p)
<1> DEFINE a == [p EXCEPT !.finished = TRUE]
           b == Swap(a, NoSong)
           q == [b EXCEPT !.held = NoSong, !.playing = FALSE]
<1>1. [DropBuffers(a) EXCEPT !.playing = FALSE] = q
  BY DEF DropBuffers
<1>2. a \in PageType
  BY Zenon DEF PageType
<1>3. /\ a.calls = p.calls /\ Cache(a) = Cache(p) /\ a.permitted = p.permitted /\ a.finished
      /\ Sweeping(a) = Sweeping(p) /\ a.retry = p.retry
      /\ a.loaded = p.loaded /\ a.current = p.current /\ a.loader = p.loader
  BY DEF PageType, Cache, Sweeping
<1> HIDE DEF a
<1>4. /\ b \in PageType /\ Aborted(a, b)
      /\ Cache(b) = Cache(a) /\ Player(b) = Player(a) /\ Sweeping(b) = Sweeping(a)
      /\ Shown(b) = Shown(a)
      /\ b.src = NoSong /\ b.paused /\ ~b.ready /\ ~b.broken /\ b.permitted = a.permitted
  BY <1>2, HeldIs, SwapIs
<1> HIDE DEF b
<1>5. q \in PageType
  <2> SUFFICES ASSUME NEW x \in PageType
               PROVE  [x EXCEPT !.held = NoSong, !.playing = FALSE] \in PageType
    BY <1>4
  <2>1. FALSE \in BOOLEAN /\ NoSong \in Songs \cup {NoSong, Silent}
    OBVIOUS
  <2> QED
    BY <2>1, ZenonT(60) DEF PageType
<1>6. /\ q.calls = b.calls /\ Cache(q) = Cache(b) /\ Player(q) = Player(b)
      /\ Sweeping(q) = Sweeping(b) /\ q.retry = b.retry
      /\ q.held = NoSong /\ q.src = b.src /\ q.paused = b.paused /\ q.ready = b.ready
      /\ q.broken = b.broken /\ q.permitted = b.permitted
  BY <1>4 DEF PageType, Cache, Player, Sweeping
<1> HIDE DEF q
<1>7. Aborted(p, q)
  BY <1>3, <1>4, <1>6 DEF Aborted, At, Answer
<1>8. Undisturbed(p, q) /\ Stays(p, q)
  BY <1>5, <1>7, UndisturbedAborted, UndisturbedStays
<1>9. ElementHolds(q)
  <2>1. \A u \in 0..Calls : At(q, u) \in Starting => Answer(q, u) # "none"
    BY <1>5, <1>7, AbortedCalls
  <2>2. ASSUME NEW u \in 0..Calls PROVE ~(At(q, u) = "buffer" /\ Answer(q, u) = "ok")
    <3>1. Leaves(p, q, u) /\ Answer(p, u) = "none"
      BY <1>8 DEF Undisturbed, Resting
    <3> QED
      BY <3>1 DEF Leaves
  <2>3. q.permitted /\ q.finished
    BY <1>3, <1>4, <1>6 DEF PageHolds, ElementHolds, Player
  <2> QED
    BY <1>4, <1>6, <2>1, <2>2, <2>3 DEF ElementHolds
<1>10. /\ q.newest = p.newest /\ Cache(q) = Cache(p) /\ q.retry = p.retry /\ q.index = p.index
       /\ q.loaded = p.loaded /\ q.current = p.current /\ q.loader = p.loader
  BY <1>3, <1>4, <1>6 DEF Sweeping, Player, Shown
<1>11. PageHolds(q)
  BY <1>5, <1>7, <1>9, <1>10, AbortedKeeps DEF PageHolds
<1>12. Owned(q)
  BY <1>5, <1>8, <1>10, OwnedWhere
<1>13. FreeRequests(q) = FreeRequests(p)
  BY <1>10 DEF FreeRequests, Cache
<1> QED
  BY <1>1, <1>5, <1>7, <1>8, <1>10, <1>11, <1>12, <1>13 DEF a

LEMMA PickIs ==
  ASSUME NEW i \in Songs, Pick(i) # NoSong
  PROVE  Pick(i) \in Songs
BY PlaybackAssumption DEF PlaybackAssumption, Pick, Songs, NoSong

LEMMA IdleTaskIs ==
  ASSUME IdleTasks # {}
  PROVE  LET t == Any(IdleTasks) IN t \in Tasks /\ At(page, t) = "idle"
<1>1. Any(IdleTasks) \in IdleTasks
  BY DEF Any
<1> QED
  BY <1>1 DEF IdleTasks

\* A new play() at the head of the queue, or none: what is heard next.
LEMMA EndsStep ==
  ASSUME Ready(page), Ends
  PROVE  Occurs(page, page')
<1> DEFINE q == [DropBuffers([page EXCEPT !.finished = TRUE]) EXCEPT !.playing = FALSE]
           next == Pick(page.index)
           t == Any(IdleTasks)
           none == {}
           x == PlayAtIndex(q, t, next, none)
<1>1. /\ page \in PageType /\ PageHolds(page) /\ Owned(page) /\ Resting(page)
      /\ ~page.paused \/ page.src = Silent
      /\ FreeRequests(page) # {}
  BY DrainedRests, ReadyFree DEF Ready, Ends
<1>2. \/ next = NoSong /\ page' = q
      \/ next # NoSong /\ IdleTasks # {} /\ page' = x
  BY DEF Ends, Becomes
<1>3. /\ q \in PageType /\ PageHolds(q) /\ Owned(q) /\ Stays(page, q)
      /\ Aborted(page, q) /\ q.retry = page.retry /\ q.index = page.index
      /\ FreeRequests(q) = FreeRequests(page)
  BY <1>1, EndedIs
<1> HIDE DEF q
<1>4. CASE next = NoSong
  BY <1>2, <1>3, <1>4, StaysRecovering DEF Occurs
<1>5. CASE next # NoSong
  <2>1. t \in Tasks /\ At(page, t) = "idle"
    BY <1>2, <1>5, IdleTaskIs
  <2>2. page.index \in Songs
    BY <1>1 DEF PageType
  <2>3. next \in Songs
    BY <1>5, <2>2, PickIs
  <2>4. none \in SUBSET Songs
    OBVIOUS
  <2> HIDE DEF none, next, t
  <2>5. /\ Onward(q, x, t) /\ Owned(x) /\ At(x, t) \in {"resume", "resolve"} /\ x.newest = t
    BY <1>1, <1>3, <2>1, <2>3, <2>4, PlayAtIndexIs
  <2> HIDE DEF x
  <2>6. x.calls[t] # page.calls[t]
    BY <2>1, <2>5 DEF At
  <2> QED
    BY <1>2, <1>5, <2>1, <2>5, <2>6 DEF Occurs, Onward
<1> QED
  BY <1>4, <1>5

LEMMA OfflineStep ==
  ASSUME Ready(page), Offline
  PROVE  Occurs(page, page')
BY DEF Ready, Offline, Occurs

\* A page that has forgotten the reload it waited for.
LEMMA CancelIs ==
  ASSUME NEW p \in PageType, PageHolds(p), Owned(p)
  PROVE  LET q == CancelRecovery(p)
         IN  /\ q \in PageType /\ PageHolds(q) /\ Owned(q) /\ q.retry = NoSong
             /\ q.calls = p.calls /\ Cache(q) = Cache(p) /\ Element(q) = Element(p)
             /\ Player(q) = Player(p) /\ Sweeping(q) = Sweeping(p)
             /\ FreeRequests(q) = FreeRequests(p)
<1> DEFINE q == CancelRecovery(p)
<1>1. q \in PageType
  BY ShownPut DEF CancelRecovery
<1>2. /\ q.retry = NoSong /\ q.calls = p.calls /\ Cache(q) = Cache(p) /\ Element(q) = Element(p)
      /\ Player(q) = Player(p) /\ Sweeping(q) = Sweeping(p)
  BY DEF PageType, CancelRecovery, Cache, Element, Player, Sweeping
<1> HIDE DEF q
<1>3. ElementHolds(q)
  BY <1>2 DEF PageHolds, ElementHolds, Element, Player, At, Answer
<1>4. PageHolds(q) /\ Stays(p, q)
  BY <1>1, <1>2, <1>3, SameHolds DEF Cache, Sweeping
<1>5. Owned(q)
  BY <1>1, <1>2, <1>4, OwnedWhere DEF Player
<1> QED
  BY <1>1, <1>2, <1>4, <1>5 DEF q, FreeRequests, Cache

\* The network is back: what had waited is reloaded at once.
LEMMA OnlineStep ==
  ASSUME Ready(page), Online
  PROVE  Occurs(page, page')
<1> DEFINE q == CancelRecovery(page)
           connected == TRUE
           x == Recover(q, connected)
<1>1. page' = x
  BY DEF Online
<1>2. page \in PageType /\ PageHolds(page) /\ Owned(page) /\ FreeRequests(page) # {}
  BY ReadyFree DEF Ready
<1>3. /\ q \in PageType /\ PageHolds(q) /\ Owned(q) /\ q.retry = NoSong
      /\ Player(q) = Player(page) /\ FreeRequests(q) # {}
  BY <1>2, CancelIs
<1> HIDE DEF q, connected
<1>4. /\ x \in PageType /\ PageHolds(x) /\ Owned(x)
      /\ q.current # NoSong => Recovering(x)
      /\ Recovering(q) => Recovering(x)
  BY <1>3, RecoverIs
<1>5. CASE q.current = NoSong
  <2>1. x = q
    BY <1>5 DEF Recover
  <2>2. q.loader = Nobody
    BY <1>3, <1>5 DEF Owned, OwnerHolds
  <2> QED
    BY <1>1, <1>4, <2>1, <2>2 DEF Occurs, Nobody, Recovery
<1> QED
  BY <1>1, <1>4, <1>5 DEF Occurs

\* The backoff is over: the reload it was for begins, unless the page has gone on to
\* another song.
LEMMA RetryFiresStep ==
  ASSUME Ready(page), RetryFires
  PROVE  Occurs(page, page')
<1> DEFINE q == CancelRecovery(page)
           x == Recover(q, online)
<1>1. /\ page.retry # NoSong
      /\ page' = IF page.current = page.retry THEN x ELSE q
  BY DEF RetryFires, Becomes, CancelRecovery
<1>2. page \in PageType /\ PageHolds(page) /\ Owned(page) /\ FreeRequests(page) # {}
  BY ReadyFree DEF Ready
<1>3. /\ q \in PageType /\ PageHolds(q) /\ Owned(q) /\ q.retry = NoSong
      /\ Player(q) = Player(page) /\ FreeRequests(q) # {}
  BY <1>2, CancelIs
<1> HIDE DEF q
<1>4. CASE page.current = page.retry
  <2>1. q.current # NoSong
    BY <1>1, <1>3, <1>4 DEF Player
  <2>2. x \in PageType /\ PageHolds(x) /\ Owned(x) /\ Recovering(x)
    BY <1>3, <2>1, RecoverIs
  <2> QED
    BY <1>1, <1>4, <2>2 DEF Occurs
<1>5. CASE page.current # page.retry
  <2>1. page.loader # Recovery
    BY <1>1, <1>2, <1>5 DEF Owned, RecoveryHolds
  <2> QED
    BY <1>1, <1>3, <1>5, <2>1 DEF Occurs, Player
<1> QED
  BY <1>4, <1>5

-----------------------------------------------------------------------------
(* What the user does. *)

Holds(p) == p \in PageType /\ PageHolds(p) /\ Owned(p)

\* A call that is about to begin.
LEMMA OpenIs ==
  ASSUME NEW p \in PageType, PageHolds(p), Owned(p), NEW t \in Tasks,
         NEW c \in CallType, c.pc = "idle", c.answer = "none"
  PROVE  LET q == [p EXCEPT !.calls[t] = c]
         IN  /\ q \in PageType /\ PageHolds(q) /\ Owned(q) /\ Rest(q) = Rest(p)
             /\ q.calls[t] = c /\ FreeRequests(q) = FreeRequests(p)
             /\ Resting(p) => Resting(q)
<1> DEFINE q == [p EXCEPT !.calls[t] = c]
<1>1. t \in 0..Calls /\ t # Recovery
  BY TaskIs
<1>2. Fits(p, t, c)
  BY <1>1 DEF Fits, Starting
<1>3. q \in PageType /\ PageHolds(q) /\ Rest(q) = Rest(p) /\ q.calls[t] = c /\ Others(p, q, t)
  BY <1>1, <1>2, PutHolds
<1>4. \A u \in 0..Calls : u # t => q.calls[u] = p.calls[u]
  BY <1>1, CallPut
<1> HIDE DEF q
<1>5. At(q, t) = "idle" /\ Answer(q, t) = "none"
  BY <1>3 DEF At, Answer
<1>6. Resting(p) => Resting(q)
  BY <1>4, <1>5 DEF Resting, Answer
<1>7. /\ q.loader = p.loader /\ q.current = p.current /\ q.loaded = p.loaded
      /\ q.retry = p.retry /\ q.flight = p.flight
  BY <1>3 DEF Rest, Player, Shown, Cache
<1>8. Owned(q)
  BY <1>1, <1>3, <1>5, <1>7, OwnedKeeps
<1> QED
  BY <1>3, <1>6, <1>7, <1>8 DEF q, FreeRequests

LEMMA IdleSong ==
  ASSUME NEW s \in Songs, NEW given \in BOOLEAN
  PROVE  LET c == [IdleCall EXCEPT !.song = s, !.given = given]
         IN  /\ c \in CallType /\ c.pc = "idle" /\ c.answer = "none" /\ c.song = s
             /\ ~c.auto /\ c.given = given
<1> DEFINE c == [IdleCall EXCEPT !.song = s, !.given = given]
<1>1. s \in Songs \cup {NoSong} /\ IdleCall \in CallType
  BY IdleType
<1>2. c \in CallType
  BY <1>1, Zenon DEF CallType
<1> QED
  BY <1>2 DEF IdleCall

\* audio.play() of a call that only waits to hear how it went.
LEMMA OpensIs ==
  ASSUME NEW p \in PageType, PageHolds(p), Owned(p), NEW t \in Tasks,
         NEW s \in Songs, NEW pc \in {"unpause", "gesture"}, ~p.broken, p.permitted => p.src # NoSong
  PROVE  Holds(Start([p EXCEPT !.calls[t] = [IdleCall EXCEPT !.song = s]], t, pc))
<1> DEFINE c == [IdleCall EXCEPT !.song = s]
           q == [p EXCEPT !.calls[t] = c]
           x == Start(q, t, pc)
<1>1. s \in Songs \cup {NoSong} /\ IdleCall \in CallType
  BY IdleType
<1>2. c \in CallType
  BY <1>1, Zenon DEF CallType
<1>3. c.pc = "idle" /\ c.answer = "none" /\ c.song = s
  BY <1>2 DEF IdleCall
<1> HIDE DEF c
<1>4. q \in PageType /\ PageHolds(q) /\ Owned(q) /\ Rest(q) = Rest(p) /\ q.calls[t] = c
  BY <1>2, <1>3, OpenIs
<1> HIDE DEF q
<1>5. ~q.broken /\ (q.permitted => q.src # NoSong) /\ SongOf(q, t) = s
  BY <1>3, <1>4 DEF Rest, Element, SongOf
<1>6. t \in 0..Calls /\ t # Recovery /\ pc \in Starting /\ pc \notin {"start", "retry", "resume", "revive"}
  BY TaskIs DEF Starting
<1>7. /\ x \in PageType /\ PageHolds(x) /\ Others(q, x, t) /\ At(x, t) = pc
      /\ x.retry = q.retry /\ x.loaded = q.loaded /\ x.loader = q.loader /\ x.current = q.current
  BY <1>4, <1>5, <1>6, StartIs
<1> HIDE DEF x
<1>8. At(x, t) \notin {"resolve", "element"}
  BY <1>7
<1>9. Owned(x)
  BY <1>4, <1>6, <1>7, <1>8, OwnedKeeps
<1> QED
  BY <1>7, <1>9 DEF Holds, x, q, c

LEMMA BareHolds ==
  ASSUME NEW p \in PageType, PageHolds(p), Owned(p), NEW t \in Tasks, NEW s \in Songs,
         NEW given \in BOOLEAN, FreeRequests(p) # {}
  PROVE  Holds(PlayBare(p, t, s, given))
BY PlayBareIs DEF Holds, Onward

\* primeAutoplay, on a page that may play.
LEMMA PrimeHolds ==
  ASSUME NEW p \in PageType, PageHolds(p), Owned(p), p.permitted, NEW t \in Tasks
  PROVE  LET q == Prime(p, t)
         IN  Holds(q) /\ q.src = Silent /\ ~q.broken /\ FreeRequests(q) = FreeRequests(p)
<1> DEFINE a == [Swap(p, Silent) EXCEPT !.held = Silent]
           b == [a EXCEPT !.calls[t] = IdleCall]
           q == Start(b, t, "prime")
<1>1. /\ a \in PageType /\ PageHolds(a) /\ Undisturbed(p, a)
      /\ Cache(a) = Cache(p) /\ Player(a) = Player(p) /\ Sweeping(a) = Sweeping(p)
      /\ Shown(a) = Shown(p)
      /\ a.src = Silent /\ ~a.broken /\ a.permitted = p.permitted
  BY HeldIs, TakenIs
<1>2. Prime(p, t) = q
  BY DEF Prime
<1> HIDE DEF a
<1>3. Owned(a)
  BY <1>1, OwnedStays DEF Player, Shown
<1>4. IdleCall \in CallType /\ IdleCall.pc = "idle" /\ IdleCall.answer = "none"
  BY IdleType DEF IdleCall
<1>5. /\ b \in PageType /\ PageHolds(b) /\ Owned(b) /\ Rest(b) = Rest(a)
      /\ FreeRequests(b) = FreeRequests(a)
  BY <1>1, <1>3, <1>4, OpenIs
<1> HIDE DEF b
<1>6. b.src = Silent /\ ~b.broken /\ b.permitted
  BY <1>1, <1>5 DEF Rest, Element
<1>7. t \in 0..Calls /\ t # Recovery /\ "prime" \in Starting
  BY TaskIs DEF Starting
<1>8. /\ q \in PageType /\ PageHolds(q) /\ Others(b, q, t) /\ At(q, t) = "prime"
      /\ Cache(q) = Cache(b)
      /\ q.retry = b.retry /\ q.loaded = b.loaded /\ q.loader = b.loader /\ q.current = b.current
  BY <1>5, <1>6, <1>7, HeldIs, StartIs
<1>9. q.src = b.src /\ q.broken = b.broken
  BY <1>5, <1>6 DEF Start, Await, PageType
<1> HIDE DEF q
<1>10. Owned(q)
  BY <1>5, <1>7, <1>8, OwnedKeeps
<1>11. FreeRequests(q) = FreeRequests(p)
  BY <1>1, <1>5, <1>8 DEF FreeRequests, Cache
<1> QED
  BY <1>2, <1>6, <1>8, <1>9, <1>10, <1>11 DEF Holds

LEMMA GestureHolds ==
  ASSUME Ready(page), Gesture
  PROVE  Holds(page') /\ moves' = moves + 1
<1> DEFINE s == page.armed
           r == [page EXCEPT !.primed = TRUE, !.permitted = TRUE, !.armed = NoSong]
           t == Any(IdleTasks)
           u == Any(IdleTasks \ {t})
           q == Prime(r, t)
           given == FALSE
           x == Start([q EXCEPT !.calls[u] = [IdleCall EXCEPT !.song = s]], u, "gesture")
           y == PlayBare(q, u, s, given)
<1>0. moves' = moves + 1 /\ Drained /\ t \in Tasks
  BY IdleTaskIs DEF Gesture, Acts
<1>1. /\ page \in PageType /\ PageHolds(page) /\ Owned(page) /\ FreeRequests(page) # {}
  BY ReadyFree DEF Ready
<1>2. \/ s = NoSong /\ page' = q
      \/ s # NoSong /\ IdleTasks \ {t} # {} /\ page' \in {x, y}
  <2>1. CASE s = NoSong
    BY <2>1 DEF Gesture, Acts
  <2>2. CASE s # NoSong
    <3>1. IdleTasks # {t} /\ IdleTasks # {} /\ page' = Retried(q, u, s)
      BY <2>2 DEF Gesture, Acts
    <3>2. IdleTasks \ {t} # {}
      BY <3>1
    <3> HIDE DEF q, u
    <3> QED
      BY <2>2, <3>1, <3>2 DEF Retried
  <2> QED
    BY <2>1, <2>2
<1>3. r \in PageType
  <2> SUFFICES ASSUME NEW p \in PageType
               PROVE  [p EXCEPT !.primed = TRUE, !.permitted = TRUE, !.armed = NoSong] \in PageType
    BY <1>1
  <2>1. TRUE \in BOOLEAN /\ NoSong \in Songs \cup {NoSong}
    OBVIOUS
  <2> QED
    BY <2>1, ZenonT(60) DEF PageType
<1>4. /\ r.calls = page.calls /\ Cache(r) = Cache(page) /\ Player(r) = Player(page)
      /\ r.newest = page.newest /\ r.retry = page.retry /\ r.permitted
      /\ r.held = page.held /\ r.src = page.src /\ r.ready = page.ready
      /\ r.paused = page.paused /\ r.broken = page.broken
  BY <1>1 DEF PageType, Cache, Player
<1> HIDE DEF r
<1>5. ElementHolds(r)
  BY <1>1, <1>4 DEF PageHolds, ElementHolds, Player, At, Answer
<1>6. PageHolds(r) /\ Owned(r) /\ FreeRequests(r) # {}
  <2>1. PageHolds(r)
    BY <1>1, <1>3, <1>4, <1>5, CallsKeep DEF PageHolds
  <2>2. Undisturbed(page, r)
    BY <1>4, UndisturbedSame
  <2> QED
    BY <1>1, <1>3, <1>4, <2>1, <2>2, OwnedStays DEF Player, Cache, FreeRequests
<1>7. Holds(q) /\ q.src = Silent /\ ~q.broken /\ FreeRequests(q) # {}
  BY <1>0, <1>3, <1>4, <1>6, PrimeHolds
<1> HIDE DEF q
<1>8. CASE s = NoSong
  BY <1>0, <1>2, <1>7, <1>8
<1>9. CASE s # NoSong
  <2>1. u \in Tasks
    <3>1. u \in IdleTasks \ {t}
      BY <1>2, <1>9 DEF Any
    <3> QED
      BY <3>1 DEF IdleTasks
  <2>2. s \in Songs /\ given \in BOOLEAN
    BY <1>1, <1>9 DEF PageType
  <2> HIDE DEF u, s, given
  <2>3. Holds(x)
    BY <1>7, <2>1, <2>2, HeldIs, OpensIs DEF Holds
  <2>4. Holds(y)
    BY <1>7, <2>1, <2>2, BareHolds DEF Holds
  <2> QED
    BY <1>0, <1>2, <1>9, <2>3, <2>4
<1> QED
  BY <1>8, <1>9

LEMMA PressHolds ==
  ASSUME Ready(page), NEW s \in Songs, Press(s)
  PROVE  Holds(page') /\ moves' = moves + 1
<1> DEFINE t == Any(IdleTasks)
           none == {}
           x == PlayAtIndex(page, t, s, none)
<1>1. page \in PageType /\ PageHolds(page) /\ FreeRequests(page) # {}
  BY ReadyFree DEF Ready
<1>2. page' = x /\ moves' = moves + 1 /\ IdleTasks # {}
  BY DEF Press, Acts
<1>3. t \in Tasks /\ none \in SUBSET Songs
  BY <1>2, IdleTaskIs
<1> HIDE DEF t, none
<1>4. Onward(page, x, t) /\ Owned(x)
  BY <1>1, <1>3, PlayAtIndexIs
<1> QED
  BY <1>2, <1>4 DEF Holds, Onward

LEMMA PauseHolds ==
  ASSUME NEW p \in PageType, PageHolds(p), Owned(p)
  PROVE  Holds(Pause(p))
<1> DEFINE q == Pause(p)
<1>1. /\ PageHolds(q) /\ Undisturbed(p, q) /\ Player(q) = Player(p) /\ q.retry = p.retry
  BY PauseIs
<1> HIDE DEF q
<1>2. q \in PageType
  BY <1>1 DEF PageHolds
<1>3. Owned(q)
  BY <1>1, <1>2, OwnedStays DEF Player
<1> QED
  BY <1>1, <1>2, <1>3 DEF Holds, q

LEMMA ToggleHolds ==
  ASSUME Ready(page), Toggle
  PROVE  Holds(page') /\ moves' = moves + 1
<1> DEFINE t == Any(IdleTasks)
           s == page.loaded
           u == IF page.current # NoSong THEN page.current ELSE page.index
           given == FALSE
           x == Start([page EXCEPT !.calls[t] = [IdleCall EXCEPT !.song = s]], t, "unpause")
           y == PlayBare(page, t, u, given)
<1>0. Drained /\ moves' = moves + 1
  BY DEF Toggle, Acts
<1>1. /\ page \in PageType /\ PageHolds(page) /\ Owned(page) /\ Resting(page)
      /\ FreeRequests(page) # {}
  BY <1>0, DrainedRests, ReadyFree DEF Ready
<1>2. \/ page' = Pause(page)
      \/ IdleTasks # {} /\ Usable(page) /\ page' = x
      \/ IdleTasks # {} /\ page' = y
  BY DEF Toggle, Acts
<1>3. CASE page' = Pause(page)
  BY <1>0, <1>1, <1>3, PauseHolds
<1>4. CASE IdleTasks # {}
  <2>1. t \in Tasks /\ u \in Songs /\ given \in BOOLEAN
    BY <1>1, <1>4, IdleTaskIs DEF PageType
  <2> HIDE DEF t, u, given
  <2>2. Holds(y)
    BY <1>1, <2>1, BareHolds
  <2>3. Usable(page) => Holds(x)
    <3>1. Usable(page) => s \in Songs /\ ~page.broken /\ page.src # NoSong
      BY <1>1 DEF Usable, PageHolds, ElementHolds, PageType
    <3> HIDE DEF s
    <3> QED
      BY <1>1, <2>1, <3>1, OpensIs
  <2> HIDE DEF x, y
  <2> QED
    BY <1>0, <1>2, <1>3, <2>2, <2>3
<1> QED
  BY <1>2, <1>3, <1>4

LEMMA PausePressHolds ==
  ASSUME Ready(page), PausePress
  PROVE  Holds(page') /\ moves' = moves + 1
<1> DEFINE a == CancelRecovery(page)
           q == [a EXCEPT !.quiet = FALSE]
<1>1. page \in PageType /\ PageHolds(page) /\ Owned(page)
  BY DEF Ready
<1>2. moves' = moves + 1 /\ page' \in {Pause(q), q}
  BY DEF PausePress, Acts
<1>3. a \in PageType /\ PageHolds(a) /\ Owned(a)
  BY <1>1, CancelIs
<1> HIDE DEF a
<1>4. q \in PageType
  <2> SUFFICES ASSUME NEW p \in PageType PROVE [p EXCEPT !.quiet = FALSE] \in PageType
    BY <1>3
  <2> QED
    BY Zenon DEF PageType
<1>5. /\ q.calls = a.calls /\ q.pending = a.pending /\ q.flight = a.flight
      /\ Element(q) = Element(a) /\ q.newest = a.newest /\ q.retry = a.retry
      /\ q.loaded = a.loaded /\ q.finished = a.finished /\ q.loader = a.loader
      /\ q.current = a.current
  BY <1>3 DEF PageType, Element
<1> HIDE DEF q
<1>6. ElementHolds(q)
  BY <1>3, <1>5 DEF PageHolds, ElementHolds, Element, At, Answer
<1>7. PageHolds(q) /\ Stays(a, q)
  BY <1>3, <1>4, <1>5, <1>6, SameHolds
<1>8. Owned(q)
  BY <1>3, <1>4, <1>5, <1>7, OwnedWhere
<1> QED
  BY <1>2, <1>4, <1>7, <1>8, PauseHolds DEF Holds

LEMMA StopPressHolds ==
  ASSUME Ready(page), StopPress
  PROVE  Holds(page') /\ moves' = moves + 1
<1>1. page' = StopPlayer(page) /\ moves' = moves + 1 /\ Drained
  BY DEF StopPress, Acts
<1>2. page \in PageType /\ PageHolds(page) /\ Resting(page)
  BY <1>1, DrainedRests DEF Ready
<1>3. \A u \in 0..Calls : ~(At(page, u) = "buffer" /\ Answer(page, u) = "ok")
  BY <1>2, RestingSpare
<1> QED
  BY <1>1, <1>2, <1>3, StopPlayerIs DEF Holds

LEMMA ReloadHolds ==
  ASSUME Ready(page), Reload
  PROVE  Holds(page') /\ moves' = moves + 1
<1> DEFINE t == Any(IdleTasks)
           s == page.current
           given == TRUE
           quietly == FALSE
           c == [IdleCall EXCEPT !.song = s, !.given = given]
           q == [page EXCEPT !.calls[t] = c]
           x == PlayBare(page, t, s, given)
           y == Load(q, t, s, quietly)
<1>0. Drained /\ moves' = moves + 1 /\ s # NoSong /\ IdleTasks # {}
  BY DEF Reload, Acts
<1>1. /\ page \in PageType /\ PageHolds(page) /\ Owned(page) /\ Resting(page)
      /\ FreeRequests(page) # {}
  BY <1>0, DrainedRests, ReadyFree DEF Ready
<1>2. page' \in {x, y}
  BY DEF Reload, Acts
<1>3. t \in Tasks /\ s \in Songs /\ given \in BOOLEAN /\ quietly \in BOOLEAN
  BY <1>0, <1>1, IdleTaskIs DEF PageType
<1> HIDE DEF t, s, given, quietly
<1>4. Holds(x)
  BY <1>1, <1>3, BareHolds
<1>5. c \in CallType /\ c.pc = "idle" /\ c.answer = "none" /\ c.song = s /\ ~c.auto
  BY <1>3, IdleSong
<1> HIDE DEF c
<1>6. /\ q \in PageType /\ PageHolds(q) /\ q.calls[t] = c /\ Resting(q)
      /\ FreeRequests(q) = FreeRequests(page)
  BY <1>1, <1>3, <1>5, OpenIs
<1> HIDE DEF q
<1>7. /\ SongOf(q, t) = s /\ FreeRequests(q) # {} /\ Alone(q, t)
      /\ t \in 0..Calls /\ t # Recovery
  BY <1>1, <1>3, <1>5, <1>6, RestingSpare, TaskIs DEF SongOf
<1>8. Onward(q, y, t) /\ Owned(y)
  BY <1>3, <1>6, <1>7, LoadIs
<1>9. Holds(y)
  BY <1>8 DEF Holds, Onward
<1> HIDE DEF x, y
<1> QED
  BY <1>0, <1>2, <1>4, <1>9

LEMMA UserHolds ==
  ASSUME Ready(page), User
  PROVE  Holds(page') /\ moves' = moves + 1 /\ Drained
<1>1. Holds(page') /\ moves' = moves + 1
  BY GestureHolds, PressHolds, ToggleHolds, PausePressHolds, StopPressHolds, ReloadHolds DEF User
<1>2. Drained
  BY DEF User, Gesture, Press, Toggle, PausePress, StopPress, Reload, Acts
<1> QED
  BY <1>1, <1>2

LEMMA EventHolds ==
  ASSUME Ready(page), Stream \/ Timers
  PROVE  Occurs(page, page') /\ Drained
<1>1. CASE Stream
  <2>1. Drained
    BY <1>1 DEF Stream, Settle, Expire, Buffered, Sounds, Waits, Stalls, Breaks, Ends, Offline, Online
  <2>2. Occurs(page, page')
    BY <1>1, SettleStep, ExpireStep, BufferedStep, SoundsStep, WaitsStep, StallsStep, BreaksStep,
       EndsStep, OfflineStep, OnlineStep DEF Stream
  <2> QED
    BY <2>1, <2>2
<1>2. CASE Timers
  <2>1. Drained
    BY <1>2 DEF Timers, QuietEnds, RetryFires, BufferTimeout
  <2>2. Occurs(page, page')
    BY <1>2, QuietStep, RetryFiresStep, BufferTimeoutStep DEF Timers
  <2> QED
    BY <2>1, <2>2
<1> QED
  BY <1>1, <1>2

-----------------------------------------------------------------------------
(* The inductive invariant. *)

Counted == online \in BOOLEAN /\ down \in BOOLEAN /\ moves \in 0..Moves /\ faults \in 0..Faults
PlaybackInv == Holds(page) /\ Counted

LEMMA InitIs ==
  ASSUME Init
  PROVE  /\ page.url = [s \in Songs |-> "none"] /\ page.pending = [s \in Songs |-> NoRequest]
         /\ page.flight = [r \in 1..Requests |-> NoSong]
         /\ page.calls = [t \in 0..Calls |-> IdleCall]
         /\ page.held = NoSong /\ page.src = NoSong /\ ~page.ready /\ page.paused /\ ~page.broken
         /\ page.permitted \in BOOLEAN /\ page.loaded = NoSong /\ ~page.finished
         /\ page.current = 0 /\ page.index = 0 /\ page.loader = Nobody /\ page.newest = Nobody
         /\ ~page.quiet /\ ~page.blocked /\ page.armed = NoSong /\ page.failed = {}
         /\ ~page.playing /\ ~page.loading /\ page.retry = NoSong
<1> DEFINE none == [s \in Songs |-> "none"]
           pending == [s \in Songs |-> NoRequest]
           flight == [r \in 1..Requests |-> NoSong]
           calls == [t \in 0..Calls |-> IdleCall]
<1>1. page \in [url : {none}, pending : {pending},
               flight : {flight}, held : {NoSong},
               src : {NoSong}, ready : {FALSE}, paused : {TRUE}, broken : {FALSE},
               permitted : BOOLEAN, primed : {FALSE}, loaded : {NoSong}, finished : {FALSE}, current : {0},
               index : {0}, loader : {Nobody}, newest : {Nobody}, quiet : {FALSE},
               blocked : {FALSE}, armed : {NoSong}, failed : {{}}, playing : {FALSE},
               loading : {FALSE}, retry : {NoSong},
               calls : {calls}]
  BY DEF Init
<1> HIDE DEF none, pending, flight, calls
<1>2. page.url = none /\ page.pending = pending /\ page.flight = flight /\ page.calls = calls
  BY <1>1
<1>3. /\ page.held = NoSong /\ page.src = NoSong /\ ~page.ready /\ page.paused /\ ~page.broken
      /\ page.permitted \in BOOLEAN /\ page.loaded = NoSong /\ ~page.finished
      /\ page.current = 0 /\ page.index = 0 /\ page.loader = Nobody /\ page.newest = Nobody
      /\ ~page.quiet /\ ~page.blocked /\ page.armed = NoSong /\ page.failed = {}
      /\ ~page.playing /\ ~page.loading /\ page.retry = NoSong
  BY <1>1
<1> QED
  BY <1>2, <1>3 DEF none, pending, flight, calls

LEMMA InitType ==
  ASSUME Init
  PROVE  page \in PageType
<1>1. 0 \in Songs
  BY PlaybackAssumption DEF PlaybackAssumption, Songs
<1> DEFINE none == [s \in Songs |-> "none"]
           pending == [s \in Songs |-> NoRequest]
           flight == [r \in 1..Requests |-> NoSong]
           calls == [t \in 0..Calls |-> IdleCall]
<1>2. /\ {none} \subseteq [Songs -> {"none", "fresh", "expired"}]
      /\ {pending} \subseteq [Songs -> 0..Requests]
      /\ {flight} \subseteq [1..Requests -> Songs \cup {NoSong}]
      /\ {calls} \subseteq [0..Calls -> CallType]
  BY IdleType, NoWait
<1>3. /\ {NoSong} \subseteq Songs \cup {NoSong} /\ {NoSong} \subseteq Songs \cup {NoSong, Silent}
      /\ {0} \subseteq Songs \cup {NoSong}
      /\ {0} \subseteq Songs /\ {{}} \subseteq SUBSET Songs
      /\ {Nobody} \subseteq (0..Calls) \cup {Nobody} /\ {Nobody} \subseteq Tasks \cup {Nobody}
      /\ {TRUE} \subseteq BOOLEAN /\ {FALSE} \subseteq BOOLEAN
  BY <1>1
<1>4. page \in [url : {none}, pending : {pending},
               flight : {flight}, held : {NoSong},
               src : {NoSong}, ready : {FALSE}, paused : {TRUE}, broken : {FALSE},
               permitted : BOOLEAN, primed : {FALSE}, loaded : {NoSong}, finished : {FALSE}, current : {0},
               index : {0}, loader : {Nobody}, newest : {Nobody}, quiet : {FALSE},
               blocked : {FALSE}, armed : {NoSong}, failed : {{}}, playing : {FALSE},
               loading : {FALSE}, retry : {NoSong},
               calls : {calls}]
  BY DEF Init
<1> HIDE DEF none, pending, flight, calls
<1> QED
  BY <1>2, <1>3, <1>4, ZenonT(60) DEF PageType

\* The window opens with every call idle and the element empty.
LEMMA InitHolds ==
  ASSUME Init
  PROVE  PlaybackInv
<1>1. page \in PageType
  BY InitType
<1>2. \A t \in 0..Calls : page.calls[t] = IdleCall
  BY InitIs
<1>3. \A t \in 0..Calls : At(page, t) = "idle" /\ Answer(page, t) = "none" /\ ~page.calls[t].auto
  BY <1>2 DEF At, Answer, IdleCall
<1>4. \A s \in Songs : page.pending[s] = NoRequest
  BY InitIs
<1>5. CallsHold(page) /\ CacheHolds(page) /\ ElementHolds(page) /\ SpareHolds(page)
  BY <1>3, <1>4, InitIs, HeldIs DEF CallsHold, CallHolds, CacheHolds, ElementHolds, SpareHolds, Starting
<1>6. Owned(page)
  BY InitIs DEF Owned, OwnerHolds, RecoveryHolds, Nobody, Recovery
<1>7. Counted
  BY PlaybackAssumption DEF PlaybackAssumption, Init, Counted
<1> QED
  BY <1>1, <1>5, <1>6, <1>7 DEF PlaybackInv, Holds, PageHolds

LEMMA RoomReady ==
  ASSUME PlaybackInv, Room
  PROVE  Ready(page)
BY DEF PlaybackInv, Holds, Room, Ready, Left

LEMMA Counts ==
  ASSUME Counted, NEW p, Becomes(p) \/ Suffers(p) \/ Acts(p)
  PROVE  Counted'
BY PlaybackAssumption DEF PlaybackAssumption, Counted, Becomes, Suffers, Acts

LEMMA CountedKept ==
  ASSUME PlaybackInv, Next
  PROVE  Counted'
<1>0. Ready(page) /\ Counted
  BY RoomReady DEF Next, PlaybackInv
<1>1. CASE Microtasks
  BY <1>0, <1>1, MicrotaskStep DEF Counted
<1>2. CASE Offline \/ Online
  <2>1. /\ UNCHANGED <<down, moves>> /\ online' \in BOOLEAN
        /\ faults' = faults \/ (faults < Faults /\ faults' = faults + 1)
    BY <1>2, Zenon DEF Offline, Online
  <2> QED
    BY <1>0, <2>1, PlaybackAssumption DEF PlaybackAssumption, Counted
<1>3. CASE Stream /\ ~Offline /\ ~Online
  <2>1. \E p : Becomes(p) \/ Suffers(p)
    BY <1>3 DEF Stream, Settle, Expire, Buffered, Sounds, Waits, Stalls, Breaks, Ends
  <2> QED
    BY <1>0, <2>1, Counts
<1>4. CASE Timers
  <2>1. \E p : Becomes(p) \/ Suffers(p)
    BY <1>4 DEF Timers, QuietEnds, RetryFires, BufferTimeout
  <2> QED
    BY <1>0, <2>1, Counts
<1>5. CASE User
  <2>1. \E p : Acts(p)
    BY <1>5 DEF User, Gesture, Press, Toggle, PausePress, StopPress, Reload
  <2> QED
    BY <1>0, <2>1, Counts
<1> QED
  BY <1>1, <1>2, <1>3, <1>4, <1>5 DEF Next

LEMMA NextHolds ==
  ASSUME PlaybackInv, [Next]_vars
  PROVE  PlaybackInv'
<1>1. CASE Next
  <2>1. Ready(page)
    BY <1>1, RoomReady DEF Next
  <2>2. Holds(page')
    <3>1. Microtasks => Holds(page')
      BY <2>1, MicrotaskStep DEF Continues, Drives, Onward, Holds
    <3>2. (Stream \/ Timers) => Holds(page')
      BY <2>1, EventHolds DEF Occurs, Holds
    <3>3. User => Holds(page')
      BY <2>1, UserHolds
    <3> QED
      BY <1>1, <3>1, <3>2, <3>3 DEF Next
  <2> QED
    BY <1>1, <2>2, CountedKept DEF PlaybackInv
<1>2. CASE UNCHANGED vars
  BY <1>2 DEF vars, PlaybackInv, Counted
<1> QED
  BY <1>1, <1>2

\* What a page that holds shows: LatestOwns and NothingHangs.
LEMMA HoldsSafe ==
  ASSUME PlaybackInv
  PROVE  PlaybackSafe
<1>1. page \in PageType /\ PageHolds(page) /\ Owned(page) /\ DOMAIN page.calls = 0..Calls
  BY DEF PlaybackInv, Holds, PageType
<1>2. TypeOK
  BY <1>1 DEF PlaybackInv, Counted, TypeOK
<1>3. LatestOwns
  <2>1. page.loader # Nobody => page.loader \in 0..Calls
    BY <1>1 DEF PageType
  <2> QED
    BY <1>1, <2>1 DEF LatestOwns, Owned, OwnerHolds
<1>4. NothingHangs
  <2> SUFFICES ASSUME NEW t \in 0..Calls, ~Answered(t)
               PROVE  /\ At(page, t) \in {"resolve", "element"}
                           => /\ page.calls[t].wait # NoRequest
                              /\ page.flight[page.calls[t].wait] = SongOf(page, t)
                      /\ At(page, t) \in Starting => ~page.paused /\ page.src # NoSong
    BY <1>1 DEF NothingHangs
  <2>1. At(page, t) = "idle" \/ Answer(page, t) = "none"
    BY DEF Answered
  <2>2. At(page, t) = "idle" => At(page, t) \notin {"resolve", "element"} \cup Starting
    BY DEF Starting
  <2> QED
    BY <1>1, <2>1, <2>2 DEF PageHolds, CacheHolds, ElementHolds
<1> QED
  BY <1>2, <1>3, <1>4 DEF PlaybackSafe

LEMMA PlaybackInvariant == Spec => []PlaybackInv
<1>1. Init => PlaybackInv
  BY InitHolds
<1>2. PlaybackInv /\ [Next]_vars => PlaybackInv'
  BY NextHolds
<1> QED
  BY <1>1, <1>2, PTL DEF Spec

-----------------------------------------------------------------------------
(* The theorems. *)

\* The track on screen is the one the newest load was for, and no call waits for a
\* resolve or a start that will not come (cache.ts, audio.ts).
THEOREM PlaybackSafety == Spec => []PlaybackSafe
<1>1. PlaybackInv => PlaybackSafe
  BY HoldsSafe
<1> QED
  BY <1>1, PlaybackInvariant, PTL

\* An answered call is changed only by its own continuation.
LEMMA AnsweredMoves ==
  ASSUME PlaybackInv, Next, NEW t \in Tasks, Answered(t), page'.calls[t] # page.calls[t]
  PROVE  Drives(page, page', t)
<1>1. Ready(page) /\ t \in 0..Calls /\ DOMAIN page.calls = 0..Calls
  BY RoomReady, TaskIs DEF Next, Ready, PageType
<1>2. ~Drained
  BY <1>1 DEF Drained
<1>3. Microtasks
  BY <1>1, <1>2, EventHolds, UserHolds DEF Next
<1>4. PICK u \in 0..Calls : Continues(page, page', u)
  BY <1>1, <1>3, MicrotaskStep
<1>5. u = t
  BY <1>1, <1>4 DEF Continues, Drives, Onward, Others, Leaves, Answered
<1> QED
  BY <1>4, <1>5 DEF Continues

\* A play() that a newer one has superseded loads nothing more and leaves the queue
\* where it is, unless it was resuming (superseded() in audio.ts).
THEOREM PlaybackNewestDrives == Spec => NewestDrives
<1> DEFINE Step == \A t \in Tasks :
        Answered(t) /\ At(page, t) # "resume" /\ page'.calls[t] # page.calls[t] /\ page'.newest # t
        => page'.index = page.index /\ (page'.loader = t => page.loader = t)
<1>1. PlaybackInv /\ [Next]_vars => [Step]_vars
  <2> SUFFICES ASSUME PlaybackInv, Next, NEW t \in Tasks, Answered(t), At(page, t) # "resume",
                      page'.calls[t] # page.calls[t], page'.newest # t
               PROVE  page'.index = page.index /\ (page'.loader = t => page.loader = t)
    OBVIOUS
  <2> QED
    BY AnsweredMoves DEF Drives
<1> QED
  BY <1>1, PlaybackInvariant, PTL DEF Spec, NewestDrives

\* A sweep never takes the queue to a track it has already given up on (playAtIndex
\* in player.ts).
THEOREM PlaybackTriedOnce == Spec => TriedOnce
<1> DEFINE Step == \A t \in Tasks :
        Answered(t) /\ page'.index # page.index /\ page'.calls[t] # page.calls[t]
        => page'.index \notin page.calls[t].tried
<1>1. PlaybackInv /\ [Next]_vars => [Step]_vars
  <2> SUFFICES ASSUME PlaybackInv, Next, NEW t \in Tasks, Answered(t),
                      page'.index # page.index, page'.calls[t] # page.calls[t]
               PROVE  page'.index \notin page.calls[t].tried
    OBVIOUS
  <2> QED
    BY AnsweredMoves DEF Drives
<1> QED
  BY <1>1, PlaybackInvariant, PTL DEF Spec, TriedOnce

\* A recovery under way is not dropped by a failed attempt: it ends in sound, or
\* because the user acted or another load took the element over (recover in audio.ts).
THEOREM PlaybackRecovery == Spec => OnlySoundEndsRecovery
<1> DEFINE Step == Recovering(page) /\ ~Recovering(page')
        => \/ Heard(page') \/ moves' # moves
           \/ At(page, Recovery) = "revive" /\ Answer(page, Recovery) = "ok"
           \/ page'.loader # Recovery
           \/ \E t \in Tasks : page'.newest = t /\ page'.calls[t] # page.calls[t]
<1>1. PlaybackInv /\ [Next]_vars => [Step]_vars
  <2> SUFFICES ASSUME PlaybackInv, Next, Recovering(page), ~Recovering(page') PROVE Step
    OBVIOUS
  <2>1. Ready(page)
    BY RoomReady DEF Next
  <2>2. CASE Microtasks
    <3>1. PICK u \in 0..Calls : Continues(page, page', u)
      BY <2>1, <2>2, MicrotaskStep
    <3>2. At(page', Recovery) = "idle" /\ page'.retry = NoSong
      BY DEF Recovering
    <3>3. CASE u = Recovery
      BY <3>1, <3>2, <3>3 DEF Continues
    <3>4. CASE u # Recovery
      <4>1. u \in Tasks /\ Recovery \in 0..Calls /\ Recovery # u
        BY <3>4, PlaybackAssumption DEF PlaybackAssumption, Tasks, Recovery
      <4>2. Leaves(page, page', Recovery)
        BY <3>1, <4>1 DEF Continues, Drives, Onward, Others
      <4>3. page.retry # NoSong
        BY <3>2, <4>2 DEF Leaves, Recovering
      <4> QED
        BY <3>1, <3>2, <4>1, <4>3 DEF Continues, Drives, Nobody, Recovery
    <3> QED
      BY <3>3, <3>4
  <2>3. CASE Stream \/ Timers
    BY <2>1, <2>3, EventHolds DEF Occurs
  <2>4. CASE User
    BY <2>1, <2>4, UserHolds, PlaybackAssumption DEF PlaybackInv, Counted, PlaybackAssumption
  <2> QED
    BY <2>2, <2>3, <2>4 DEF Next
<1> QED
  BY <1>1, PlaybackInvariant, PTL DEF Spec, OnlySoundEndsRecovery

=============================================================================
