------------------------------- MODULE Playback -------------------------------
(***************************************************************************)
(* The player of one window: a single media element shared by every track, *)
(* the cache of resolved streams in front of it (cache.ts), the loads, the *)
(* play() calls with their ladder of retries and the recovery of a dead    *)
(* stream (audio.ts), and the sweep over a queue whose tracks fail         *)
(* (player.ts).                                                            *)
(*                                                                         *)
(* A song is its position in the queue.  Every async function is a call    *)
(* that stops at its awaits: the calls 1..Calls are runs of play(),        *)
(* resume(), reloadCurrent() and of the two listeners of the first         *)
(* gesture, call 0 is recover().  What an await hands                      *)
(* back is put in the call's "answer" and read by a later step, which is   *)
(* where another call can slip in between.                                 *)
(***************************************************************************)
EXTENDS Integers, FiniteSets

CONSTANTS Last,      \* the last position of the queue
          Calls,     \* how many play() and resume() calls may overlap
          Requests,  \* how many resolves may be on their way at once
          Moves,     \* how many times the user acts
          Faults,    \* how many times the network or the element misbehaves
          Repeat     \* the repeat mode: "off", "all" or "one"

ASSUME PlaybackAssumption ==
  /\ Last \in Nat /\ Calls \in Nat \ {0} /\ Requests \in Nat \ {0}
  /\ Moves \in Nat /\ Faults \in Nat
  /\ Repeat \in {"off", "all", "one"}

VARIABLES page,    \* the state of the modules and of the element, a record
          online,  \* navigator.onLine
          down,    \* the backend resolves nothing at all
          moves,   \* how many times the user has acted
          faults   \* how many times something has gone wrong

vars == <<page, online, down, moves, faults>>

Songs == 0..Last
NoSong == -1
Silent == -2   \* the clip that is played to be granted autoplay
Recovery == 0
Tasks == 1..Calls
Nobody == -1
NoRequest == 0

Any(S) == CHOOSE x \in S : TRUE

-----------------------------------------------------------------------------
(* Awaits and their answers. *)

\* The calls that wait for the promise of an element's play().
Starting == {"start", "retry", "resume", "revive", "unpause", "gesture", "prime"}

\* The steps of play() between recovering++ and recovering--.
Laddered == {"resolve", "element", "buffer", "start", "retry"}

IdleCall == [pc |-> "idle", song |-> NoSong, rung |-> 0, given |-> FALSE, auto |-> FALSE,
             tried |-> {}, sweeps |-> FALSE, wait |-> NoRequest, answer |-> "none"]

At(p, t) == p.calls[t].pc
SongOf(p, t) == p.calls[t].song
Answer(p, t) == p.calls[t].answer

\* Every call that stops at one of pcs, and has no answer yet, gets one.
Tell(p, pcs, answer) ==
  [p EXCEPT !.calls = [t \in DOMAIN @ |-> IF @[t].pc \in pcs /\ @[t].answer = "none"
                                          THEN [@[t] EXCEPT !.answer = answer]
                                          ELSE @[t]]]

Await(p, t, pc, answer) ==
  [p EXCEPT !.calls[t] = [@ EXCEPT !.pc = pc, !.answer = answer, !.wait = NoRequest]]

\* token !== loadToken: a newer load has begun, or the player was stopped.
TokenLostNever(p, t) == FALSE   \* mutated: the load goes on all the same
TokenLost(p, t) == p.loader # t

\* superseded(): a newer play() has begun.
SupersededNever(p, t) == FALSE   \* mutated: every play() takes itself for the newest
Superseded(p, t) == p.newest # t

Finish(p, t) == [p EXCEPT !.calls[t] = IdleCall]

-----------------------------------------------------------------------------
(* The shared element. *)

\* audio.pause(): the promises of play() still open are aborted.
Silence(p) == IF p.paused THEN p ELSE Tell([p EXCEPT !.paused = TRUE], Starting, "abort")

\* onpause, when the module still holds the element.
Pause(p) == LET q == Silence(p)
            IN  IF p.paused \/ p.loaded = NoSong \/ p.quiet THEN q
                ELSE [q EXCEPT !.playing = FALSE]

\* player.src = ..., player.load(): whatever played or was about to is over.
Swap(p, s) ==
  [Tell(p, Starting, "abort") EXCEPT !.src = s, !.paused = TRUE, !.ready = FALSE,
                                     !.broken = FALSE]

DropBuffers(p) == [Swap(p, NoSong) EXCEPT !.held = NoSong]

Release(p) == [Silence(p) EXCEPT !.held = NoSong]

\* audio.play() by call t, which then waits at pc.  Without user activation the
\* browser refuses; a broken element cannot start; onplay runs otherwise.
Start(p, t, pc) ==
  IF ~p.permitted THEN Await(p, t, pc, "denied")
  ELSE IF p.broken THEN Await(p, t, pc, "failed")
  ELSE Await(IF p.paused /\ p.loaded # NoSong
             THEN [p EXCEPT !.paused = FALSE, !.quiet = FALSE, !.finished = FALSE, !.playing = TRUE]
             ELSE [p EXCEPT !.paused = FALSE],
             t, pc, "none")

\* The element holds a usable stream of what audio.ts last attached.
Usable(p) == p.loaded # NoSong /\ ~p.broken /\ ~p.finished

HasLoaded(p, s) == p.loaded = s /\ Usable(p)

-----------------------------------------------------------------------------
(* The cache of resolved streams. *)

Remove(p, s) ==
  [p EXCEPT !.url[s] = "none", !.pending[s] = NoRequest, !.held = NoSong]

FreeRequests(p) == {r \in DOMAIN p.flight : p.flight[r] = NoSong}

\* AudioCache.get: a fresh link at once, the request already under way, or a
\* request of its own.  wait = NoRequest and answer "ok" mean a hit.
Asked(p, s) ==
  LET q == IF p.url[s] = "expired" THEN Remove(p, s) ELSE p
  IN  IF q.url[s] = "fresh" \/ q.pending[s] # NoRequest THEN q
      ELSE LET r == Any(FreeRequests(q))
           IN  [q EXCEPT !.flight[r] = s, !.pending[s] = r]

Fetch(p, t, s, pc) ==
  LET q == Asked(p, s)
      hit == q.url[s] = "fresh"
  IN  [q EXCEPT !.calls[t] = [@ EXCEPT !.pc = pc, !.answer = IF hit THEN "ok" ELSE "none",
                                       !.wait = IF hit THEN NoRequest ELSE q.pending[s]]]

\* preloadUpcomingSongs: the next links, warmed and waited for by nobody.
Warm(p, s) == IF s \in Songs THEN Asked(p, s) ELSE p
Preload(p, s) == Warm(Warm(Warm(Warm(p, s + 1), s + 2), s + 3), s + 4)

\* The bound on resolves under way: what one step may ask for still fits.
Room == Cardinality(FreeRequests(page)) >= 4

-----------------------------------------------------------------------------
(* Loads, the ladder and the recovery: the synchronous part of each. *)

MarkStopped(p) == IF p.quiet THEN p ELSE [p EXCEPT !.loading = FALSE, !.playing = FALSE]

\* loadSongIntoPlayer up to its first await.
Load(p, t, s, quietly) ==
  LET a == IF p.finished THEN Release(p) ELSE p
      b == IF a.loaded # NoSong THEN [Silence(a) EXCEPT !.loaded = NoSong] ELSE a
      c == [b EXCEPT !.loader = t, !.quiet = quietly, !.finished = FALSE, !.current = s,
                     !.loading = ~quietly \/ b.loading]
  IN  Fetch(c, t, s, "resolve")

Rung(p, t, k) == Load([p EXCEPT !.calls[t].rung = k], t, SongOf(p, t), FALSE)

CancelRecovery(p) == [p EXCEPT !.retry = NoSong]

StopPlayer(p) ==
  LET q == CancelRecovery(p)
      silent == IF q.loaded # NoSong THEN Silence(q) ELSE q
  IN  [DropBuffers(silent) EXCEPT !.loader = Nobody, !.quiet = FALSE, !.finished = FALSE,
                                  !.loaded = NoSong, !.current = NoSong,
                                  !.playing = FALSE, !.loading = FALSE]

\* play(song, start): resumes an element that holds the song when no position is
\* asked for, and climbs the ladder otherwise.
Play(p, t, call) ==
  LET q == [CancelRecovery(p) EXCEPT !.newest = t, !.blocked = FALSE, !.calls[t] = call]
  IN  IF ~call.given /\ HasLoaded(q, call.song) THEN Start(q, t, "resume")
      ELSE Rung(q, t, 1)

\* playAtIndex from its start to play(); tried are the tracks the sweep gave up on.
PlayAtIndex(p, t, s, tried) ==
  Play([p EXCEPT !.index = s, !.current = s], t,
       [IdleCall EXCEPT !.song = s, !.given = HasLoaded(p, s), !.auto = TRUE,
                        !.tried = tried, !.sweeps = TRUE])

\* play() outside playAtIndex: nothing sweeps on when it fails.
PlayBare(p, t, s, given) ==
  Play(p, t, [IdleCall EXCEPT !.song = s, !.given = given, !.auto = TRUE])

\* The next track of the queue this sweep has not given up on, winding around.
UntriedAny(from, tried) == Songs \ {from}   \* mutated: forgets what was tried
Untried(from, tried) == Songs \ (tried \cup {from})
NextUntried(from, tried) ==
  LET distance(s) == (s - from) % (Last + 1)
  IN  CHOOSE s \in Untried(from, tried) : \A u \in Untried(from, tried) : distance(s) <= distance(u)

Pick(i) ==
  IF Repeat = "one" THEN i
  ELSE IF i + 1 <= Last THEN i + 1
  ELSE IF Repeat = "all" THEN 0 ELSE NoSong

\* What playAtIndex does once play() has returned "ok" or "failed".
Succeed(p, t) ==
  LET s == SongOf(p, t)
      q == Finish([p EXCEPT !.failed = @ \ {s}], t)
  IN  IF p.calls[t].sweeps /\ p.index = s THEN Preload(q, s) ELSE q

Sweep(p, t) ==
  LET s == SongOf(p, t)
      tried == p.calls[t].tried \cup {s}
      q == Finish(p, t)
  IN  IF ~p.calls[t].sweeps \/ p.index # s \/ p.blocked THEN q
      ELSE IF Untried(s, tried) = {} THEN StopPlayer(q)
      ELSE PlayAtIndex(q, t, NextUntried(s, tried), tried)

\* blocked(): the song is fine, the page waits for a gesture.
Block(p, t) ==
  LET s == SongOf(p, t)
  IN  Sweep([p EXCEPT !.blocked = TRUE, !.failed = p.failed \ {s},
                      !.armed = IF p.armed = NoSong THEN s ELSE p.armed], t)

Spent(p, t) == p.calls[t].rung = 3

\* The load of rung k has failed: retry the element, rebuild it, ask for a fresh
\* stream, give the song up.
Escalate(p, t) ==
  LET s == SongOf(p, t)
      k == p.calls[t].rung
  IN  IF Superseded(p, t) THEN Finish(p, t)
      ELSE IF Spent(p, t) THEN Sweep([p EXCEPT !.failed = @ \cup {s}], t)
      ELSE IF p.blocked THEN Block(p, t)
      ELSE IF k = 2 THEN Rung(Remove(p, s), t, 3)
      ELSE IF HasLoaded(p, s) THEN Start(p, t, "retry")
      ELSE Rung(Release(p), t, k + 1)

ScheduleRecovery(p, s) == [p EXCEPT !.retry = IF @ = NoSong THEN s ELSE @]

\* recover() up to its first await.
Recover(p, connected) ==
  IF At(p, Recovery) # "idle" \/ p.current = NoSong THEN p
  ELSE IF ~connected THEN ScheduleRecovery(p, p.current)
  ELSE Load(Remove([p EXCEPT !.calls[Recovery] = [IdleCall EXCEPT !.song = p.current]],
                   p.current), Recovery, p.current, TRUE)

RequestRecovery(p) == IF p.retry # NoSong THEN p ELSE Recover(p, online)

\* A load ends: recover() and reloadCurrent() end with it, play() goes on.
GiveUpSilently(p, t) == Finish(p, t)   \* mutated: a failed attempt is the last one
GiveUp(p, t) ==
  IF t = Recovery THEN Finish(ScheduleRecovery(p, SongOf(p, t)), t) ELSE Finish(p, t)

FailLoad(p, t) == IF p.calls[t].auto THEN Escalate(p, t) ELSE GiveUp(p, t)

-----------------------------------------------------------------------------
(* Continuations.  A promise that settles runs its continuations before the  *)
(* page takes the next event, in an order this model leaves open.            *)

Answered(t) == At(page, t) # "idle" /\ Answer(page, t) # "none"

Drained == \A t \in DOMAIN page.calls : ~Answered(t)

Becomes(p) == page' = p /\ UNCHANGED <<online, down, moves, faults>>

Suffers(p) == faults < Faults /\ faults' = faults + 1 /\ page' = p /\ UNCHANGED <<online, down, moves>>

\* await AudioCache.get(song), the first of the two.
ResolveDone(t) ==
  /\ At(page, t) = "resolve" /\ Answered(t)
  /\ Becomes(IF Answer(page, t) = "ok" THEN Fetch(page, t, SongOf(page, t), "element")
             ELSE IF TokenLost(page, t) THEN GiveUp(page, t)
             ELSE FailLoad(MarkStopped(page), t))

\* Play through the attached element, or wait for enough of it first.
Attach(p, t) ==
  LET q == [p EXCEPT !.loaded = SongOf(p, t)]
      ready == IF p.ready THEN "ok" ELSE "none"
  IN  IF ~p.calls[t].auto
      THEN Await(IF q.quiet THEN q ELSE [q EXCEPT !.playing = FALSE], t, "buffer", ready)
      ELSE IF p.calls[t].given THEN Await(q, t, "buffer", ready)
      ELSE Start(q, t, "start")

\* AudioCache.getAudioElement, once it has the link: the one element takes the
\* song's stream unless it holds it already.
GetElement(p, s) ==
  IF p.held # s \/ p.broken THEN [Swap(p, s) EXCEPT !.held = s] ELSE p

\* await AudioCache.getAudioElement(song): the element takes the song's stream
\* before the load learns that it was superseded.
ElementDone(t) ==
  LET s == SongOf(page, t)
      swapped == GetElement(page, s)
  IN  /\ At(page, t) = "element" /\ Answered(t)
      /\ Becomes(IF Answer(page, t) = "ok"
                 THEN IF TokenLost(page, t) THEN GiveUp(swapped, t) ELSE Attach(swapped, t)
                 ELSE IF TokenLost(page, t) THEN GiveUp(page, t)
                 ELSE FailLoad(MarkStopped(page), t))

\* await waitUntilBufferedEnough(instance).  recover() seeks and plays here.
BufferDone(t) ==
  /\ At(page, t) = "buffer" /\ Answered(t)
  /\ Becomes(IF Answer(page, t) # "ok" THEN FailLoad(MarkStopped(page), t)
             ELSE IF page.calls[t].auto THEN Start(page, t, "start")
             ELSE IF TokenLost(page, t) THEN GiveUp(page, t)
             ELSE LET q == IF page.quiet THEN page ELSE [page EXCEPT !.loading = FALSE]
                  IN  IF t = Recovery THEN Start(q, t, "revive") ELSE Finish(q, t))

\* await instance.play() of a load.  An abort by the page itself counts as a start.
StartDone(t) ==
  LET answer == Answer(page, t)
      q == IF answer = "denied" THEN [page EXCEPT !.blocked = TRUE] ELSE page
  IN  /\ At(page, t) = "start" /\ Answered(t)
      /\ Becomes(IF TokenLost(page, t)
                 THEN Finish(IF answer = "ok" THEN Pause(page) ELSE page, t)
                 ELSE IF answer \in {"denied", "failed"} THEN Escalate(MarkStopped(q), t)
                 ELSE IF Superseded(page, t) THEN Finish(page, t)
                 ELSE Succeed(IF answer = "ok" THEN [page EXCEPT !.playing = TRUE] ELSE page, t))

\* await audio.play() of retryElement.
RetryDone(t) ==
  LET answer == Answer(page, t)
      q == IF answer = "denied" THEN [page EXCEPT !.blocked = TRUE] ELSE page
  IN  /\ At(page, t) = "retry" /\ Answered(t)
      /\ Becomes(IF answer = "ok" THEN Succeed([page EXCEPT !.playing = TRUE], t)
                 ELSE IF Superseded(page, t) THEN Finish(page, t)
                 ELSE IF q.blocked THEN Block(q, t)
                 ELSE Rung(Release(q), t, 2))

\* await audio.play() of play() itself, over an element that held the song.
ResumeDone(t) ==
  LET answer == Answer(page, t)
  IN  /\ At(page, t) = "resume" /\ Answered(t)
      /\ Becomes(IF answer = "denied" THEN Block(page, t)
                 ELSE IF answer # "ok" THEN Rung(page, t, 1)
                 ELSE IF page.loaded # SongOf(page, t) THEN Finish(page, t)
                 ELSE Succeed([page EXCEPT !.playing = TRUE], t))

\* await audio.play() of recover().
ReviveDone ==
  /\ At(page, Recovery) = "revive" /\ Answered(Recovery)
  /\ Becomes(IF Answer(page, Recovery) = "ok"
             THEN Finish([page EXCEPT !.failed = @ \ {SongOf(page, Recovery)}], Recovery)
             ELSE GiveUp(page, Recovery))

\* await audio.play() of resume(): anything but an abort falls back to play().
UnpauseDone(t) ==
  /\ At(page, t) = "unpause" /\ Answered(t)
  /\ Becomes(IF Answer(page, t) \in {"ok", "abort"} THEN Finish(page, t)
             ELSE PlayBare(page, t, IF page.current # NoSong THEN page.current ELSE page.index,
                           FALSE))

\* The gesture armRecovery waited for: audio.play() of the song it was armed for.
GestureDone(t) ==
  /\ At(page, t) = "gesture" /\ Answered(t)
  /\ Becomes(IF Answer(page, t) = "ok"
             THEN Finish([page EXCEPT !.playing = TRUE, !.failed = page.failed \ {SongOf(page, t)}], t)
             ELSE Finish(page, t))

\* The silent clip has started: it is paused, whatever else waits to play it.
\* What that does to the page comes after every other answer.
PrimeDone(t) ==
  /\ At(page, t) = "prime" /\ Answered(t)
  /\ \A u \in DOMAIN page.calls \ {t} : ~Answered(u)
  /\ Becomes(IF Answer(page, t) = "ok" THEN Finish(Pause(page), t) ELSE Finish(page, t))

Continue(t) ==
  \/ ResolveDone(t) \/ ElementDone(t) \/ BufferDone(t) \/ StartDone(t) \/ RetryDone(t)
  \/ ResumeDone(t) \/ UnpauseDone(t) \/ GestureDone(t) \/ PrimeDone(t)

-----------------------------------------------------------------------------
(* What the backend, the network and the element do. *)

\* A resolve settles.  Its finally forgets whatever request the song has by then.
Settled(p, r, good) ==
  LET s == p.flight[r]
      kept == [p EXCEPT !.flight[r] = NoSong, !.pending[s] = NoRequest,
                        !.url[s] = IF good THEN "fresh" ELSE p.url[s],
                        !.held = IF good /\ p.held = s THEN NoSong ELSE p.held]
      answer == IF good THEN "ok" ELSE "failed"
  IN  [kept EXCEPT !.calls = [t \in DOMAIN @ |->
         IF @[t].pc \in {"resolve", "element"} /\ @[t].wait = r
         THEN [@[t] EXCEPT !.answer = answer, !.wait = NoRequest] ELSE @[t]]]

Settle(r, good) ==
  /\ Drained /\ page.flight[r] # NoSong /\ (good => ~down)
  /\ IF good \/ down THEN Becomes(Settled(page, r, good)) ELSE Suffers(Settled(page, r, good))

Expire(s) ==
  /\ Drained /\ page.url[s] = "fresh"
  /\ Suffers([page EXCEPT !.url[s] = "expired"])

\* canplay.
Buffered ==
  /\ Drained /\ page.src # NoSong /\ ~page.ready /\ ~page.broken
  /\ Becomes(Tell([page EXCEPT !.ready = TRUE], {"buffer"}, "ok"))

\* The element advances: the promises of play() resolve, onplaying and timeupdate
\* put the loader out, and the end watch drops a reload a stall had scheduled.
Sounds ==
  /\ Drained /\ page.ready /\ ~page.paused
  /\ \/ page.loaded # NoSong /\ (page.loading \/ page.retry # NoSong)
     \/ \E t \in DOMAIN page.calls : At(page, t) \in Starting
  /\ Becomes(Tell(IF page.loaded = NoSong THEN page
                  ELSE CancelRecovery([page EXCEPT !.loading = FALSE]), Starting, "ok"))

\* onwaiting: the buffer ran dry.
Waits ==
  /\ Drained /\ page.ready
  /\ Suffers([page EXCEPT !.ready = FALSE,
                          !.loading = page.loading \/ (page.loaded # NoSong /\ ~page.paused)])

\* stalled(): the watch has seen no progress for STALL_MS.
Stalls ==
  /\ Drained /\ page.loaded # NoSong /\ ~page.ready /\ ~page.paused
  /\ Becomes(RequestRecovery(page))

\* onerror: the link is forgotten, and the stream recovered unless a ladder of
\* play() runs; a load of recover() or of a paused reload is none.
Breaks ==
  LET q == Tell([page EXCEPT !.broken = TRUE, !.ready = FALSE],
                Starting \cup {"buffer"}, "failed")
      lost == [Remove(q, page.loaded) EXCEPT !.loaded = NoSong, !.playing = FALSE,
                                             !.loading = FALSE]
      laddered == \E t \in Tasks : At(page, t) \in Laddered /\ page.calls[t].auto
  IN  /\ Drained /\ page.src # NoSong /\ ~page.broken
      /\ Suffers(IF page.loaded = NoSong THEN q
                 ELSE IF laddered THEN lost ELSE RequestRecovery(lost))

\* waitForPlayable gives up after its timeout.
BufferTimeout(t) ==
  /\ Drained /\ At(page, t) = "buffer"
  /\ IF page.src = NoSong THEN Becomes(Tell(page, {"buffer"}, "failed"))
     ELSE Suffers(Tell(page, {"buffer"}, "failed"))

\* endQuietReload by its timer.
QuietEnds ==
  /\ Drained /\ page.quiet
  /\ Suffers([page EXCEPT !.quiet = FALSE])

\* The backoff of scheduleRecovery is over.
RetryFires ==
  LET q == [page EXCEPT !.retry = NoSong]
  IN  /\ Drained /\ page.retry # NoSong
      /\ Becomes(IF page.current = page.retry THEN Recover(q, online) ELSE q)

IdleTasks == {t \in Tasks : At(page, t) = "idle"}

\* endPlayback, and the next track of the queue.  The silent clip is over at
\* once, before it is paused or after, and ends the track the element was said
\* to hold.
Ends ==
  LET q == [DropBuffers([page EXCEPT !.finished = TRUE]) EXCEPT !.playing = FALSE]
      next == Pick(page.index)
  IN  /\ Drained /\ page.ready /\ page.loaded # NoSong /\ ~page.finished
      /\ ~page.paused \/ page.src = Silent
      /\ IF next = NoSong THEN Becomes(q)
         ELSE /\ IdleTasks # {}
              /\ Becomes(PlayAtIndex(q, Any(IdleTasks), next, {}))

Offline ==
  /\ Drained /\ online /\ faults < Faults
  /\ online' = FALSE /\ faults' = faults + 1 /\ UNCHANGED <<page, down, moves>>

\* The online event cuts the backoff short.
Online ==
  /\ Drained /\ ~online /\ online' = TRUE /\ UNCHANGED <<down, moves, faults>>
  /\ page' = Recover(CancelRecovery(page), TRUE)

-----------------------------------------------------------------------------
(* What the user does. *)

Acts(p) == Drained /\ moves < Moves /\ moves' = moves + 1 /\ page' = p /\ UNCHANGED <<online, down, faults>>

\* primeAutoplay: the element takes the silent clip and plays it, whatever song
\* it holds or waits for.
Prime(p, t) ==
  Start([Swap(p, Silent) EXCEPT !.held = Silent, !.calls[t] = IdleCall], t, "prime")

\* The retry armRecovery has waited with.
Retried(p, t, s) ==
  IF p.loaded = s /\ ~p.broken
  THEN Start([p EXCEPT !.calls[t] = [IdleCall EXCEPT !.song = s]], t, "gesture")
  ELSE PlayBare(p, t, s, FALSE)

\* The first pointerdown or key: it primes the element and is the user's leave to
\* play; an armed retry, registered later, runs after it.  Nothing is refused once
\* the leave is given, so no retry is armed after it.
Gesture ==
  /\ ~page.primed /\ IdleTasks # {}
  /\ LET t == Any(IdleTasks)
         s == page.armed
         q == Prime([page EXCEPT !.primed = TRUE, !.permitted = TRUE, !.armed = NoSong], t)
     IN  IF s = NoSong THEN Acts(q)
         ELSE /\ IdleTasks # {t}
              /\ Acts(Retried(q, Any(IdleTasks \ {t}), s))

\* A row, next or previous: playAt and nextSong, and the same from a remote device.
Press(s) ==
  /\ IdleTasks # {}
  /\ Acts(PlayAtIndex(page, Any(IdleTasks), s, {}))

\* togglePlayPause and resume().
Toggle ==
  IF Usable(page) /\ ~page.paused THEN Acts(Pause(page))
  ELSE /\ IdleTasks # {}
       /\ LET t == Any(IdleTasks)
          IN  Acts(IF Usable(page)
                   THEN Start([page EXCEPT !.calls[t] = [IdleCall EXCEPT !.song = page.loaded]],
                              t, "unpause")
                   ELSE PlayBare(page, t, IF page.current # NoSong THEN page.current
                                          ELSE page.index, FALSE))

\* pause(), of the media session.
PausePress ==
  LET q == [CancelRecovery(page) EXCEPT !.quiet = FALSE]
  IN  Acts(IF Usable(page) THEN Pause(q) ELSE q)

StopPress == Acts(StopPlayer(page))

\* reloadCurrent, after the track was given another stream.
Reload ==
  /\ page.current # NoSong /\ IdleTasks # {}
  /\ LET t == Any(IdleTasks)
         s == page.current
     IN  Acts(IF page.playing THEN PlayBare(page, t, s, TRUE)
              ELSE Load([page EXCEPT !.calls[t] = [IdleCall EXCEPT !.song = s, !.given = TRUE]],
                        t, s, FALSE))

-----------------------------------------------------------------------------
(* The window opens on a queue restored from storage, with no element loaded. *)

Init ==
  /\ page \in [url : {[s \in Songs |-> "none"]}, pending : {[s \in Songs |-> NoRequest]},
               flight : {[r \in 1..Requests |-> NoSong]}, held : {NoSong},
               src : {NoSong}, ready : {FALSE}, paused : {TRUE}, broken : {FALSE},
               permitted : BOOLEAN, primed : {FALSE}, loaded : {NoSong}, finished : {FALSE}, current : {0},
               index : {0}, loader : {Nobody}, newest : {Nobody}, quiet : {FALSE},
               blocked : {FALSE}, armed : {NoSong}, failed : {{}}, playing : {FALSE},
               loading : {FALSE}, retry : {NoSong},
               calls : {[t \in 0..Calls |-> IdleCall]}]
  /\ online = TRUE /\ down \in BOOLEAN /\ moves = 0 /\ faults = 0

User == Gesture \/ (\E s \in Songs : Press(s)) \/ Toggle \/ PausePress \/ StopPress \/ Reload

Stream ==
  \/ \E r \in 1..Requests, good \in BOOLEAN : Settle(r, good)
  \/ \E s \in Songs : Expire(s)
  \/ Buffered \/ Sounds \/ Waits \/ Stalls \/ Breaks \/ Ends
  \/ Offline \/ Online

Timers == QuietEnds \/ RetryFires \/ \E t \in 0..Calls : BufferTimeout(t)

Microtasks == (\E t \in 0..Calls : Continue(t)) \/ ReviveDone

Next == Room /\ (Microtasks \/ Stream \/ Timers \/ User)

Spec == Init /\ [][Next]_vars

-----------------------------------------------------------------------------

CallType ==
  [pc : Laddered \cup Starting \cup {"idle"}, song : Songs \cup {NoSong}, rung : 0..3,
   given : BOOLEAN, auto : BOOLEAN, tried : SUBSET Songs, sweeps : BOOLEAN,
   wait : 0..Requests, answer : {"none", "ok", "failed", "abort", "denied"}]

PageType ==
  [url : [Songs -> {"none", "fresh", "expired"}], pending : [Songs -> 0..Requests],
   flight : [1..Requests -> Songs \cup {NoSong}], held : Songs \cup {NoSong, Silent},
   src : Songs \cup {NoSong, Silent}, ready : BOOLEAN, paused : BOOLEAN, broken : BOOLEAN,
   permitted : BOOLEAN, primed : BOOLEAN, loaded : Songs \cup {NoSong}, finished : BOOLEAN,
   current : Songs \cup {NoSong}, index : Songs, loader : (0..Calls) \cup {Nobody},
   newest : Tasks \cup {Nobody}, quiet : BOOLEAN, blocked : BOOLEAN,
   armed : Songs \cup {NoSong}, failed : SUBSET Songs, playing : BOOLEAN,
   loading : BOOLEAN, retry : Songs \cup {NoSong}, calls : [0..Calls -> CallType]]

\* The type of the page's state.
TypeOK ==
  /\ page \in PageType
  /\ online \in BOOLEAN /\ down \in BOOLEAN /\ moves \in 0..Moves /\ faults \in 0..Faults

\* The song the element is said to hold is the one the newest load was for: a
\* load that was superseded while it waited never becomes the track on screen.
LatestOwns ==
  page.loaded # NoSong => page.loader \in DOMAIN page.calls /\ page.loaded = page.current

\* Once a newer play() has begun, a call that is still climbing its ladder begins
\* no further load and moves the queue to no other track - but for one that the
\* abort of its resume put on the ladder, which does not look.
NewestDrives ==
  [][\A t \in Tasks :
        Answered(t) /\ At(page, t) # "resume" /\ page'.calls[t] # page.calls[t] /\ page'.newest # t
        => page'.index = page.index /\ (page'.loader = t => page.loader = t)]_vars

\* A sweep never comes back to a track it has given up on, so that a queue with
\* nothing playable in it comes to rest.
TriedOnce ==
  [][\A t \in Tasks : Answered(t) /\ page'.index # page.index /\ page'.calls[t] # page.calls[t]
        => page'.index \notin page.calls[t].tried]_vars

\* No call is left behind at an await nothing will settle: the resolve it waits
\* for is on its way, whatever the cache has forgotten since, and an open promise
\* of play() belongs to an element that is trying to play.
NothingHangs ==
  \A t \in DOMAIN page.calls : ~Answered(t)
    => /\ At(page, t) \in {"resolve", "element"}
            => page.calls[t].wait # NoRequest /\ page.flight[page.calls[t].wait] = SongOf(page, t)
       /\ At(page, t) \in Starting => ~page.paused /\ page.src # NoSong

\* What the page keeps at every step, whichever of its calls and timers goes on.
PlaybackSafe == TypeOK /\ LatestOwns /\ NothingHangs

Recovering(p) == At(p, Recovery) # "idle" \/ p.retry # NoSong

Heard(p) == p.loaded # NoSong /\ p.ready /\ ~p.paused

\* A dead stream is never dropped: a recovery under way ends in playback (of what
\* the element holds, the clip of the first gesture included), or because
\* the user acted or another play() has taken the element over, never by a failed
\* attempt.
OnlySoundEndsRecovery ==
  [][Recovering(page) /\ ~Recovering(page')
        => \/ Heard(page') \/ moves' # moves
           \/ At(page, Recovery) = "revive" /\ Answer(page, Recovery) = "ok"
           \/ page'.loader # Recovery
           \/ \E t \in Tasks : page'.newest = t /\ page'.calls[t] # page.calls[t]]_vars
=============================================================================
