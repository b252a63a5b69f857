----------------------------- MODULE QueuePlayer ------------------------------
(***************************************************************************)
(* The queue and the controls of one window (stores/queue.ts, player.ts,   *)
(* preview.ts, media-session.ts, ui/queue, ui/player), and the copies of   *)
(* the queue a room keeps equal (sync/views/stores/room.ts).               *)
(*                                                                         *)
(* Playback.tla has the loads and their retries; here a load is one step   *)
(* that ends well or not, and only the newest one matters.  RoomSession.tla*)
(* has the rounds; here a room is one peer with a queue of its own and the *)
(* two ordered channels between the windows.                               *)
(***************************************************************************)
EXTENDS QueueOps

CONSTANTS Songs,     \* the ids of the songs
          NoSong,    \* nothing loaded, nothing shown
          Lists,     \* the pages a queue is started from: a function to tracks
          NoList,    \* a page without an id (search results)
          Seeds,     \* the orders a shuffle may draw, by length: no longer queue is
                     \* shuffled
          MaxQueue,  \* no edit makes the queue longer than this
          Budgets    \* how often, in one run, the user acts (gestures) and previews
             \* (previews), the room does something (remote), and a load fails,
             \* is retried or finds a YouTube id (events)

Tracks == [id : Songs, yt : BOOLEAN]

\* An order of n rows: every row is in it once.
Permutes(order, n) ==
  order \in [1..n -> 1..n] /\ \A i \in 1..n : \E j \in 1..n : order[j] = i

\* An empty page starts no queue.
ASSUME QueueAssumption ==
  /\ NoSong \notin Songs /\ NoList \in DOMAIN Lists
  /\ \A l \in DOMAIN Lists : Lists[l] \in Seq(Tracks) /\ Lists[l] # <<>>
  /\ \A seed \in Seeds : /\ \A n \in DOMAIN seed : Permutes(seed[n], n)
                         /\ \A l \in DOMAIN Lists : Draws(seed, Lists[l])

VARIABLES
  queue, index, source,  \* queue, currentIndex and queueSource of stores/queue.ts
  shuffle, repeat,
  stored, dirty,         \* localStorage's copy of the first three; saveDirty
  song, playing,         \* currentSong and isPlaying of stores/audio.ts
  audio,                 \* the media element: the song it holds, is it sounding
  load,                  \* the newest load: its song, and the sweep it belongs to
  media,                 \* what the system's media controls show
  preview, resumeMain,   \* the preview's element; resumeMainAfterPreview
  drag,                  \* the row being dragged in the queue panel
  room, last,            \* out, joining, in or left; lastQueue of room.ts, <<>> for null
  peer, toPeer, fromPeer,\* the other window's queue and the frames on their way
  overlap,               \* an edit has been made while the other side's was on its way
  outside,               \* the main track was started by something else than this window
  used                   \* the acts and events left

queueVars == <<queue, index, source, stored, dirty>>
mainVars == <<song, playing, audio, load, media>>
previewVars == <<preview, resumeMain>>
roomVars == <<room, last, peer, toPeer, fromPeer, overlap>>
vars == <<queueVars, shuffle, repeat, mainVars, previewVars, drag, roomVars, outside, used>>

NoLoad == [song |-> NoSong, kind |-> "none", at |-> 0, tried |-> {}]
NoElement == [song |-> NoSong, sounding |-> FALSE]
NoPreview == [of |-> NoSong, pending |-> FALSE, paused |-> TRUE, asked |-> "no"]
NoDrag == [from |-> 0, over |-> 0]

\* live(): the relay has seated this window.
Live == room \in {"joining", "in"}

Spend(what) ==
  /\ used[what] > 0
  /\ used' = [used EXCEPT ![what] = @ - 1]
Idle == UNCHANGED used

-----------------------------------------------------------------------------
(* The queue, its stored copy and its copy in the room. *)

\* The effect of room.ts on queue: what it sends of an edit made here.
FrameWhole(q) ==   \* mutated: an edit is taken for an addition at the end
  IF room # "in" THEN <<>>
  ELSE <<IF last = <<>> THEN [op |-> "queue", songs |-> q] ELSE DeltaOff(last[1], q)>>
Frame(q) ==
  IF room # "in" THEN <<>>
  ELSE <<IF last = <<>> THEN [op |-> "queue", songs |-> q] ELSE Delta(last[1], q)>>

\* queue.value = q, currentIndex.value = i, persistQueue(), and then more frames.
EditQueueAnd(q, i, frames) ==
  /\ queue' = q /\ index' = i
  /\ dirty' = TRUE
  /\ toPeer' = toPeer \o Frame(q) \o frames
  /\ last' = IF room = "in" THEN <<q>> ELSE last
  /\ overlap' = (overlap \/ (fromPeer # <<>> /\ (room = "in" \/ frames # <<>>)))
  /\ UNCHANGED stored

EditQueueUnsaved(q, i) ==   \* mutated: the edit is not written
  /\ queue' = q /\ index' = i
  /\ toPeer' = toPeer \o Frame(q)
  /\ last' = IF room = "in" THEN <<q>> ELSE last
  /\ overlap' = (overlap \/ (room = "in" /\ fromPeer # <<>>))
  /\ UNCHANGED <<dirty, stored>>
EditQueue(q, i) == EditQueueAnd(q, i, <<>>)

\* currentIndex.value = i, persistQueue().
MoveIndex(i) ==
  /\ index' = i /\ dirty' = TRUE
  /\ UNCHANGED <<queue, stored, toPeer, last, overlap>>

KeepQueue == UNCHANGED <<queue, index, source, stored, dirty, toPeer, last, overlap>>

\* flushQueue, on its timer, on hide and on close.
Flush ==
  /\ dirty
  /\ stored' = [queue |-> queue, index |-> index, source |-> source]
  /\ dirty' = FALSE
  /\ UNCHANGED <<queue, index, source, shuffle, repeat, mainVars, previewVars, drag, roomVars,
                 outside, used>>

-----------------------------------------------------------------------------
(* The preview of stores/preview.ts: an element of its own. *)

\* clearAudio: pausing the element refuses the play() it was asked for.
Cleared == [NoPreview EXCEPT !.asked = IF preview.asked = "no" THEN "no" ELSE "refused"]

\* interruptPreview: the player takes the sound, and keeps it.
InterruptPreview ==
  /\ preview' = Cleared
  /\ resumeMain' = FALSE

-----------------------------------------------------------------------------
(* The main track of stores/audio.ts. *)

\* loadSongIntoPlayer up to its first await.  The old element is let go without
\* its pause event being heard, so isPlaying stays as it was.
BeginLoad(s, kind, at, tried) ==
  /\ load' = [song |-> s, kind |-> kind, at |-> at, tried |-> tried]
  /\ audio' = NoElement
  /\ song' = s
  /\ media' = [song |-> s, playing |-> playing]
  /\ UNCHANGED playing

\* stopPlayer
StopPlayer ==
  /\ load' = NoLoad /\ audio' = NoElement /\ song' = NoSong /\ playing' = FALSE
  /\ media' = [song |-> NoSong, playing |-> FALSE]

\* The element is paused, and its pause event is heard.
Silence ==
  /\ audio' = [audio EXCEPT !.sounding = FALSE]
  /\ playing' = FALSE
  /\ media' = [song |-> song, playing |-> FALSE]
  /\ UNCHANGED <<song, load>>

\* resume: the element goes on, or the song shown is loaded, or nothing.
ResumeMain ==
  LET shown == IF song # NoSong THEN song
               ELSE IF Holds(queue, index) THEN queue[index].id ELSE NoSong
  IN  IF audio.song # NoSong
        THEN /\ audio' = [audio EXCEPT !.sounding = TRUE]
             /\ playing' = TRUE
             /\ media' = [song |-> song, playing |-> TRUE]
             /\ UNCHANGED <<song, load>>
        ELSE IF shown # NoSong THEN BeginLoad(shown, "bare", 0, {})
        ELSE UNCHANGED mainVars

\* togglePlayPause: pause only what can be heard.
TogglePlayPause == IF audio.sounding THEN Silence ELSE ResumeMain

\* stopPreview: the main track goes on if the preview had paused it.
StopPreview ==
  /\ preview' = Cleared
  /\ resumeMain' = FALSE
  /\ IF resumeMain THEN ResumeMain ELSE UNCHANGED mainVars

\* playAtIndex on the queue q: in a room it announces a round, alone it plays.
PlayAtIndex(q, i, tried) ==
  /\ BeginLoad(q[i].id, IF Live THEN "round" ELSE "sweep", i, tried)
  /\ InterruptPreview

\* nextUntried: the first position after from, winding around, not tried yet.
NextUntried(n, from, tried) ==
  LET left == {step \in 1..(n - 1) : ((from + step - 1) % n) + 1 \notin tried}
  IN  IF left = {} THEN 0
      ELSE ((from + (CHOOSE s \in left : \A t \in left : s <= t) - 1) % n) + 1

-----------------------------------------------------------------------------
(* The queue's operations, of stores/player.ts and stores/queue.ts. *)

\* setQueueState without a source: the track at i is shown, not loaded.
ShowQueue(q, i) ==
  /\ EditQueue(q, i)
  /\ UNCHANGED source
  /\ IF Holds(q, i)
       THEN /\ song' = q[i].id
            /\ UNCHANGED <<playing, audio, load, media, previewVars>>
       ELSE StopPlayer /\ InterruptPreview

\* setQueueState with a source, and playAtIndex.
StartQueue(q, i, from) ==
  /\ EditQueue(q, i)
  /\ source' = from
  /\ PlayAtIndex(q, i, {})

\* toggleSong
ToggleSong == InterruptPreview /\ TogglePlayPause

\* restart: back to the top, and on with it if it was paused.
Restart == IF playing THEN UNCHANGED <<mainVars, previewVars>> ELSE ToggleSong

\* The order a list is played in.
Ordered(q, seed) == IF shuffle THEN Permute(q, seed) ELSE q

\* The rows the panel renders: from the one before the playing track on.
RowShown(i) == i \in 1..Len(queue) /\ i + 1 >= index

Steady == UNCHANGED <<shuffle, repeat, drag, room, peer, fromPeer, outside>>

PlaySelection(from, clicked, seed) ==
  LET list == Lists[from]
      q == Ordered(list, seed)
  IN  /\ Spend("gestures") /\ Steady
      /\ IF song = clicked /\ IsOwnList(from, source, list, queue, NoList)
           THEN /\ Restart
                /\ dirty' = (dirty \/ from # NoList)
                /\ UNCHANGED <<queue, index, source, stored, toPeer, last, overlap>>
           ELSE StartQueue(q, Find(q, clicked), from)

PlayList(from, seed) ==
  /\ Spend("gestures") /\ Steady
  /\ IF song # NoSong /\ IsOwnList(from, source, Lists[from], queue, NoList)
       THEN /\ ToggleSong
            /\ dirty' = (dirty \/ from # NoList)
            /\ UNCHANGED <<queue, index, source, stored, toPeer, last, overlap>>
       ELSE StartQueue(Ordered(Lists[from], seed), 1, from)

PlayNow(track) ==
  /\ Spend("gestures") /\ Steady
  /\ IF Holds(queue, index)
       THEN LET q == [queue EXCEPT ![index] = track]
            IN  EditQueue(q, index) /\ UNCHANGED source /\ PlayAtIndex(q, index, {})
       ELSE StartQueue(<<track>>, 1, NoList)

EnqueueMany(tracks) ==
  LET at == IF Holds(queue, index) THEN index ELSE Len(queue)
      q == Splice(queue, tracks, at)
  IN  /\ Spend("gestures") /\ Steady
      /\ Len(q) <= MaxQueue
      /\ UNCHANGED source
      /\ IF song = NoSong
           THEN EditQueue(q, at + 1) /\ PlayAtIndex(q, at + 1, {})
           ELSE EditQueue(q, IF index = 0 THEN 1 ELSE index) /\ UNCHANGED <<mainVars, previewVars>>

Unqueue(i) ==
  LET q == RemoveAt(queue, i)
      at == Find(q, queue[index].id)
  IN  /\ Spend("gestures") /\ Steady
      /\ RowShown(i)
      /\ ShowQueue(q, CASE q = <<>> -> 0
                        [] q # <<>> /\ ~Holds(queue, index) -> 1
                        [] OTHER -> IF at # 0 THEN at ELSE ClampIndex(i, Len(q)))

MoveQueue(from, to) ==
  LET q == Moved(queue, from, to)
  IN  ShowQueue(q, IF Holds(queue, index) THEN Find(q, queue[index].id) ELSE 1)

MoveDown(i) ==
  /\ Spend("gestures") /\ Steady
  /\ RowShown(i) /\ i < Len(queue)
  /\ MoveQueue(i, i + 1)

MoveAfterCurrent(i) ==
  LET pinned == PinAfter(queue, index, i)
  IN  /\ Spend("gestures") /\ Steady
      /\ RowShown(i) /\ CanPin(queue, index, i)
      /\ ShowQueue(pinned.queue, pinned.index)

\* A row is picked up, carried over others and dropped; the queue may change meanwhile.
DragStart(i) ==
  /\ Spend("gestures")
  /\ RowShown(i) /\ Len(queue) > 1 /\ drag = NoDrag
  /\ drag' = [from |-> i, over |-> i]
  /\ KeepQueue
  /\ UNCHANGED <<shuffle, repeat, mainVars, previewVars, room, peer, fromPeer, outside>>

DragOver(i) ==
  /\ drag # NoDrag /\ RowShown(i) /\ i # drag.over
  /\ drag' = [drag EXCEPT !.over = i]
  /\ KeepQueue /\ Idle
  /\ UNCHANGED <<shuffle, repeat, mainVars, previewVars, room, peer, fromPeer, outside>>

Drop ==
  LET to == IF drag.over > Len(queue) THEN Len(queue) ELSE drag.over
  IN  /\ drag # NoDrag
      /\ drag' = NoDrag
      /\ IF drag.from # drag.over /\ Holds(queue, drag.from) /\ drag.from # to
           THEN MoveQueue(drag.from, to)
           ELSE KeepQueue /\ UNCHANGED <<mainVars, previewVars>>
      /\ Idle
      /\ UNCHANGED <<shuffle, repeat, room, peer, fromPeer, outside>>

\* playAt: the row that plays starts over, another one is played.
PlayAt(i) ==
  /\ Spend("gestures") /\ Steady
  /\ RowShown(i)
  /\ UNCHANGED source
  /\ IF i # index
       THEN MoveIndex(i) /\ PlayAtIndex(queue, i, {})
       ELSE /\ audio.song = queue[i].id
            /\ Restart
            /\ UNCHANGED <<queue, index, stored, dirty, toPeer, last, overlap>>

\* nextSong, prevSong and the end of a track move along the queue.
GoTo(i) ==
  /\ Holds(queue, i)
  /\ MoveIndex(i)
  /\ PlayAtIndex(queue, i, {})
  /\ UNCHANGED source

NextSong == Spend("gestures") /\ Steady /\ GoTo(PickNext(Len(queue), index, repeat))
PrevSong == Spend("gestures") /\ Steady /\ GoTo(PickPrevious(Len(queue), index, repeat))

\* canNext and canPrev: what the skip buttons offer.
CanNextOff == Holds(queue, index) /\ index < Len(queue)   \* mutated: the wrap is forgotten
CanNext == Holds(queue, index) /\ (repeat # "off" \/ index < Len(queue))
CanPrev == Holds(queue, index) /\ (repeat # "off" \/ index > 1)

TogglePress ==
  /\ Spend("gestures") /\ Steady
  /\ song # NoSong
  /\ ToggleSong
  /\ KeepQueue

\* cycleRepeat
CycleRepeat ==
  /\ Spend("gestures")
  /\ repeat' = CASE repeat = "off" -> "all" [] repeat = "all" -> "one" [] OTHER -> "off"
  /\ KeepQueue
  /\ UNCHANGED <<shuffle, mainVars, previewVars, drag, room, peer, fromPeer, outside>>

\* applyShuffle with a seed: the playing track is found again by its id.
ShuffleAnd(seed, frames) ==
  LET q == Permute(queue, seed)
  IN  /\ Draws(seed, queue)
      /\ EditQueueAnd(q, IF Holds(queue, index) THEN Find(q, queue[index].id) ELSE index, frames)
      /\ UNCHANGED source

\* toggleShuffle: the seed is announced after the queue it has made.
ToggleShuffle(seed) ==
  /\ Spend("gestures")
  /\ shuffle' = ~shuffle
  /\ IF shuffle
       THEN KeepQueue
       ELSE ShuffleAnd(seed, IF Live THEN <<[op |-> "shuffle", seed |-> seed]>> ELSE <<>>)
  /\ UNCHANGED <<repeat, mainVars, previewVars, drag, room, peer, fromPeer, outside>>

-----------------------------------------------------------------------------
(* How a load ends, and what the element does by itself. *)

Alone == UNCHANGED <<shuffle, repeat, drag, room, peer, fromPeer, outside>>

\* setYoutube: the resolve has found the song's YouTube id.
Resolve ==
  LET i == Find(queue, load.song)
  IN  /\ load # NoLoad /\ i # 0 /\ ~queue[i].yt
      /\ EditQueue([queue EXCEPT ![i].yt = TRUE], index)
      /\ UNCHANGED <<source, mainVars, previewVars>>
      /\ Spend("events") /\ Alone

\* The track sounds.  A later rung of the ladder shows its song again.
LoadOk(again) ==
  /\ load # NoLoad
  /\ load' = NoLoad
  /\ song' = IF again THEN load.song ELSE song
  /\ audio' = [song |-> load.song, sounding |-> TRUE]
  /\ playing' = TRUE
  /\ media' = [song |-> song', playing |-> TRUE]
  /\ KeepQueue /\ UNCHANGED previewVars
  /\ IF again THEN Spend("events") ELSE Idle
  /\ Alone

\* Every rung has failed: a sweep goes on to a track it has not tried, a round
\* and a resume stop here, and so does a sweep the browser wants a click for.
LoadFailed(blocked) ==
  LET tried == load.tried \union {load.at}
      i == NextUntried(Len(queue), load.at, tried)
      sweeps == /\ load.kind = "sweep" /\ ~blocked
                /\ Holds(queue, index) /\ queue[index].id = load.song
  IN  /\ load # NoLoad
      /\ Spend("events") /\ Alone
      /\ UNCHANGED source
      /\ CASE ~sweeps -> /\ load' = NoLoad
                         /\ audio' = NoElement /\ playing' = FALSE
                         /\ song' = IF blocked THEN song ELSE load.song
                         /\ media' = [song |-> song', playing |-> FALSE]
                         /\ UNCHANGED previewVars
                         /\ KeepQueue
           [] sweeps /\ i # 0 -> /\ load' = [song |-> queue[i].id, at |-> i, tried |-> tried,
                                             kind |-> IF Live THEN "round" ELSE "sweep"]
                                 /\ audio' = NoElement /\ song' = queue[i].id /\ playing' = FALSE
                                 /\ media' = [song |-> queue[i].id, playing |-> FALSE]
                                 /\ InterruptPreview
                                 /\ MoveIndex(i)
           [] OTHER -> StopPlayer /\ KeepQueue /\ UNCHANGED previewVars

\* endPlayback: the track is over, and the next one is played if there is one.
Ended ==
  LET i == PickNext(Len(queue), index, repeat)
  IN  /\ audio.sounding
      /\ Idle /\ Alone
      /\ UNCHANGED source
      /\ IF Holds(queue, i)
           THEN /\ MoveIndex(i)
                /\ InterruptPreview
                /\ load' = [song |-> queue[i].id, at |-> i, tried |-> {},
                            kind |-> IF Live THEN "round" ELSE "sweep"]
                /\ audio' = NoElement /\ song' = queue[i].id /\ playing' = FALSE
                /\ media' = [song |-> queue[i].id, playing |-> FALSE]
           ELSE /\ audio' = NoElement /\ playing' = FALSE
                /\ media' = [song |-> song, playing |-> FALSE]
                /\ UNCHANGED <<song, load, previewVars>>
                /\ KeepQueue

\* The handlers of media-session.ts, which know nothing of the preview.
MediaAction(action) ==
  /\ Spend("gestures")
  /\ CASE action = "play" -> ResumeMain
       [] action = "pause" -> IF audio.sounding THEN Silence ELSE UNCHANGED mainVars
       [] OTHER -> StopPlayer
  /\ outside' = TRUE
  /\ KeepQueue
  /\ UNCHANGED <<shuffle, repeat, previewVars, drag, room, peer, fromPeer>>

-----------------------------------------------------------------------------
(* Previews. *)

\* preview: the main track is paused under it and is owed a resume.
Preview(s) ==
  LET pauses == ~resumeMain /\ audio.sounding
  IN  /\ Spend("previews")
      /\ IF preview.of = s
           THEN /\ ~preview.pending /\ preview.paused
                /\ preview' = [preview EXCEPT !.paused = FALSE,
                                              !.asked = IF @ = "refused" THEN @ ELSE "again"]
                /\ UNCHANGED <<resumeMain, mainVars, outside>>
           ELSE /\ preview' = [Cleared EXCEPT !.of = s, !.pending = TRUE]
                /\ resumeMain' = (resumeMain \/ pauses)
                /\ IF pauses THEN Silence ELSE UNCHANGED mainVars
                /\ outside' = (resumeMain /\ outside)
      /\ KeepQueue
      /\ UNCHANGED <<shuffle, repeat, drag, room, peer, fromPeer>>

\* The preview's stream has come and plays, or has not.
PreviewReady(ok) ==
  /\ preview.pending
  /\ IF ok
       THEN /\ preview' = [preview EXCEPT !.pending = FALSE, !.paused = FALSE]
            /\ UNCHANGED <<resumeMain, mainVars>>
       ELSE StopPreview
  /\ KeepQueue /\ Idle /\ Alone

\* togglePreview
TogglePreview ==
  /\ Spend("gestures")
  /\ preview.of # NoSong
  /\ IF preview.pending THEN StopPreview
     ELSE /\ preview' = [preview EXCEPT !.paused = ~@,
                           !.asked = CASE @ = "no" -> IF preview.paused THEN "again" ELSE "no"
                                       [] @ = "again" -> "refused"
                                       [] OTHER -> @]
          /\ UNCHANGED <<resumeMain, mainVars>>
  /\ KeepQueue /\ Alone

\* playAudio's promise: a refused one ends whatever preview there is by then.
PlayAnswered ==
  /\ preview.asked # "no"
  /\ IF preview.asked = "again"
       THEN preview' = [preview EXCEPT !.asked = "no"] /\ UNCHANGED <<resumeMain, mainVars>>
       ELSE /\ preview' = NoPreview
            /\ resumeMain' = FALSE
            /\ IF resumeMain THEN ResumeMain ELSE UNCHANGED mainVars
  /\ KeepQueue /\ Idle /\ Alone

\* The preview has ended, or its editor is closed.
PreviewOver ==
  /\ preview.of # NoSong
  /\ StopPreview
  /\ KeepQueue /\ Idle /\ Alone

-----------------------------------------------------------------------------
(* The room: this window's side. *)

\* A frame of the peer's edits or controls, and nothing else, is on its way.
PeerSends(frames) == fromPeer' = fromPeer \o frames

\* connect(), and the relay's answer to the join: the seat, and for a guest the
\* room's queue with the track it plays.
Connect(role, s) ==
  /\ Spend("remote")
  /\ room = "out"
  /\ role = "host" => s = NoSong
  /\ s # NoSong => Find(peer, s) # 0
  /\ room' = "joining"
  /\ PeerSends(<<[op |-> "snapshot", role |-> role, songs |-> peer, song |-> s]>>)
  /\ UNCHANGED <<queueVars, shuffle, repeat, mainVars, previewVars, drag, last, peer, toPeer,
                 overlap, outside>>

\* onClosed: whatever was on its way is lost.
Leave ==
  /\ Spend("gestures")
  /\ Live
  /\ room' = "left"
  /\ last' = <<>> /\ toPeer' = <<>> /\ fromPeer' = <<>> /\ overlap' = FALSE
  /\ load' = IF load.kind = "round" THEN NoLoad ELSE load
  /\ UNCHANGED <<queueVars, shuffle, repeat, song, playing, audio, media, previewVars, drag,
                 peer, outside>>

\* applyQueue and the enqueue control: replaceQueue finds the playing track
\* again, and the effect does not send the queue back.
AdoptClamped(q) ==   \* mutated: the row number is kept instead of the track
  /\ last' = <<q>>
  /\ IF q = queue
       THEN UNCHANGED <<queue, index, dirty>>
       ELSE queue' = q /\ index' = ClampIndex(index, Len(q)) /\ dirty' = TRUE
  /\ UNCHANGED <<source, stored, toPeer, overlap>>
Adopt(q) ==
  /\ last' = <<q>>
  /\ IF q = queue
       THEN UNCHANGED <<queue, index, dirty>>
       ELSE /\ queue' = q
            /\ index' = IF song # NoSong /\ Find(q, song) # 0 THEN Find(q, song)
                        ELSE ClampIndex(index, Len(q))
            /\ dirty' = TRUE
  /\ UNCHANGED <<source, stored, toPeer, overlap>>

\* applyControl's youtube: the first track of that id.
AdoptYoutube(id, yt) ==
  LET i == Find(queue, id)
  IN  IF i = 0 \/ queue[i].yt = yt THEN KeepQueue
      ELSE /\ queue' = [queue EXCEPT ![i].yt = yt]
           /\ last' = <<queue'>>
           /\ dirty' = TRUE
           /\ UNCHANGED <<index, source, stored, toPeer, overlap>>

\* applyControl's shuffle: to the effect this is an edit like any other.
Reorder(seed) ==
  LET q == Permute(queue, seed)
  IN  /\ Draws(seed, queue)
      /\ queue' = q
      /\ index' = IF Holds(queue, index) THEN Find(q, queue[index].id) ELSE index
      /\ dirty' = TRUE
      /\ toPeer' = toPeer \o Frame(q)
      /\ last' = IF room = "in" THEN <<q>> ELSE last
      /\ overlap' = (overlap \/ Len(fromPeer) > 1)
      /\ UNCHANGED <<source, stored>>

\* applySnapshot and handlePrepare: the room's track is loaded at its position.
FollowRoom(s, i) ==
  /\ index' = i
  /\ BeginLoad(s, "round", i, {})

\* applySnapshot up to prepareSong.
Join(m) ==
  /\ room' = "in"
  /\ IF m.role = "host"
       THEN /\ last' = <<queue>>
            /\ toPeer' = Append(toPeer, [op |-> "queue", songs |-> queue])
            /\ overlap' = (overlap \/ Len(fromPeer) > 1)
            /\ UNCHANGED <<queue, index, source, stored, dirty, mainVars>>
       ELSE /\ last' = <<m.songs>>
            /\ queue' = m.songs
            /\ dirty' = (dirty \/ m.songs # queue)
            /\ IF m.song = NoSong
                 THEN /\ index' = IF m.songs = queue THEN index
                                  ELSE IF song # NoSong /\ Find(m.songs, song) # 0
                                         THEN Find(m.songs, song)
                                         ELSE ClampIndex(index, Len(m.songs))
                      /\ StopPlayer
                 ELSE FollowRoom(m.song, Find(m.songs, m.song))
            /\ UNCHANGED <<source, stored, toPeer, overlap>>

\* handleMessage, for the frames that touch the queue and the player.
Receive ==
  LET m == Head(fromPeer)
  IN  /\ fromPeer # <<>>
      /\ fromPeer' = Tail(fromPeer)
      /\ Idle
      /\ room' = IF m.op = "snapshot" THEN "in" ELSE room
      /\ shuffle' = IF m.op \in {"shuffle", "unshuffle"} THEN m.op = "shuffle" ELSE shuffle
      /\ outside' = (outside \/ m.op = "play" \/ m.op = "prepare" \/ m.op = "snapshot")
      /\ CASE m.op = "snapshot" -> Join(m)
           [] m.op = "queue" -> Adopt(m.songs) /\ UNCHANGED mainVars
           [] m.op = "enqueue" -> Adopt(Splice(queue, m.songs, m.at)) /\ UNCHANGED mainVars
           [] m.op = "youtube" -> AdoptYoutube(m.id, m.yt) /\ UNCHANGED mainVars
           [] m.op = "shuffle" -> Reorder(m.seed) /\ UNCHANGED mainVars
           [] m.op = "unshuffle" -> KeepQueue /\ UNCHANGED mainVars
           [] m.op = "prepare" -> /\ FollowRoom(m.song, m.at)
                                  /\ UNCHANGED <<queue, source, stored, dirty, toPeer, last, overlap>>
           [] m.op = "play" -> KeepQueue /\ ResumeMain
           [] m.op = "pause" -> /\ KeepQueue
                                /\ IF audio.sounding THEN Silence ELSE UNCHANGED mainVars
           [] OTHER -> KeepQueue /\ StopPlayer
      /\ UNCHANGED <<repeat, previewVars, drag, peer>>

-----------------------------------------------------------------------------
(* The room: the peer, another window of the same program. *)

PeerStays == UNCHANGED <<queueVars, shuffle, repeat, mainVars, previewVars, drag, room, last,
                         outside>>

\* An edit of the peer's queue, sent as this window would send it.
PeerEdits(q) ==
  /\ Spend("remote")
  /\ Live
  /\ Len(q) <= MaxQueue
  /\ peer' = q
  /\ PeerSends(<<Delta(peer, q)>>)
  /\ overlap' = (overlap \/ toPeer # <<>>)
  /\ UNCHANGED toPeer
  /\ PeerStays

PeerShuffles(seed) ==
  LET q == Permute(peer, seed)
  IN  /\ Spend("remote") /\ Draws(seed, peer)
      /\ Live
      /\ peer' = q
      /\ PeerSends(<<Delta(peer, q), [op |-> "shuffle", seed |-> seed]>>)
      /\ overlap' = (overlap \/ toPeer # <<>>)
      /\ UNCHANGED toPeer
      /\ PeerStays

\* A control of the peer's, or a track it plays: the place is the one in its queue.
PeerControls(m) ==
  /\ Spend("remote")
  /\ Live
  /\ PeerSends(<<m>>)
  /\ overlap' = (overlap \/ (m.op = "prepare" /\ toPeer # <<>>))
  /\ UNCHANGED <<peer, toPeer>>
  /\ PeerStays

PeerPlays(s) == PeerControls([op |-> "prepare", song |-> s, at |-> Find(peer, s)])

\* The peer's handleMessage.  A shuffle is an edit there: it is sent back.
PeerReceives ==
  LET m == Head(toPeer)
      q == CASE m.op = "queue" -> m.songs
             [] m.op = "enqueue" -> Splice(peer, m.songs, m.at)
             [] m.op = "youtube" -> IF Find(peer, m.id) = 0 THEN peer
                                    ELSE [peer EXCEPT ![Find(peer, m.id)].yt = m.yt]
             [] OTHER -> Permute(peer, m.seed)
  IN  /\ toPeer # <<>>
      /\ m.op = "shuffle" => Draws(m.seed, peer)
      /\ toPeer' = Tail(toPeer)
      /\ Idle
      /\ peer' = q
      /\ IF m.op = "shuffle" THEN PeerSends(<<Delta(peer, q)>>) ELSE UNCHANGED fromPeer
      /\ overlap' = (overlap \/ (m.op = "shuffle" /\ Len(toPeer) > 1))
      /\ PeerStays

-----------------------------------------------------------------------------
(* The page is closed, or killed, and opened again: restorePlayback. *)

Relaunch(closed) ==
  LET kept == IF closed THEN [queue |-> queue, index |-> index, source |-> source] ELSE stored
      i == ClampIndex(kept.index, Len(kept.queue))
      shown == IF i = 0 THEN NoSong ELSE kept.queue[i].id
  IN  /\ Spend("gestures")
      /\ room # "in"   \* leaving a room is Leave, before or after
      /\ room # "joining"
      /\ stored' = kept /\ dirty' = FALSE
      /\ queue' = kept.queue /\ index' = i /\ source' = kept.source
      /\ song' = shown /\ playing' = FALSE
      /\ audio' = NoElement /\ load' = NoLoad
      /\ media' = [song |-> shown, playing |-> FALSE]
      /\ preview' = NoPreview /\ resumeMain' = FALSE /\ drag' = NoDrag
      /\ UNCHANGED <<shuffle, repeat, roomVars, outside>>

-----------------------------------------------------------------------------

Init ==
  /\ stored \in {[queue |-> q, index |-> IF q = <<>> THEN 0 ELSE 1, source |-> NoList] :
                   q \in {Lists[NoList], <<>>}}
  /\ queue = stored.queue /\ index = stored.index /\ source = stored.source
  /\ dirty = FALSE
  /\ shuffle = FALSE /\ repeat = "off"
  /\ song = IF index = 0 THEN NoSong ELSE queue[index].id
  /\ playing = FALSE
  /\ audio = NoElement /\ load = NoLoad
  /\ media = [song |-> song, playing |-> FALSE]
  /\ preview = NoPreview /\ resumeMain = FALSE
  /\ drag = NoDrag
  /\ room = "out" /\ last = <<>>
  /\ peer \in {Lists[l] : l \in DOMAIN Lists \ {NoList}}
  /\ toPeer = <<>> /\ fromPeer = <<>>
  /\ overlap = FALSE /\ outside = FALSE
  /\ used \in Budgets

FromPage ==
  \E l \in DOMAIN Lists, seed \in Seeds :
    \/ PlayList(l, seed)
    \/ \E i \in DOMAIN Lists[l] : PlaySelection(l, Lists[l][i].id, seed)

FromMenu ==
  \E s \in Songs : \/ PlayNow([id |-> s, yt |-> FALSE])
                   \/ EnqueueMany(<<[id |-> s, yt |-> FALSE]>>)

FromPanel ==
  \/ \E i \in DOMAIN queue : \/ PlayAt(i) \/ Unqueue(i) \/ MoveDown(i) \/ MoveAfterCurrent(i)
                             \/ DragStart(i) \/ DragOver(i)
  \/ Drop

\* The disc and the bar: greyed out without a song, and at the ends of the queue.
Disc ==
  /\ song # NoSong
  /\ TogglePress \/ (CanPrev /\ PrevSong) \/ (CanNext /\ NextSong)

\* The row under the seek bar, which is never greyed out.
PlayerControlsRow == CycleRepeat \/ \E s \in Seeds : ToggleShuffle(s)

\* The keys of the system's controls ask nothing of the buttons.
MediaKeys == \/ NextSong \/ PrevSong
             \/ \E a \in {"play", "pause", "stop"} : MediaAction(a)

Element ==
  \/ Resolve \/ Ended
  \/ \E b \in BOOLEAN : LoadOk(b) \/ LoadFailed(b)

Previewing ==
  \/ \E s \in Songs : Preview(s)
  \/ \E ok \in BOOLEAN : PreviewReady(ok)
  \/ TogglePreview \/ PlayAnswered \/ PreviewOver

InRoom ==
  \/ \E s \in Songs \union {NoSong}, role \in {"host", "guest"} : Connect(role, s)
  \/ Leave \/ Receive \/ PeerReceives
  \/ \E s \in Songs, at \in 0..Len(peer) : PeerEdits(Splice(peer, <<[id |-> s, yt |-> FALSE]>>, at))
  \/ \E i \in DOMAIN peer : \/ PeerEdits(RemoveAt(peer, i))
                            \/ Find(peer, peer[i].id) = i /\ PeerEdits([peer EXCEPT ![i].yt = TRUE])
                            \/ PeerPlays(peer[i].id)
  \/ \E seed \in Seeds : PeerShuffles(seed)
  \/ \E op \in {"play", "pause", "stop", "unshuffle"} : PeerControls([op |-> op])

Next ==
  \/ FromPage \/ FromMenu \/ FromPanel \/ Disc \/ PlayerControlsRow \/ MediaKeys \/ Element \/ Previewing \/ InRoom
  \/ Flush \/ \E closed \in BOOLEAN : Relaunch(closed)

Spec == Init /\ [][Next]_vars

-----------------------------------------------------------------------------

\* The values of the state.
TypeOK ==
  /\ queue \in Seq(Tracks) /\ peer \in Seq(Tracks)
  /\ index \in Nat
  /\ source \in DOMAIN Lists
  /\ song \in Songs \union {NoSong} /\ audio.song \in Songs \union {NoSong}
  /\ preview.of \in Songs \union {NoSong}
  /\ preview.of = NoSong => preview.paused /\ ~preview.pending
  /\ audio.sounding => audio.song # NoSong

\* The mark stays on the track it is on: whatever moves the rows under it
\* (inserts, removals, moves, shuffles, a relaunch, the queue of the room), as
\* long as the track is then in the queue once and no edits have crossed on
\* their way to the other window (queue.ts:117-120).
HighlightKept ==
  [][ /\ song # NoSong /\ song' = song /\ ~overlap
      /\ Holds(queue, index) /\ queue[index].id = song
      /\ Cardinality(Copies(queue', song)) = 1
      => Holds(queue', index') /\ queue'[index'].id = song ]_vars

\* Once every frame has arrived, the two windows hold the same songs, unless two
\* edits have crossed on the way: what delta() sends rebuilds what it was made of.
Converged ==
  room = "in" /\ toPeer = <<>> /\ fromPeer = <<>> /\ ~overlap => Ids(queue) = Ids(peer)

\* Outside a room, what is not to be written any more is what is in storage: a
\* relaunch comes back to the same row of the same queue.
StoredFollows ==
  ~dirty => /\ stored.queue = queue /\ stored.source = source
            /\ room = "out" => stored.index = index

\* The track a preview has paused is only owed a resume while there is a
\* preview, and is not sounding under it unless something outside this window
\* has started it.
ResumeOwned ==
  resumeMain => preview.of # NoSong /\ (audio.sounding => outside)

\* What the window keeps at every step, in a room and out of it.
WindowSafe == TypeOK /\ StoredFollows /\ ResumeOwned

\* A skip button is offered exactly when pressing it would play something
\* (queue.ts:83-85).
SkipsAsOffered ==
  room = "out" => /\ CanNext = Holds(queue, PickNext(Len(queue), index, repeat))
                  /\ CanPrev = Holds(queue, PickPrevious(Len(queue), index, repeat))
=============================================================================
