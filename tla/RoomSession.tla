------------------------------ MODULE RoomSession ------------------------------
(***************************************************************************)
(* One member's page inside a listening room (sync/views/stores/room.ts):  *)
(* the load rounds that make everybody start a track together, the join    *)
(* snapshot that lands a newcomer on what the room plays, controls and the *)
(* heartbeat of the seat holder.                                           *)
(*                                                                         *)
(* Every async function is a task that stops at its awaits: settle() of    *)
(* round g is task g, applySnapshot() takes one of the Snapshots, and Solo *)
(* is a resume() nobody waits for.  A load is one await here: what happens *)
(* inside it is the module Playback.  The relay and the other members are  *)
(* external: they forward frames in order, release a round at some moment  *)
(* of their own, may leave a join unanswered and may drop the connection.  *)
(* Left out: the contents of the queue, colours and positions.             *)
(***************************************************************************)
EXTENDS Integers, Sequences

CONSTANTS Songs,      \* tracks, as naturals
          Linked,     \* the ones that carry a YouTube id
          Opening,    \* what the page and the room may have on when they meet, -1 for nothing
          MaxRounds,  \* bound on the rounds and the controls of everybody together
          MaxSnaps,   \* how many snapshots may be under way at once
          MaxDown,    \* bound on the frames on their way to the page
          MaxEvents   \* bound on failures, silent joins and lost connections together

ASSUME SessionAssumption ==
  /\ Songs \subseteq Nat /\ Linked \subseteq Songs /\ Opening \subseteq Songs \cup {-1}
  /\ MaxRounds \in Nat /\ MaxSnaps \in Nat \ {0} /\ MaxDown \in Nat \ {0}
  /\ MaxEvents \in Nat

VARIABLES me,     \* the state of the page's modules, a record
          room,   \* what the relay and the other members hold
          down,   \* frames on their way to the page
          spent   \* rounds, controls and events used up

vars == <<me, room, down, spent>>

NoSong == -1
Rounds == 1..MaxRounds
NoRound == 0
Snapshots == (MaxRounds + 1)..(MaxRounds + MaxSnaps)
Solo == MaxRounds + MaxSnaps + 1
Tasks == Rounds \cup Snapshots \cup {Solo}
Nobody == 0

IdleTask == [pc |-> "idle", song |-> NoSong, playing |-> FALSE, moved |-> FALSE,
             loaded |-> FALSE, released |-> FALSE]

At(t) == me.task[t].pc
Goes(p, t, pc) == [p EXCEPT !.task[t].pc = pc]
Ends(p, t) == [p EXCEPT !.task[t] = IdleTask]

-----------------------------------------------------------------------------
(* The player, as far as a room drives it. *)

\* prepareSong or play: the load takes the element from whatever held it.
Load(p, t, s, pc) ==
  [p EXCEPT !.loader = t, !.current = s, !.loaded = NoSong, !.playing = FALSE,
            !.loading = TRUE, !.task[t].pc = pc]

\* resume() by task t: play what is loaded, or load and play the current track.
Resume(p, t) ==
  IF p.loaded # NoSong THEN [p EXCEPT !.playing = TRUE, !.spinner = FALSE, !.task[t].pc = "resume"]
  ELSE IF p.current # NoSong THEN Load(p, t, p.current, "solo")
  ELSE Goes(p, t, "resume")

StopPlayer(p) ==
  [p EXCEPT !.loader = Nobody, !.current = NoSong, !.loaded = NoSong, !.playing = FALSE,
            !.loading = FALSE, !.spinner = FALSE]

-----------------------------------------------------------------------------
(* Rounds. *)

\* cancelWait: the promise of the round that waits is settled, whoever reads it.
CancelWaitNot(p) == p   \* mutated: the wait outlives its round
CancelWait(p) ==
  IF p.wait = NoRound THEN p
  ELSE [p EXCEPT !.task[p.wait].released = TRUE, !.wait = NoRound]

\* settle up to its first await.  roundSeq++ is what a snapshot under way sees.
Settle(p, g, s) ==
  LET q == [CancelWait(p) EXCEPT
              !.round = g, !.spinner = TRUE, !.wait = g,
              !.task = [t \in Tasks |->
                          IF t = g THEN [IdleTask EXCEPT !.pc = "youtube", !.song = s]
                          ELSE IF t \in Snapshots /\ @[t].pc # "idle"
                          THEN [@[t] EXCEPT !.moved = TRUE] ELSE @[t]]]
  IN  IF s \in Linked THEN q ELSE Load(q, g, s, "load")

\* A round that is no longer the room's returns at its next await.
OvertakenNever(g) == FALSE   \* mutated: the round goes on
Overtaken(g) == me.round # g

\* requestJoin, with its timer.
RequestJoinOnce(p) == [p EXCEPT !.timer = FALSE]   \* mutated: never asked for again
RequestJoin(p) == [p EXCEPT !.timer = TRUE]

RoomSong == IF room.round = NoRound THEN room.first ELSE room.song[room.round]

\* Somebody may still press a track, or play and pause.
MayPress == spent.rounds + spent.controls < MaxRounds

Sends(frame) == Len(down) < MaxDown /\ down' = Append(down, frame)

\* The page asks to join; the relay, or the host behind it, answers with what the
\* room plays, or never does.
Asks(p) ==
  /\ me' = RequestJoin(p)
  /\ \/ /\ Sends([t |-> "snapshot", round |-> NoRound, song |-> RoomSong,
                  playing |-> room.playing])
        /\ UNCHANGED spent
     \/ /\ spent.events < MaxEvents /\ spent' = [spent EXCEPT !.events = @ + 1]
        /\ UNCHANGED down

Answering == \E i \in DOMAIN down : down[i].t = "snapshot"

Quiet == UNCHANGED <<room, down, spent>>

\* start: the page announces a track.
Press(s) ==
  /\ me.open /\ MayPress
  /\ LET g == spent.rounds + 1
     IN  /\ me' = Settle([me EXCEPT !.current = s], g, s)
         /\ room' = [room EXCEPT !.song[g] = s, !.round = g, !.playing = FALSE]
         /\ spent' = [spent EXCEPT !.rounds = g]
  /\ UNCHANGED down

\* await SetYouTubeId, of a round.
YouTubeDone(g) ==
  /\ At(g) = "youtube" /\ g \in Rounds
  /\ me' = Load(me, g, me.task[g].song, "load") /\ Quiet

\* A load settles: it gave way to another, failed, or holds the track now.
Loaded(t, ok) ==
  /\ ok => me.loader = t
  /\ me.loader = t => ok \/ spent.events < MaxEvents
  /\ spent' = IF me.loader = t /\ ~ok THEN [spent EXCEPT !.events = @ + 1] ELSE spent

AfterLoad(t, ok) ==
  IF me.loader # t THEN me
  ELSE [me EXCEPT !.loading = FALSE, !.loaded = IF ok THEN me.task[t].song ELSE NoSong]

\* await prepareSong, of a round: the member answers ready, well or badly.
LoadDone(g, ok) ==
  /\ At(g) = "load" /\ g \in Rounds /\ Loaded(g, ok)
  /\ me' = IF Overtaken(g) THEN Ends(AfterLoad(g, ok), g)
           ELSE [Goes(AfterLoad(g, ok), g, "wait") EXCEPT !.task[g].loaded = ok]
  /\ UNCHANGED <<room, down>>

\* await play, and the sleep and the seek that follow a release.
WaitDone(g) ==
  /\ At(g) = "wait" /\ me.task[g].released
  /\ me' = IF Overtaken(g) THEN Ends(me, g)
           ELSE IF ~me.task[g].loaded THEN Ends([me EXCEPT !.spinner = FALSE], g)
           ELSE Goes(me, g, "align")
  /\ Quiet

AlignDone(g) ==
  /\ At(g) = "align" /\ g \in Rounds
  /\ me' = IF Overtaken(g) THEN Ends(me, g) ELSE Resume(me, g)
  /\ Quiet

\* await resume(), of a round or a snapshot: the spinner goes, whoever has it.
ResumeDone(t) ==
  /\ At(t) = "resume"
  /\ me' = Ends(IF t = Solo THEN me ELSE [me EXCEPT !.spinner = FALSE], t)
  /\ Quiet

\* The same when resume() had to load the track first: it plays by itself.
SoloDone(t, ok) ==
  /\ At(t) = "solo" /\ Loaded(t, ok)
  /\ LET p == IF me.loader # t THEN me
              ELSE IF ok THEN [me EXCEPT !.loaded = me.current, !.playing = TRUE,
                                         !.loading = FALSE, !.spinner = FALSE]
              ELSE [me EXCEPT !.loading = FALSE]
     IN  me' = Ends(IF t = Solo THEN p ELSE [p EXCEPT !.spinner = FALSE], t)
  /\ UNCHANGED <<room, down>>

\* The timer of waitForPlay: the round is abandoned and the room asked for.
ConsensusTimeout(g) ==
  /\ me.wait = g /\ me.round = g
  /\ Asks([me EXCEPT !.wait = NoRound, !.round = NoRound, !.spinner = FALSE,
                     !.task[g].released = TRUE])
  /\ UNCHANGED room

\* The timer of requestJoin.
JoinTimer ==
  /\ me.timer /\ ~Answering /\ UNCHANGED room
  /\ IF me.joined THEN me' = [me EXCEPT !.timer = FALSE] /\ UNCHANGED <<down, spent>>
     ELSE Asks(me)

-----------------------------------------------------------------------------
(* Frames from the relay. *)

Frame == Head(down)
Takes(kind) == down # <<>> /\ Frame.t = kind /\ down' = Tail(down)

\* resolvePlay.
OnPlay ==
  /\ Takes("play")
  /\ me' = IF me.wait # Frame.round \/ me.wait = NoRound THEN me
           ELSE [me EXCEPT !.wait = NoRound, !.task[me.wait].released = TRUE]
  /\ UNCHANGED <<room, spent>>

\* handlePrepare.
OnPrepare ==
  /\ Takes("prepare")
  /\ me' = IF me.open THEN Settle(me, Frame.round, Frame.song) ELSE me
  /\ UNCHANGED <<room, spent>>

FreeSnapshots == {t \in Snapshots : At(t) = "idle"}

AdoptAny(p, t) ==   \* mutated: a round that began meanwhile is not looked at
  Load([p EXCEPT !.spinner = TRUE], t, p.task[t].song, "load")

\* The rest of applySnapshot once the track's YouTube id is known.
Adopt(p, t) ==
  IF p.spinner \/ p.task[t].moved THEN Ends(p, t)
  ELSE Load([p EXCEPT !.spinner = TRUE], t, p.task[t].song, "load")

\* inherit: a host that has a track on gives it to a room that plays nothing.
Inherits == me.host /\ me.current # NoSong /\ Frame.song = NoSong

\* applySnapshot up to its first await.  A peer stops when the room plays nothing,
\* unless the reply names an empty track.
OnSnapshot ==
  /\ Takes("snapshot") /\ FreeSnapshots # {}
  /\ LET t == CHOOSE free \in FreeSnapshots : TRUE
         p == [me EXCEPT !.joined = TRUE, !.timer = FALSE]
         q == [p EXCEPT !.task[t] = [IdleTask EXCEPT !.pc = "youtube", !.song = Frame.song,
                                                     !.playing = Frame.playing]]
     IN  IF Frame.song # NoSong THEN me' = IF Frame.song \in Linked THEN q ELSE Adopt(q, t)
         ELSE \/ me' = [p EXCEPT !.spinner = FALSE]
              \/ ~Inherits /\ me' = StopPlayer(p)
  /\ room' = IF Inherits THEN [room EXCEPT !.first = me.current, !.playing = me.playing] ELSE room
  /\ UNCHANGED spent

SnapshotYouTube(t) ==
  /\ At(t) = "youtube" /\ t \in Snapshots
  /\ me' = Adopt(me, t) /\ Quiet

\* await prepareSong, of a snapshot.
SnapshotLoaded(t, ok) ==
  /\ At(t) = "load" /\ t \in Snapshots /\ Loaded(t, ok)
  /\ me' = IF me.task[t].moved THEN Ends(AfterLoad(t, ok), t)
           ELSE IF ~ok THEN Ends([AfterLoad(t, ok) EXCEPT !.spinner = FALSE], t)
           ELSE Goes(AfterLoad(t, ok), t, "align")
  /\ UNCHANGED <<room, down>>

\* The seeks and the sleep of a snapshot, which no longer looks at the rounds.
SnapshotAligned(t) ==
  /\ At(t) = "align" /\ t \in Snapshots
  /\ me' = IF me.task[t].playing THEN Resume(me, t) ELSE Ends([me EXCEPT !.spinner = FALSE], t)
  /\ Quiet

\* applyControl: play and pause.
OnControl ==
  /\ Takes("control")
  /\ Frame.playing => At(Solo) = "idle"
  /\ me' = IF ~me.open THEN me
           ELSE IF Frame.playing THEN Resume(me, Solo) ELSE [me EXCEPT !.playing = FALSE]
  /\ UNCHANGED <<room, spent>>

\* transport.onOpen and onClosed.
OnOpen ==
  /\ ~me.open /\ UNCHANGED room
  /\ Asks([me EXCEPT !.open = TRUE, !.joined = FALSE])

OnClosed ==
  /\ me.open /\ spent.events < MaxEvents
  /\ me' = [CancelWait(me) EXCEPT !.open = FALSE, !.timer = FALSE, !.round = NoRound,
                                  !.spinner = FALSE, !.joined = FALSE]
  /\ down' = <<>>
  /\ spent' = [spent EXCEPT !.events = @ + 1] /\ UNCHANGED room

\* toggleSong of this member, and the frame that tells the room.
LocalControl ==
  /\ me.open /\ MayPress /\ me.loaded # NoSong /\ At(Solo) = "idle"
  /\ me' = IF me.playing THEN [me EXCEPT !.playing = FALSE] ELSE Resume(me, Solo)
  /\ room' = [room EXCEPT !.playing = ~me.playing]
  /\ spent' = [spent EXCEPT !.controls = @ + 1] /\ UNCHANGED down

-----------------------------------------------------------------------------
(* The relay and the other members. *)

OtherPress(s) ==
  /\ MayPress
  /\ LET g == spent.rounds + 1
     IN  /\ room' = [room EXCEPT !.song[g] = s, !.round = g, !.playing = FALSE]
         /\ IF me.open THEN Sends([t |-> "prepare", round |-> g, song |-> s, playing |-> FALSE])
            ELSE UNCHANGED down
         /\ spent' = [spent EXCEPT !.rounds = g]
  /\ UNCHANGED me

\* Everybody is ready, or the deadline of the round has passed.
Release ==
  /\ room.round \in Rounds \ room.released
  /\ room' = [room EXCEPT !.released = @ \cup {room.round}, !.playing = TRUE]
  /\ IF me.open THEN Sends([t |-> "play", round |-> room.round, song |-> NoSong, playing |-> TRUE])
     ELSE UNCHANGED down
  /\ UNCHANGED <<me, spent>>

OtherControl ==
  /\ me.open /\ MayPress /\ RoomSong # NoSong
  /\ Sends([t |-> "control", round |-> NoRound, song |-> NoSong, playing |-> ~room.playing])
  /\ room' = [room EXCEPT !.playing = ~@]
  /\ spent' = [spent EXCEPT !.controls = @ + 1] /\ UNCHANGED me

\* The seat holder publishes its playback, once no round holds it back, and
\* applySync has the page rejoin a room on another track, or follow its play and
\* pause.
Heartbeat ==
  /\ ~me.host /\ me.open /\ down = <<>>
  /\ room.round = NoRound \/ room.round \in room.released
  /\ me.joined /\ ~me.spinner /\ ~me.loading
  /\ IF me.current # RoomSong THEN Asks(me)
     ELSE /\ me.playing # room.playing /\ At(Solo) = "idle" /\ UNCHANGED <<down, spent>>
          /\ me' = IF room.playing THEN Resume(me, Solo) ELSE [me EXCEPT !.playing = FALSE]
  /\ UNCHANGED room

-----------------------------------------------------------------------------

Init ==
  /\ me \in [open : {FALSE}, host : BOOLEAN, joined : {FALSE}, timer : {FALSE},
             round : {NoRound}, wait : {NoRound}, spinner : {FALSE}, loader : {Nobody},
             current : Opening, loaded : {NoSong}, playing : {FALSE},
             loading : {FALSE}, task : {[t \in Tasks |-> IdleTask]}]
  /\ room \in [first : Opening, song : {[g \in Rounds |-> NoSong]},
               round : {NoRound}, playing : BOOLEAN, released : {{}}]
  /\ room.first = NoSong => ~room.playing
  /\ down = <<>>
  /\ spent = [rounds |-> 0, controls |-> 0, events |-> 0]

OfRound(g) ==
  \/ YouTubeDone(g) \/ WaitDone(g) \/ AlignDone(g)
  \/ \E ok \in BOOLEAN : LoadDone(g, ok)

OfSnapshot(t) ==
  \/ SnapshotYouTube(t) \/ SnapshotAligned(t)
  \/ \E ok \in BOOLEAN : SnapshotLoaded(t, ok)

Resumes(t) == ResumeDone(t) \/ \E ok \in BOOLEAN : SoloDone(t, ok)

Receives == OnPlay \/ OnPrepare \/ OnSnapshot \/ OnControl

Next ==
  \/ \E s \in Songs : Press(s) \/ OtherPress(s)
  \/ \E g \in Rounds : OfRound(g) \/ ConsensusTimeout(g)
  \/ \E t \in Snapshots : OfSnapshot(t)
  \/ \E t \in Tasks : Resumes(t)
  \/ Receives \/ JoinTimer \/ OnOpen \/ OnClosed \/ LocalControl
  \/ Release \/ OtherControl \/ Heartbeat

Spec == Init /\ [][Next]_vars

\* The page's own code runs, the relay answers a join at last and releases what it
\* announced; nobody has to press, and nothing has to fail.
Runs ==
  \/ \E g \in Rounds : OfRound(g) \/ ConsensusTimeout(g)
  \/ \E t \in Snapshots : OfSnapshot(t)
  \/ \E t \in Tasks : Resumes(t)
  \/ Receives \/ JoinTimer \/ OnOpen

Fairness == WF_vars(Runs) /\ WF_vars(Release) /\ WF_vars(Heartbeat)

FairSpec == Spec /\ Fairness

-----------------------------------------------------------------------------

TaskType ==
  [pc : {"idle", "youtube", "load", "wait", "align", "resume", "solo"},
   song : Songs \cup {NoSong}, playing : BOOLEAN, moved : BOOLEAN, loaded : BOOLEAN,
   released : BOOLEAN]

\* The type of the page's state.  The wait is the current round's: a wait that outlives
\* its round would let the play frame of an old round start it.
TypeOK ==
  /\ me \in [open : BOOLEAN, host : BOOLEAN, joined : BOOLEAN, timer : BOOLEAN,
             round : 0..MaxRounds, wait : 0..MaxRounds, spinner : BOOLEAN,
             loader : Tasks \cup {Nobody}, current : Songs \cup {NoSong},
             loaded : Songs \cup {NoSong}, playing : BOOLEAN, loading : BOOLEAN,
             task : [Tasks -> TaskType]]
  /\ me.wait \in {NoRound, me.round}
  /\ Len(down) <= MaxDown

\* No member starts the track of a round ahead of the others: a round plays once
\* the relay has released it, and only while it is still the room's.
RoundStartsReleased ==
  [][\A g \in Rounds : At(g) = "align" /\ me'.task[g].pc \in {"resume", "solo"}
        => me.round = g /\ g \in room.released]_vars

\* The spinner, which holds back joins and the heartbeat, never stays: every round
\* plays, fails, times out or is closed, whatever superseded it.
SpinnerEnds == me.spinner ~> ~me.spinner

\* A join left unanswered is asked again, so an open page is joined at last.
JoinedAtLast == me.open ~> me.joined \/ ~me.open

\* No round and no join is waited for without end.
RoundsEnd == SpinnerEnds /\ JoinedAtLast

\* Left alone, a peer ends up on the track the room plays, through rounds that
\* supersede each other, timeouts, failed loads and a lost connection.
LandsOnRoom == <>[](me.open /\ ~me.host /\ RoomSong # NoSong => me.current = RoomSong)
=============================================================================
