------------------------------- MODULE QueueOps -------------------------------
(***************************************************************************)
(* The pure part of the queue: app/queue.ts, app/shuffle.ts,               *)
(* app/playback.ts and clampIndex of stores/queue.ts.                      *)
(*                                                                         *)
(* A track is a record [id, yt]: the song's id and whether a YouTube id    *)
(* has been found for it.  Positions count from 1, and 0 is the code's -1. *)
(***************************************************************************)
EXTENDS Naturals, Sequences, FiniteSets, SequencesExt

Holds(q, i) == i \in 1..Len(q)

Ids(q) == [i \in DOMAIN q |-> q[i].id]

Copies(q, id) == {i \in DOMAIN q : q[i].id = id}

\* songs.findIndex((song) => song.id === id)
Find(q, id) == IF Copies(q, id) = {} THEN 0 ELSE Min(Copies(q, id))

\* sameQueue: the same ids, as often each, in whatever order.
SameQueue(a, b) ==
  /\ Len(a) = Len(b)
  /\ \A i \in DOMAIN b : Cardinality(Copies(a, b[i].id)) = Cardinality(Copies(b, b[i].id))

\* isOwnList: is the list on the page the one the queue was started from?
IsOwnList(source, queueSource, songs, q, NoList) ==
  IF source # NoList THEN source = queueSource ELSE SameQueue(q, songs)

\* clampIndex
ClampIndex(i, n) == IF n = 0 THEN 0 ELSE IF i > n THEN n ELSE i

\* insertAt: after the first at tracks, or at the end of a shorter queue.
Splice(q, songs, at) ==
  LET k == IF at > Len(q) THEN Len(q) ELSE at
  IN  SubSeq(q, 1, k) \o songs \o SubSeq(q, k + 1, Len(q))

\* next.splice(from, 1); next.splice(to, 0, item)
Moved(q, from, to) == Splice(RemoveAt(q, from), <<q[from]>>, to - 1)

\* pinAfter: may the track at from be moved under the playing one?
CanPin(q, i, from) == Holds(q, from) /\ Holds(q, i) /\ from # i /\ from # i + 1

\* pinAfter, where the playing track is found again by its id.
PinAfter(q, i, from) ==
  LET rest == RemoveAt(q, from)
      at == Find(rest, q[i].id)
  IN  [queue |-> Splice(rest, <<q[from]>>, at), index |-> at]

\* permute: a seed stands for one order of every length it is drawn for.
Draws(seed, q) == Len(q) \in DOMAIN seed
Permute(q, seed) == [i \in DOMAIN q |-> q[seed[Len(q)][i]]]

\* delta: the edit that turns prev into next, or the whole of next.
DeltaOff(prev, next) ==   \* mutated: the insertion is placed one row too late
  IF Len(next) > Len(prev)
    THEN [op |-> "enqueue", songs |-> SubSeq(next, Len(prev) + 1, Len(next)), at |-> Len(prev)]
    ELSE [op |-> "queue", songs |-> next]
Delta(prev, next) ==
  LET n == Len(prev)
      extra == Len(next) - n
      start == CHOOSE k \in 0..n : /\ \A i \in 1..k : prev[i].id = next[i].id
                                   /\ k = n \/ prev[k + 1].id # next[k + 1].id
      changed == {i \in 1..n : prev[i].yt # next[i].yt}
  IN  CASE Len(next) > n /\ \A i \in (start + 1)..n : prev[i].id = next[i + extra].id
             -> [op |-> "enqueue", songs |-> SubSeq(next, start + 1, start + extra), at |-> start]
        [] Ids(next) = Ids(prev) /\ Cardinality(changed) = 1
             -> LET i == CHOOSE i \in changed : TRUE
                IN  [op |-> "youtube", id |-> next[i].id, yt |-> next[i].yt]
        [] OTHER -> [op |-> "queue", songs |-> next]

\* pick: the track after (step 1) or before (step -1) the i-th, 0 at the end.
PickNext(n, i, mode) ==
  CASE mode = "one" -> i
    [] mode # "one" /\ i < n -> i + 1
    [] OTHER -> IF mode = "all" /\ n > 0 THEN 1 ELSE 0
PickPrevious(n, i, mode) ==
  CASE mode = "one" -> i
    [] mode # "one" /\ i > 1 -> i - 1
    [] OTHER -> IF mode = "all" /\ n > 0 THEN n ELSE 0
=============================================================================
