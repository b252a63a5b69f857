---------------------------- MODULE MCQueuePlayer -----------------------------
(* Two songs: an album and search results that hold both, and the order a     *)
(* shuffle draws.  A song added again is in the queue twice.                  *)
EXTENDS QueuePlayer, TLC

CONSTANTS a, b, album

Track(s) == [id |-> s, yt |-> FALSE]
MCSongs == {a, b}
MCLists == (album :> <<Track(a), Track(b)>>) @@ (NoList :> <<Track(b), Track(a)>>)
MCSeeds == {[n \in 0..5 |-> [i \in 1..n |-> (i % n) + 1]]}

Budget(g, p, r, e) == [gestures |-> g, previews |-> p, remote |-> r, events |-> e]
MCBudgets == {Budget(2, 0, 1, 1), Budget(1, 0, 2, 1), Budget(2, 1, 0, 1), Budget(1, 1, 1, 0),
              Budget(1, 2, 0, 0)}
=============================================================================
