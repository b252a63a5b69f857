----------------------------- MODULE LibraryShelf ----------------------------
(* The library: the hearts that keep an external playlist or follow someone, *)
(* the order of the two shelves, and the dialogs that create a playlist and *)
(* delete the local one the playlist page shows.                            *)
(* src/frontend/src/lib: music/views/ui/playlist/saved.ts,                  *)
(* music/views/ui/follow.tsx, music/views/ui/user/follow.ts,                *)
(* music/views/ui/user/following.tsx, music/views/ui/shelf/,                *)
(* music/views/ui/playlists/create.tsx, shared/views/ui/pages/main.tsx      *)
EXTENDS PlaylistPage

CONSTANTS
    ExtRoute,    \* the page of an external playlist
    FollowRoute, \* the shelf of those who are followed
    NewRoute,    \* the page of a playlist just created
    People       \* what the shelf of follows lists, in its own order

ASSUME ShelfAssumption == {ExtRoute, FollowRoute, NewRoute} \subseteq Routes

VARIABLES
    heart,     \* the external playlist: kept, what the views read, the intent
    saves,     \* the calls that keep it or let it go
    follow,    \* someone: followed, what the views read
    pending,   \* the follow calls under way, each with the mounting it is from
    visit,     \* which mounting of the page it is, counted while calls are out
    order,     \* each shelf: the order in the store and the one it reads
    orderings, \* the orders being saved
    sortMode,  \* the shelf's sort mode on touch
    library    \* the shelf's dialogs: creating, saving, confirming, erasing
shelfVars == <<heart, saves, follow, pending, visit, order, orderings, sortMode, library>>

Shelves == {"library", "following"}

ShelfInit ==
    /\ heart = [kept |-> FALSE, read |-> FALSE, fetch |-> NoFetch, intent |-> "store",
                alone |-> FALSE]
    /\ saves = <<>>
    /\ follow = [kept |-> FALSE, read |-> FALSE, fetch |-> NoFetch, alone |-> FALSE]
    /\ pending = <<>> /\ visit = 0
    /\ order = [s \in Shelves |-> [kept |-> <<>>, read |-> <<>>]]
    /\ orderings = <<>>
    /\ sortMode = FALSE
    /\ library = [creating |-> FALSE, saving |-> "none",
                  confirming |-> FALSE, erasing |-> "none"]

-----------------------------------------------------------------------------
(* The heart of an external playlist *)

\* What every control shows: the pending intent before what was read.
isSaved == IF heart.intent = "store" THEN heart.read ELSE heart.intent = "on"
Intent(want) == IF want THEN "on" ELSE "off"

Keep(want) ==
    /\ heart' = [heart EXCEPT !.intent = Intent(want)]
    /\ saves' = Append(saves, [at |-> "sent", want |-> want])

\* The button is on the playlist's page, and on its cover once it is kept. It
\* stays live while a call is under way.
SaveButton ==
    /\ Bare /\ Spend("hearts")
    /\ Route = ExtRoute \/ (Route = Root /\ heart.read)
    /\ Keep(~isSaved)
\* The entry of the page's menu is built with what the heart shows then.
SaveMenu ==
    /\ Bare /\ Route = ExtRoute /\ Spend("menus")
    /\ OpenMenu([of |-> "save", want |-> ~isSaved])
ChooseSave == menu.of = "save" /\ CloseMenu /\ Keep(menu.want)

SaveRuns(k) ==
    /\ saves[k].at = "sent"
    /\ heart' = [heart EXCEPT !.kept = saves[k].want]
    /\ saves' = [saves EXCEPT ![k].at = "answered"]
SaveFails(k) ==
    /\ saves[k].at = "sent" /\ Spend("faults")
    /\ saves' = [saves EXCEPT ![k].at = "answered"]

\* mutated: the intent is dropped with the answer
settleNow(k) ==
    /\ saves[k].at = "answered"
    /\ heart' = [heart EXCEPT !.intent = "store"]
    /\ saves' = RemoveAt(saves, k)
\* Answered or failed, what is stored is read again, and the intent waits for
\* it: every page shows hearts.
settle(k) ==
    /\ saves[k].at = "answered"
    /\ heart' = [heart EXCEPT !.fetch = Asked]
    /\ saves' = [saves EXCEPT ![k].at = "settling"]
\* The intent it drops may be the one of a later press.
drop(k) ==
    /\ saves[k].at = "settling" /\ heart.fetch = NoFetch
    /\ heart' = [heart EXCEPT !.intent = "store"]
    /\ saves' = RemoveAt(saves, k)

HeartReads == /\ heart.fetch.at = "asked"
              /\ heart' = [heart EXCEPT !.fetch = ReadOf(heart.kept)]
HeartLands == /\ heart.fetch.at = "read"
              /\ heart' = [heart EXCEPT !.fetch = NoFetch, !.read = heart.fetch.value,
                                        !.alone = FALSE]

-----------------------------------------------------------------------------
(* Following someone *)

\* Only the shelf of follows reads who is followed. A page left and come back
\* to is another mounting: its controls know nothing of the calls of before.
Following == Route = FollowRoute
Counted(n) == IF pending' = <<>> THEN 0 ELSE IF Route' = Route THEN n ELSE n + 1

Follow(control, want) ==
    pending' = Append(pending, [control |-> control, want |-> want, at |-> "sent",
                                from |-> visit])
isPending(control) ==
    \E k \in DOMAIN pending : pending[k].control = control /\ pending[k].from = visit

\* The button waits for its own call, and for the reading after it; the entry
\* of the menu for nothing.
FollowButton ==
    /\ Bare /\ Following /\ Spend("follows")
    /\ ~isPending("button")
    /\ Follow("button", ~follow.read)
FollowMenu ==
    /\ Bare /\ Following /\ ~sortMode /\ Spend("menus")
    /\ OpenMenu([of |-> "follow", want |-> ~follow.read])
ChooseFollow == menu.of = "follow" /\ CloseMenu /\ Follow("menu", menu.want)

FollowRuns(k) ==
    /\ pending[k].at = "sent"
    /\ follow' = [follow EXCEPT !.kept = pending[k].want]
    /\ pending' = [pending EXCEPT ![k].at = "ran"]
\* A failure is reported; nothing is read again.
FollowFails(k) ==
    /\ pending[k].at = "sent" /\ Spend("faults")
    /\ pending' = RemoveAt(pending, k)

\* A call stays pending until what it asked for is read again, where a page
\* shows it; where none does it is over, and the page reads when it is shown.
\* alone (history): the reading to come is one that no call waits for.
FollowAnswered(k) ==
    /\ pending[k].at = "ran"
    /\ follow' = [follow EXCEPT !.fetch = Invalidated(Following, @),
                                !.alone = @ \/ ~Following]
    /\ pending' = IF Following THEN [pending EXCEPT ![k].at = "reading"]
                               ELSE RemoveAt(pending, k)
\* mutated: the control is free again while the reading is under way
FollowEndsEarly(k) ==
    /\ pending[k].at = "reading"
    /\ pending' = RemoveAt(pending, k)
FollowEnds(k) ==
    /\ pending[k].at = "reading" /\ Resting(follow.fetch)
    /\ pending' = RemoveAt(pending, k)

\* A page that is shown reads what is marked.
FollowAsks == /\ Following /\ follow.fetch = Stale
              /\ follow' = [follow EXCEPT !.fetch = Asked]
FollowReads == /\ follow.fetch.at = "asked"
               /\ follow' = [follow EXCEPT !.fetch = ReadOf(follow.kept)]
FollowLands ==
    \E next \in {NoFetch, Outdated}, value \in BOOLEAN :
        /\ Lands(follow.fetch, next, value)
        /\ follow' = [follow EXCEPT !.fetch = next, !.read = value,
                                    !.alone = @ /\ next = Outdated]

-----------------------------------------------------------------------------
(* The order of a shelf *)

\* Items of a saved order come in that order, the others after them.
applyOrder(items, ids) ==
    SelectSeq(ids, LAMBDA id : id \in ToSet(items))
      \o SelectSeq(items, LAMBDA id : id \notin ToSet(ids))

\* The account's lists, what is kept of others, then the local playlists.
Items(shelf) ==
    IF shelf = "following" THEN People
    ELSE <<"liked">> \o (IF heart.read THEN <<"ext">> ELSE <<>>)
                     \o (IF gone THEN <<>> ELSE <<"this">>)
Ordered(shelf) == applyOrder(Items(shelf), order[shelf].read)
ShelfRoute(shelf) == IF shelf = "library" THEN Root ELSE FollowRoute

toggleSortMode ==
    /\ Bare /\ touch /\ Route \in {Root, FollowRoute} /\ Spend("drags")
    /\ sortMode' = ~sortMode

\* A mouse drags from anywhere; touch needs the sort mode, and the browser's own
\* drag then.
ShelfDragStart(shelf, id) ==
    /\ Bare /\ Route = ShelfRoute(shelf) /\ Spend("drags")
    /\ Len(Ordered(shelf)) > 1 /\ id \in ToSet(Ordered(shelf))
    /\ IF touch THEN /\ sortMode
                     /\ drag' = [at |-> "dragging", from |-> [list |-> shelf, row |-> id],
                                 over |-> [list |-> shelf, row |-> id]]
       ELSE Grab([list |-> shelf, row |-> id])
ShelfDragOver(shelf, id) ==
    /\ Dragged(shelf) /\ id \in ToSet(Ordered(shelf)) /\ id # drag.over.row
    /\ Hover([list |-> shelf, row |-> id])

\* The library writes the order where it reads it; the shelf of follows writes
\* it under a key it does not read.
ShelfDrop(shelf) ==
    /\ Dragged(shelf) /\ LetGo
    /\ LET ids == Ordered(shelf)
           from == drag.from.row
           over == drag.over.row
           next == IF {from, over} \subseteq ToSet(ids) THEN move(ids, from, over) ELSE ids
       IN  IF from = over THEN UNCHANGED <<order, orderings>>
           ELSE /\ orderings' = Append(orderings, [shelf |-> shelf, ids |-> next])
                /\ order' = IF shelf = "library"
                            THEN [order EXCEPT !["library"].read = next] ELSE order
OrderSaved(k) ==
    /\ order' = [order EXCEPT ![orderings[k].shelf].kept = orderings[k].ids]
    /\ orderings' = RemoveAt(orderings, k)
\* A pass over the order makes both shelves read it again.
OrderRead ==
    /\ Spend("imports")
    /\ order' = [s \in Shelves |-> [order[s] EXCEPT !.read = order[s].kept]]

-----------------------------------------------------------------------------
(* Creating a playlist, and deleting the local one from its cover *)

CreateOpen == /\ Bare /\ Route = Root /\ Spend("creates")
              /\ library' = [library EXCEPT !.creating = TRUE]
CreateSubmit == /\ library.creating /\ library.saving = "none"
                /\ library' = [library EXCEPT !.saving = "sent"]
CreateFails == /\ library.saving = "sent" /\ Spend("faults")
               /\ library' = [library EXCEPT !.saving = "none"]

\* The location changes; what belonged to the one before is gone.
LeaveShelf == /\ sortMode' = FALSE
              /\ library' = [library EXCEPT !.creating = FALSE, !.confirming = FALSE]
\* The new playlist is shown, whether or not its dialog is still open.
CreateAnswered ==
    /\ library.saving = "sent"
    /\ pushState(NewRoute) /\ Leave(NewRoute)
    /\ sortMode' = FALSE
    /\ library' = [library EXCEPT !.saving = "none", !.creating = FALSE,
                                  !.confirming = FALSE]

\* The cover's own button, and the entry of its menu.
ShelfMenu ==
    /\ Bare /\ Route = Root /\ ~sortMode /\ ~gone /\ Spend("menus")
    /\ OpenMenu([of |-> "cover"])
ChooseErase == /\ menu.of = "cover" /\ CloseMenu
               /\ library' = IF Route = Root THEN [library EXCEPT !.confirming = TRUE]
                             ELSE library
EraseButton == /\ Bare /\ Route = Root /\ ~gone /\ Spend("deletes")
               /\ library' = [library EXCEPT !.confirming = TRUE]
confirmRemove ==
    /\ library.confirming /\ library.erasing = "none"
    /\ library' = [library EXCEPT !.confirming = FALSE, !.erasing = "sent"]
EraseRuns ==
    /\ library.erasing = "sent" /\ ~gone
    /\ gone' = TRUE /\ library' = [library EXCEPT !.erasing = "ran"]
EraseFails ==
    /\ library.erasing = "sent" /\ Fails
    /\ library' = [library EXCEPT !.erasing = "none"]
EraseAnswered ==
    /\ library.erasing = "ran"
    /\ library' = [library EXCEPT !.erasing = "none"] /\ expireRemoval
CloseShelfDialog(which) ==
    /\ library[which] /\ library' = [library EXCEPT ![which] = FALSE]

-----------------------------------------------------------------------------

hearts == <<heart, saves>>
follows == <<follow, pending>>
shelves == <<order, orderings, sortMode>>

ShelfNext ==
    /\ UNCHANGED <<stored, listed, news, picker, submit, calls, undo, seen>>
    /\ \/ /\ UNCHANGED <<historyVars, gone, fetch, view, dialog, removal>>
          /\ \/ SaveButton /\ UNCHANGED <<follows, shelves, library, menu, drag>>
             \/ (SaveMenu \/ FollowMenu \/ ShelfMenu)
                /\ UNCHANGED <<hearts, follows, shelves, library, drag>>
             \/ ChooseSave /\ UNCHANGED <<follows, shelves, library, drag, left>>
             \/ \E k \in DOMAIN saves :
                \/ (SaveRuns(k) \/ settle(k) \/ drop(k))
                   /\ UNCHANGED <<follows, shelves, library, menu, drag, left>>
                \/ SaveFails(k)
                   /\ UNCHANGED <<heart, follows, shelves, library, menu, drag>>
             \/ (HeartReads \/ HeartLands)
                /\ UNCHANGED <<saves, follows, shelves, library, menu, drag, left>>
             \/ FollowButton
                /\ UNCHANGED <<hearts, follow, shelves, library, menu, drag>>
             \/ ChooseFollow
                /\ UNCHANGED <<hearts, follow, shelves, library, drag, left>>
             \/ \E k \in DOMAIN pending :
                \/ (FollowRuns(k) \/ FollowAnswered(k))
                   /\ UNCHANGED <<hearts, shelves, library, menu, drag, left>>
                \/ FollowFails(k)
                   /\ UNCHANGED <<hearts, follow, shelves, library, menu, drag>>
                \/ FollowEnds(k)
                   /\ UNCHANGED <<hearts, follow, shelves, library, menu, drag, left>>
             \/ (FollowAsks \/ FollowReads \/ FollowLands)
                /\ UNCHANGED <<hearts, pending, shelves, library, menu, drag, left>>
             \/ toggleSortMode
                /\ UNCHANGED <<hearts, follows, order, orderings, library, menu, drag>>
             \/ \E shelf \in Shelves :
                \/ /\ \E id \in ToSet(Items(shelf)) : ShelfDragStart(shelf, id)
                   /\ UNCHANGED <<hearts, follows, shelves, library, menu>>
                \/ /\ \E id \in ToSet(Items(shelf)) : ShelfDragOver(shelf, id)
                   /\ UNCHANGED <<hearts, follows, shelves, library, menu, left>>
                \/ ShelfDrop(shelf)
                   /\ UNCHANGED <<hearts, follows, sortMode, library, menu, left>>
             \/ (\E k \in DOMAIN orderings : OrderSaved(k))
                /\ UNCHANGED <<hearts, follows, sortMode, library, menu, drag, left>>
             \/ OrderRead
                /\ UNCHANGED <<hearts, follows, orderings, sortMode, library, menu, drag>>
             \/ (CreateOpen \/ CreateFails \/ EraseButton \/ EraseFails)
                /\ UNCHANGED <<hearts, follows, shelves, menu, drag>>
             \/ ChooseErase /\ UNCHANGED <<hearts, follows, shelves, drag, left>>
             \/ (CreateSubmit \/ confirmRemove
                    \/ \E which \in {"creating", "confirming"} : CloseShelfDialog(which))
                /\ UNCHANGED <<hearts, follows, shelves, menu, drag, left>>
       \/ CreateAnswered
          /\ UNCHANGED <<gone, removal, hearts, follows, order, orderings, menu, left>>
       \/ EraseRuns
          /\ UNCHANGED <<historyVars, fetch, view, dialog, removal, hearts, follows,
                         shelves, menu, drag, left>>
       \/ EraseAnswered
          /\ UNCHANGED <<historyVars, gone, fetch, view, dialog, hearts, follows,
                         shelves, menu, drag, left>>

-----------------------------------------------------------------------------
(* Properties *)

\* With no call under way the heart shows what is stored, however the presses,
\* the answers and the readings came in between: an intent stays until what is
\* stored has been read. Only a window that loaded again has a reading to come
\* that no call waits for. About saved.ts, "otherwise a stale one would shadow
\* the store forever".
HeartSettles ==
    saves = <<>> =>
      /\ heart.intent = "store"
      /\ heart.fetch = NoFetch \/ ~heart.alone => heart.read = heart.kept

\* With no call under way the control shows what is stored, so that a press
\* does the opposite, but for the time a page that comes back to calls of
\* before is still to read, or has read too early: a control is not free
\* before the reading of its own call. About isPending in follow.tsx.
FollowTruthful ==
    pending = <<>> /\ (follow.fetch = NoFetch \/ ~follow.alone)
      => follow.read = follow.kept

\* What the shelf's buttons show is what a press of them acts on.
ShelfSettles == HeartSettles /\ FollowTruthful
=============================================================================
