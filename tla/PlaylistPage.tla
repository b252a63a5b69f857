---------------------------- MODULE PlaylistPage -----------------------------
(* The page of one local playlist: the list the page holds of what is       *)
(* stored, the selection, the drag, the menu and the dialogs over it, and   *)
(* the calls that change the playlist while all of this goes on. Another    *)
(* device's additions reach the stored playlist through a sync pass.        *)
(* src/frontend/src/lib/music/views: ui/playlist/playlist.tsx,              *)
(* ui/playlist/virtualization.tsx, ui/track/track-actions.tsx,              *)
(* ui/playlists/picker.tsx, stores/selection.ts, stores/removal.ts,         *)
(* hooks/row-select.ts                                                      *)
EXTENDS Queries, Window, TLC

CONSTANTS
    Songs,      \* the songs there are
    Home,       \* the playlist before the run: a sequence of Songs
    Newcomers,  \* songs another device may add to it
    Broken,     \* songs that cannot be played
    Matching,   \* songs the text in the search box matches
    Duration,   \* how long each song is
    PageRoute   \* where the page is

ASSUME PageAssumption ==
    /\ Home \in Seq(Songs) /\ IsInjective(Home)
    /\ IsFiniteSet(Songs) /\ Newcomers \subseteq Songs /\ Broken \subseteq Songs
    /\ Duration \in [Songs -> Nat]
    /\ PageRoute \in Routes \ {Root}

VARIABLES
    stored,    \* the playlist in the store
    gone,      \* the playlist was deleted
    listed,    \* the songs of the page's query
    fetch,     \* that query's fetch
    news,      \* a pass changed the store and has not said so yet
    view,      \* the search box, the order, the selection and its anchor
    dialog,    \* the dialogs of the page: removing, deleting, renaming
    picker,    \* the add-to-playlist dialog
    submit,    \* what the picker is adding, and to what
    calls,     \* the calls of the page that have not been answered
    removal,   \* the removal that can be undone
    undo,      \* the undo under way
    raced,     \* an order ran beside a fetch or another order (history)
    seen       \* what was known, confirmed and overlooked (history)
pageVars == <<stored, gone, listed, fetch, news, view, dialog, picker, submit,
              calls, removal, undo, raced, seen>>

None == [at |-> "none"]
NoDialog == [removing |-> {}, deleting |-> FALSE, renaming |-> FALSE]
NoPicker == [songs |-> {}, targets |-> {}, name |-> FALSE]
Orders == {"added", "reverse", "duration-asc", "duration-desc"}

OnPage == Route = PageRoute

PageInit ==
    /\ stored = Home /\ listed = Home /\ gone = FALSE
    /\ fetch = NoFetch /\ news = FALSE
    /\ view = [query |-> FALSE, order |-> "added", selected |-> {},
               anchor |-> 0]
    /\ dialog = NoDialog /\ picker = NoPicker /\ submit = None
    /\ calls = [take |-> None, orders |-> <<>>, delete |-> "none",
                rename |-> "none"]
    /\ removal = None /\ undo = None
    /\ raced = FALSE
    /\ seen = [known |-> ToSet(Home), confirmed |-> {}, overlooked |-> {},
               halfway |-> FALSE]

-----------------------------------------------------------------------------
(* The list *)

\* The songs of some rows by a key, and by row where the key is the same.
Arranged(songs, rows, key) ==
    LET before(i) == {j \in rows : key[j] < key[i] \/ (key[j] = key[i] /\ j <= i)}
    IN  [n \in 1 .. Cardinality(rows) |->
            songs[CHOOSE i \in rows : Cardinality(before(i)) = n]]

\* The songs of a list that are among some, and those that are not, in its order.
Only(songs, some) ==
    Arranged(songs, {i \in DOMAIN songs : songs[i] \in some}, [i \in DOMAIN songs |-> 0])
Without(songs, some) == Only(songs, ToSet(songs) \ some)

Narrowed(songs) == Only(songs, Matching)

sortSongs(songs, order) ==
    CASE order = "reverse" -> Reverse(songs)
      [] order = "duration-asc" ->
            Arranged(songs, DOMAIN songs, [i \in DOMAIN songs |-> Duration[songs[i]]])
      [] order = "duration-desc" ->
            Arranged(songs, DOMAIN songs, [i \in DOMAIN songs |-> -Duration[songs[i]]])
      [] OTHER -> songs

Shown == sortSongs(IF view.query THEN Narrowed(listed) ELSE listed, view.order)
canReorder == ~view.query /\ view.order = "added" /\ Len(listed) > 1
Playable == ToSet(listed) \ Broken

\* The list with one song put where another one is.
move(ids, from, to) ==
    LET f == CHOOSE i \in DOMAIN ids : ids[i] = from
        t == CHOOSE i \in DOMAIN ids : ids[i] = to
    IN  InsertAt(RemoveAt(ids, f), t, from)

-----------------------------------------------------------------------------
(* What the store does with a call of the page; a deleted playlist refuses *)
(* every one, and any one may fail.                                        *)

AddSongs(refs) ==
    stored' = stored \o Without(refs, ToSet(stored))
RemoveSongs(refs) == stored' = Without(stored, refs)

\* An order drops what it does not name. What its sender could not know of
\* was overlooked.
Reorder(refs, known) ==
    /\ stored' = Only(refs, ToSet(stored))
    /\ seen' = [seen EXCEPT !.overlooked = @ \cup (ToSet(stored) \ known)]

Fails == IF gone THEN UNCHANGED left ELSE Spend("faults")

Invalidate == fetch' = Invalidated(OnPage, fetch)

FetchReads == ~gone /\ Reads(fetch, stored, fetch')
FetchLands == Lands(fetch, fetch', listed')
FetchFails == gone /\ fetch.at = "asked" /\ fetch' = NoFetch

\* A pass stores what another device added, and says so afterwards.
Import(s) ==
    /\ ~gone /\ s \in Newcomers \ ToSet(stored) /\ Spend("imports")
    /\ stored' = Append(stored, s) /\ news' = TRUE
    /\ seen' = [seen EXCEPT !.known = @ \cup {s}]
Announce == news /\ news' = FALSE /\ Invalidate

-----------------------------------------------------------------------------
(* The selection *)

Select(songs, anchor) ==
    view' = [view EXCEPT !.selected = songs, !.anchor = anchor]
clearSelection == Select({}, 0)

toggleSelection(s, anchor) ==
    LET next == IF s \in view.selected THEN view.selected \ {s}
                                       ELSE view.selected \cup {s}
    IN  Select(next, IF next = {} THEN 0 ELSE anchor)

selectRange(from, to) ==
    LET lo == IF from < to THEN from ELSE to
        hi == IF from < to THEN to ELSE from
    IN  {Shown[i] : i \in (lo .. hi) \cap DOMAIN Shown}

Idle == Bare /\ OnPage

\* A click on a row. The anchor is a row number: what it names changes with
\* the list.
RowClick(i, how) ==
    /\ Idle /\ i \in DOMAIN Shown /\ Shown[i] \notin Broken /\ Spend("clicks")
    /\ CASE touch -> IF view.selected = {} THEN UNCHANGED view
                     ELSE toggleSelection(Shown[i], view.anchor)
         [] how = "shift" /\ view.selected # {} /\ view.anchor # 0 ->
                Select(selectRange(view.anchor, i), view.anchor)
         [] how = "ctrl" ->
                Select((view.selected \cup {Shown[i]})
                         \ (view.selected \cap {Shown[i]}), i)
         [] OTHER -> Select({Shown[i]}, i)

\* The empty part of the list, and the selection bar's own button.
Deselect == Idle /\ view.selected # {} /\ Spend("clicks") /\ clearSelection

\* The selection bar takes the place of the search box and the order.
Filters == Cardinality(view.selected) <= 1
Search(on) ==
    /\ Idle /\ Filters /\ on # view.query /\ Spend("filters")
    /\ view' = [view EXCEPT !.query = on]
OrderBy(order) ==
    /\ Idle /\ Filters /\ order # view.order /\ Spend("filters")
    /\ view' = [view EXCEPT !.order = order]

-----------------------------------------------------------------------------
(* The menus: each captures the songs it was opened for *)

RowSongs(s) ==
    (IF s \in view.selected /\ Cardinality(view.selected) > 1
     THEN view.selected ELSE {s}) \ Broken

\* What a menu offers for its songs; only the page's own menu renames.
buildActions(m) ==
    CASE m.of = "row" ->
            {"picker", "remove"}
              \cup (IF Cardinality(m.songs) = 1 THEN {"toggle"} ELSE {"all"})
      [] m.of = "bar" ->
            {"picker", "remove"}
              \cup (IF Cardinality(m.songs) > 1 THEN {"all"} ELSE {})
      [] m.of = "header" ->
            {"rename", "delete"}
              \cup (IF m.songs = {} THEN {} ELSE {"picker", "all"})
      [] OTHER -> {}

MenuFor(of, songs) ==
    [of |-> of, songs |-> songs, all |-> songs \subseteq view.selected]

RowMenu(i) ==
    /\ Idle /\ i \in DOMAIN Shown /\ Shown[i] \notin Broken /\ Spend("menus")
    /\ OpenMenu(MenuFor("row", RowSongs(Shown[i])))
BarMenu ==
    /\ Idle /\ ~Filters /\ view.selected \ Broken # {} /\ Spend("menus")
    /\ OpenMenu(MenuFor("bar", view.selected \ Broken))
PageMenu == Idle /\ Spend("menus") /\ OpenMenu(MenuFor("header", Playable))

\* An item closes the menu and does what it was built to do.
Choose(item) ==
    /\ item \in buildActions(menu)
    /\ CloseMenu
    /\ picker' = IF item = "picker" THEN [picker EXCEPT !.songs = menu.songs]
                                    ELSE picker
    /\ dialog' = CASE ~OnPage -> dialog
                   [] item = "remove" -> [dialog EXCEPT !.removing = menu.songs]
                   [] item = "delete" -> [dialog EXCEPT !.deleting = TRUE]
                   [] item = "rename" -> [dialog EXCEPT !.renaming = TRUE]
                   [] OTHER -> dialog
    /\ CASE item = "toggle" ->
                toggleSelection(CHOOSE s \in menu.songs : TRUE, view.anchor)
         [] item = "all" /\ menu.all -> clearSelection
         [] item = "all" /\ ~menu.all /\ menu.of # "row" ->
                Select(view.selected \cup menu.songs, view.anchor)
         [] OTHER -> UNCHANGED view

-----------------------------------------------------------------------------
(* Removing songs, and taking it back *)

\* What the page lists is stored, and in this order.
InOrder == listed = Only(stored, ToSet(listed))

\* The undo is offered before the removal is answered, with the order the
\* page holds. clean (history): this is the order of the store, and no undo is
\* still to change that; and no order is under way when the undo is pressed.
ConfirmRemove ==
    /\ dialog.removing # {} /\ calls.take = None
    /\ calls' = [calls EXCEPT !.take = [at |-> "sent", refs |-> dialog.removing]]
    /\ removal' = [at |-> "staged", refs |-> dialog.removing, order |-> listed,
                   clean |-> undo = None /\ InOrder]
    /\ dialog' = [dialog EXCEPT !.removing = {}]
    /\ seen' = [seen EXCEPT !.confirmed = @ \cup dialog.removing]
    /\ clearSelection

TakeRuns ==
    /\ calls.take.at = "sent" /\ ~gone
    /\ RemoveSongs(calls.take.refs)
    /\ calls' = [calls EXCEPT !.take.at = "ran"]
TakeFails ==
    /\ calls.take.at = "sent" /\ Fails
    /\ calls' = [calls EXCEPT !.take = None]

TakeAnswered ==
    /\ calls.take.at = "ran"
    /\ calls' = [calls EXCEPT !.take = None] /\ Invalidate

\* mutated: a staged removal outlives what was done to its playlist
expireRemovalNot == UNCHANGED removal
expireRemoval == removal' = None

Undo ==
    /\ removal # None /\ undo = None /\ Spend("undos")
    /\ undo' = [at |-> "adding", refs |-> removal.refs, order |-> removal.order,
                before |-> stored, send |-> <<>>, known |-> {},
                clean |-> removal.clean /\ calls.orders = <<>>]
    /\ removal' = None

UndoAdds ==
    /\ undo.at = "adding" /\ ~gone
    /\ AddSongs(SetToSeq(undo.refs))
    /\ undo' = [undo EXCEPT !.at = "added"]
    /\ seen' = IF calls.take.at = "sent" THEN seen
               ELSE [seen EXCEPT !.confirmed = @ \ undo.refs]

\* mutated: what was added meanwhile is left out of the order
UndoSendsOld ==
    /\ undo.at = "added"
    /\ undo' = [undo EXCEPT !.at = "ordering", !.send = undo.order,
                            !.known = ToSet(undo.order) \cup ToSet(listed)]
\* The order it sends: the one of before, then what the page has that it
\* lacks. What the page has may be older than what is stored.
UndoSends ==
    /\ undo.at = "added"
    /\ undo' = [undo EXCEPT !.at = "ordering",
                  !.send = undo.order \o Without(listed, ToSet(undo.order)),
                  !.known = ToSet(undo.order) \cup ToSet(listed)]
UndoOrders ==
    /\ undo.at = "ordering" /\ ~gone
    /\ Reorder(undo.send, undo.known)
    /\ undo' = [undo EXCEPT !.at = "ordered"]
UndoEnds == undo.at = "ordered" /\ undo' = None /\ Invalidate

\* A failure is reported and the offer is gone; the page is not asked to read
\* what the first half did.
UndoFails ==
    /\ undo.at \in {"adding", "ordering"} /\ Fails
    /\ undo' = None
    /\ seen' = [seen EXCEPT !.halfway = @ \/ undo.at = "ordering"]

-----------------------------------------------------------------------------
(* Reordering *)

Row(n) == [list |-> "page", row |-> n]
Dragged(where) == drag.at = "dragging" /\ drag.from.list = where

DragStart(i) ==
    /\ Idle /\ i \in DOMAIN Shown
    /\ canReorder /\ view.selected = {} /\ Spend("drags")
    /\ Grab(Row(i))
DragOver(i) ==
    Dragged("page") /\ i \in DOMAIN Shown /\ i # drag.over.row /\ Hover(Row(i))

\* The rows dragged from and over are numbers; they name songs of the list as
\* it is when the pointer is let go. The page shows the new order at once.
Drop ==
    /\ Dragged("page") /\ LetGo
    /\ LET from == drag.from.row
           over == drag.over.row
       IN  IF canReorder /\ over # from /\ {from, over} \subseteq DOMAIN listed
           THEN LET refs == move(listed, listed[from], listed[over])
                IN  /\ calls' = [calls EXCEPT !.orders = Append(@,
                         [at |-> "sent", refs |-> refs, known |-> ToSet(listed)])]
                    /\ listed' = Only(refs, ToSet(listed))
           ELSE UNCHANGED <<calls, listed>>

OrderRuns(k) ==
    /\ calls.orders[k].at = "sent" /\ ~gone
    /\ Reorder(calls.orders[k].refs, calls.orders[k].known)
    /\ calls' = [calls EXCEPT !.orders[k].at = "ran"]

\* The page keeps the order it showed; a removal of before is not undone over it.
OrderAnswered(k) ==
    /\ calls.orders[k].at = "ran"
    /\ calls' = [calls EXCEPT !.orders = RemoveAt(@, k)]
    /\ expireRemoval

\* mutated: the page keeps an order the store refused
OrderFailsQuietly(k) ==
    /\ calls.orders[k].at = "sent" /\ Fails
    /\ calls' = [calls EXCEPT !.orders = RemoveAt(@, k)]
    /\ UNCHANGED fetch
OrderFails(k) ==
    /\ calls.orders[k].at = "sent" /\ Fails
    /\ calls' = [calls EXCEPT !.orders = RemoveAt(@, k)]
    /\ Invalidate

-----------------------------------------------------------------------------
(* Deleting and renaming the playlist *)

ConfirmDelete ==
    /\ dialog.deleting /\ calls.delete = "none" /\ Spend("deletes")
    /\ calls' = [calls EXCEPT !.delete = "sent"]
DeleteRuns ==
    /\ calls.delete = "sent" /\ ~gone
    /\ gone' = TRUE /\ calls' = [calls EXCEPT !.delete = "ran"]
DeleteFails ==
    /\ calls.delete = "sent" /\ Fails
    /\ calls' = [calls EXCEPT !.delete = "none"]

\* A location of its own: what the page held for the old one goes with it.
Leave(to) ==
    /\ view' = [view EXCEPT !.selected = {}, !.anchor = 0,
                            !.query = @ /\ to # PageRoute]
    /\ dialog' = NoDialog /\ drag' = NoDrag
    /\ fetch' = IF to = PageRoute THEN Remounted(fetch) ELSE fetch

\* The user is taken to the root, wherever they went while it ran.
DeleteAnswered ==
    /\ calls.delete = "ran"
    /\ calls' = [calls EXCEPT !.delete = "none"]
    /\ pushState(Root)
    /\ IF Route = Root THEN clearSelection /\ UNCHANGED <<dialog, drag, fetch>>
                       ELSE Leave(Root)

\* A rename waits for the page to read the new name before its dialog closes.
RenameSave ==
    /\ dialog.renaming /\ calls.rename = "none" /\ Spend("renames")
    /\ calls' = [calls EXCEPT !.rename = "sent"]
RenameRuns ==
    /\ calls.rename = "sent" /\ ~gone
    /\ calls' = [calls EXCEPT !.rename = "reading"] /\ Invalidate
RenameFails ==
    /\ calls.rename = "sent" /\ Fails
    /\ calls' = [calls EXCEPT !.rename = "none"]
RenameEnds ==
    /\ calls.rename = "reading" /\ Resting(fetch)
    /\ calls' = [calls EXCEPT !.rename = "none"]
    /\ dialog' = [dialog EXCEPT !.renaming = FALSE]

\* A dialog closed by its button, its backdrop or a press of back.
CloseDialog(which) ==
    /\ dialog[which] # NoDialog[which]
    /\ dialog' = [dialog EXCEPT ![which] = NoDialog[which]]

-----------------------------------------------------------------------------
(* Adding songs to playlists *)

PickerOpen == picker.songs # {}

\* Songs of another page: an album, a search.
PickElsewhere(s) ==
    /\ Bare /\ ~OnPage /\ Spend("menus")
    /\ picker' = [picker EXCEPT !.songs = {s}]
toggleTarget(id) ==
    /\ PickerOpen /\ Spend("targets")
    /\ picker' = [picker EXCEPT !.targets = IF id \in @ THEN @ \ {id}
                                                      ELSE @ \cup {id}]
PickerName == PickerOpen /\ ~picker.name /\ Spend("targets")
                /\ picker' = [picker EXCEPT !.name = TRUE]
closePicker == PickerOpen /\ picker' = NoPicker

\* The new playlist is created first, then each target gets the songs in turn.
Submit ==
    /\ PickerOpen /\ submit = None /\ (picker.name \/ picker.targets # {})
    /\ submit' = [at |-> "running", refs |-> picker.songs \ Broken, done |-> {},
                  todo |-> (IF picker.name THEN <<"new">> ELSE <<>>)
                              \o SetToSeq(picker.targets)
                              \o (IF picker.name THEN <<"made">> ELSE <<>>)]
SubmitRuns ==
    /\ submit # None /\ submit.todo # <<>>
    /\ submit' = [submit EXCEPT !.todo = Tail(@), !.done = @ \cup {Head(submit.todo)}]
    /\ IF Head(submit.todo) = "this"
       THEN /\ ~gone /\ AddSongs(SetToSeq(submit.refs))
            /\ seen' = [seen EXCEPT !.known = @ \cup submit.refs,
                  !.confirmed = IF calls.take.at = "sent" THEN @
                                                         ELSE @ \ submit.refs]
       ELSE UNCHANGED <<stored, seen>>
\* What was created or added before the failure stays, and so does the dialog.
SubmitFails ==
    /\ submit # None /\ submit.todo # <<>>
    /\ IF Head(submit.todo) = "this" THEN Fails ELSE Spend("faults")
    /\ submit' = None
    /\ seen' = [seen EXCEPT !.halfway = @ \/ "this" \in submit.done]

\* The dialog open by now closes, and the selection made by now is cleared.
SubmitEnds ==
    /\ submit # None /\ submit.todo = <<>>
    /\ submit' = None /\ picker' = NoPicker
    /\ clearSelection /\ Invalidate
    /\ IF "this" \in submit.done THEN expireRemoval ELSE UNCHANGED removal

-----------------------------------------------------------------------------

dialogs == <<dialog, picker, submit>>
service == <<calls, removal, undo>>
store == <<stored, gone, news>>

PageInput ==
    \/ /\ \/ \E i \in 1 .. Cardinality(Songs), how \in {"plain", "shift", "ctrl"} :
                RowClick(i, how)
          \/ Deselect
          \/ \E on \in BOOLEAN : Search(on)
          \/ \E order \in Orders : OrderBy(order)
       /\ UNCHANGED <<store, listed, fetch, menu, drag, dialogs, service, seen>>
    \/ /\ \/ \E i \in 1 .. Cardinality(Songs) : RowMenu(i)
          \/ BarMenu \/ PageMenu
       /\ UNCHANGED <<store, listed, fetch, view, drag, dialogs, service, seen>>
    \/ /\ \E item \in {"picker", "remove", "toggle", "all", "rename", "delete"} :
                Choose(item)
       /\ UNCHANGED <<store, listed, fetch, drag, submit, service, seen, left>>
    \/ ConfirmRemove
       /\ UNCHANGED <<store, listed, fetch, menu, drag, picker, submit, undo, left>>
    \/ Undo
       /\ UNCHANGED <<store, listed, fetch, view, menu, drag, dialogs, calls, seen>>
    \/ /\ \E i \in 1 .. Cardinality(Songs) : DragStart(i)
       /\ UNCHANGED <<store, listed, fetch, view, menu, dialogs, service, seen>>
    \/ /\ \E i \in 1 .. Cardinality(Songs) : DragOver(i)
       /\ UNCHANGED <<store, listed, fetch, view, menu, dialogs, service, seen, left>>
    \/ Drop
       /\ UNCHANGED <<store, fetch, view, menu, dialogs, removal, undo, seen, left>>
    \/ /\ ConfirmDelete \/ RenameSave
       /\ UNCHANGED <<store, listed, fetch, view, menu, drag, dialogs, removal, undo,
                      seen>>
    \/ /\ \E which \in {"removing", "deleting", "renaming"} : CloseDialog(which)
       /\ UNCHANGED <<store, listed, fetch, view, menu, drag, picker, submit, service,
                      seen, left>>
    \/ /\ \/ \E s \in Songs : PickElsewhere(s)
          \/ \E id \in {"this", "other"} : toggleTarget(id)
          \/ PickerName
       /\ UNCHANGED <<store, listed, fetch, view, menu, drag, dialog, submit, service,
                      seen>>
    \/ closePicker
       /\ UNCHANGED <<store, listed, fetch, view, menu, drag, dialog, submit, service,
                      seen, left>>
    \/ Submit
       /\ UNCHANGED <<store, listed, fetch, view, menu, drag, dialog, picker, service,
                      seen, left>>

PageQuery ==
    /\ UNCHANGED <<gone, view, menu, drag, dialogs, service>>
    /\ \/ (FetchReads \/ FetchFails) /\ UNCHANGED <<stored, news, listed, seen, left>>
       \/ FetchLands /\ UNCHANGED <<stored, news, seen, left>>
       \/ (\E s \in Songs : Import(s)) /\ UNCHANGED <<listed, fetch>>
       \/ Announce /\ UNCHANGED <<stored, listed, seen, left>>

PageCalls ==
    /\ UNCHANGED <<news, menu, drag>>
    /\ \/ /\ UNCHANGED <<listed, dialogs, view>>
          /\ \/ TakeRuns /\ UNCHANGED <<gone, fetch, removal, undo, seen, left>>
             \/ (TakeFails \/ DeleteFails \/ RenameFails)
                /\ UNCHANGED <<stored, gone, fetch, removal, undo, seen>>
             \/ (TakeAnswered \/ RenameRuns)
                /\ UNCHANGED <<stored, gone, removal, undo, seen, left>>
             \/ (UndoAdds \/ UndoOrders)
                /\ UNCHANGED <<gone, fetch, calls, removal, left>>
             \/ UndoSends
                /\ UNCHANGED <<stored, gone, fetch, calls, removal, seen, left>>
             \/ UndoEnds /\ UNCHANGED <<stored, gone, calls, removal, seen, left>>
             \/ UndoFails /\ UNCHANGED <<stored, gone, fetch, calls, removal>>
             \/ DeleteRuns
                /\ UNCHANGED <<stored, fetch, removal, undo, seen, left>>
             \/ \E k \in DOMAIN calls.orders :
                \/ OrderRuns(k) /\ UNCHANGED <<gone, fetch, removal, undo, left>>
                \/ OrderAnswered(k)
                   /\ UNCHANGED <<stored, gone, fetch, undo, seen, left>>
                \/ OrderFails(k)
                   /\ UNCHANGED <<stored, gone, removal, undo, seen>>
       \/ RenameEnds
          /\ UNCHANGED <<stored, gone, listed, fetch, view, picker, submit, removal,
                         undo, seen, left>>
       \/ /\ UNCHANGED <<gone, listed, dialog, calls, undo>>
          /\ \/ SubmitRuns /\ UNCHANGED <<fetch, view, picker, removal, left>>
             \/ SubmitFails
                /\ UNCHANGED <<stored, fetch, view, picker, removal>>
             \/ SubmitEnds /\ UNCHANGED <<stored, seen, left>>

\* An order beside a fetch or another order may leave the page with a list
\* the store does not have.
Overlaps ==
    calls.orders # <<>> /\ (Running(fetch) \/ Len(calls.orders) > 1)

PageNext ==
    \/ (PageInput \/ PageQuery \/ PageCalls) /\ UNCHANGED historyVars
    \/ DeleteAnswered
       /\ UNCHANGED <<store, listed, menu, picker, submit, removal, undo, seen, left>>

-----------------------------------------------------------------------------
(* Properties *)

\* A song leaves the playlist only because its removal was confirmed, or in
\* an order sent by a page that did not list it yet: never because of how a
\* drag, an undo or an addition was put together. About the calls of
\* playlist.tsx and removal.ts and what the store drops for each.
OnlyConfirmedLeaves ==
    gone \/ seen.known \ ToSet(stored) \subseteq seen.confirmed \cup seen.overlooked

\* What a drag or an undo sends never costs the playlist a song that the page
\* was not told of, "so a stale frontend cannot corrupt the stored list".
StaleKeepsSongs ==
    gone \/ seen.known \ ToSet(stored) \subseteq seen.confirmed

\* An undo puts the removed songs back among those the page listed without
\* moving these: they are left in the order they had when it was pressed, so
\* what was dropped in an order of its own since the removal stays, whatever
\* else runs beside the undo. About expireRemoval.
UndoKeepsOrder ==
    [][ undo.at = "ordering" /\ undo'.at = "ordered" /\ undo.clean
        => LET stayed == (ToSet(undo.before) \cap ToSet(undo.order)) \ undo.refs
           IN  Only(stored', stayed) = Only(undo.before, stayed \cap ToSet(stored)) ]_pageVars

\* With nothing under way and nothing to read the page lists what is stored,
\* unless an order overlapped a fetch or another order, a call failed halfway,
\* or the page was left while it was reading and what it read was changed
\* before it landed ("outdated"): every other answer, failed or not, whether
\* the page is shown by then or not, makes it read the playlist again.
PageSettles ==
    calls.take = None /\ calls.orders = <<>> /\ undo = None /\ submit = None
      /\ fetch = NoFetch /\ ~news /\ ~gone /\ ~raced /\ ~seen.halfway
    => listed = stored
=============================================================================
