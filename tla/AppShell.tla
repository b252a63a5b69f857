------------------------------- MODULE AppShell ------------------------------
(* The window: its pages, the sheets above them and what moves between them *)
(* - the header, a press of back, Escape - the queue and the full player,   *)
(* and the reload of a window that was hidden for long.                     *)
(* src/frontend/src: lib/shared/views/ui/app-shell.tsx,                     *)
(* lib/shared/views/ui/router.tsx, lib/shared/views/ui/components/header.tsx, *)
(* lib/music/views/ui/player/index.tsx, lib/music/views/ui/queue/index.tsx, *)
(* main.tsx                                                                 *)
EXTENDS LibraryShelf, RoomsPanel, ClipboardLink, VideoEditor

CONSTANTS Scenes   \* what the users of a run may do: the budgets it starts from

VARIABLES
    panel,     \* the queue, the full player, the compact bar, the search form
    hidden,    \* the window is hidden
    playing,   \* a song is playing
    poll       \* the check of a hidden window: off, armed, asked, measured
shellVars == <<panel, hidden, playing, poll>>
vars == <<windowVars, pageVars, shelfVars, roomsVars, linkVars, editorVars, shellVars>>

\* The shelf of rooms is visited where a run has something to do there.
Links == {Root, FollowRoute, PageRoute, ExtRoute}
           \cup (IF left.rooms > 0 THEN {RoomsRoute} ELSE {})

Init ==
    /\ left \in Scenes
    /\ WindowInit /\ PageInit /\ ShelfInit /\ RoomsInit /\ LinkInit
    /\ EditorInit
    /\ panel = [queue |-> FALSE, player |-> FALSE, compact |-> FALSE, search |-> FALSE]
    /\ hidden = FALSE /\ playing \in BOOLEAN /\ poll = "off"

\* What is open as a sheet: dialogs, the picker, the queue, the player, and on
\* touch the menu.
OpenSheets ==
    {d \in {"removing", "deleting", "renaming"} : dialog[d] # NoDialog[d]}
      \cup {d \in {"creating", "confirming"} : library[d]}
      \cup (IF PickerOpen THEN {"picker"} ELSE {})
      \cup {p \in {"queue", "player"} : panel[p]}
      \cup (IF form.open THEN {"sync"} ELSE {})
      \cup (IF EditorOpen THEN {"video"} ELSE {})
      \cup MenuSheet

\* What no press of the shell reaches.
OutOfReach == <<stored, gone, listed, news, submit, calls, removal, undo, seen,
                hearts, follows, order, orderings, hidden, playing, poll, saved, rooms,
                roomsFetch, session, wanted, dial, roomCalls, typed, muddled, linked,
                carried, submits, resolves, stream, meant, crossed>>

-----------------------------------------------------------------------------
(* Moving between pages *)

\* Where the location stays the same, nothing is left behind.
Arrive(to) ==
    IF to = Route THEN UNCHANGED <<view, dialog, drag, fetch, sortMode, library>>
    ELSE Leave(to) /\ LeaveShelf

\* A link, a search, a card: all push.
LinkTo(to) ==
    /\ menu = NoMenu \/ touch
    /\ to \in Links /\ Spend("moves")
    /\ pushState(to) /\ Arrive(to)

\* The banner's page link, with the banner over every page.
OpenClipboardPage ==
    /\ menu = NoMenu \/ touch
    /\ OpenPage /\ pushState(Leads[offer.link]) /\ Arrive(Leads[offer.link])
    /\ UNCHANGED <<clip, check, last, ignored, opening, effect, nowPlaying, offered,
                   left>>

\* The search form opens and closes; what is submitted is a page of its own.
toggleSearch == /\ Spend("moves")
                /\ panel' = [panel EXCEPT !.search = ~@]
onSearchSubmit ==
    /\ panel.search /\ Spend("moves") /\ pushState(ExtRoute) /\ Arrive(ExtRoute)

\* Pops the sheet that was opened last, and closes it.
dismiss ==
    LET top == Last(held)
    IN  /\ held # <<>>
        /\ dialog' = IF top \in DOMAIN dialog THEN [dialog EXCEPT ![top] = NoDialog[top]]
                     ELSE dialog
        /\ library' = IF top \in {"creating", "confirming"}
                      THEN [library EXCEPT ![top] = FALSE] ELSE library
        /\ picker' = IF top = "picker" THEN NoPicker ELSE picker
        /\ panel' = IF top \in {"queue", "player"}
                    THEN [panel EXCEPT ![top] = FALSE] ELSE panel
        /\ menu' = IF top = "menu" THEN NoMenu ELSE menu
        /\ form' = IF top = "sync" THEN [form EXCEPT !.open = FALSE] ELSE form
        /\ IF top = "video" THEN closeEditor ELSE UNCHANGED editor

\* The header's button asks the sheets first, then the mirror, then goes home;
\* at the root with nothing open it is off.
goBack ==
    \/ /\ dismiss
       /\ UNCHANGED <<historyVars, view, fetch, drag, sortMode, left>>
    \/ /\ held = <<>> /\ Route # Root /\ (menu = NoMenu \/ touch) /\ Spend("moves")
       /\ \/ back /\ Arrive(trail'[at'])
          \/ pointer <= 0 /\ pushState(Root) /\ Arrive(Root)
       /\ UNCHANGED <<picker, menu, panel, form, editor>>
goForward ==
    /\ (menu = NoMenu \/ touch) /\ Spend("moves")
    /\ forward /\ Arrive(trail'[at'])
\* The platform's button asks the sheets too, then moves the browser itself.
nativeBack ==
    /\ held = <<>> /\ Spend("natives")
    /\ \E to \in DOMAIN trail : NativeMove(to) /\ Arrive(trail[to])

\* One press of Escape reaches every listener there is: the menu, the
\* selection, the queue, the name being typed.
Escape ==
    /\ \/ menu # NoMenu /\ ~touch
       \/ view.selected # {} \/ panel.queue \/ dialog.renaming
    /\ Spend("clicks")
    /\ menu' = IF touch THEN menu ELSE NoMenu
    /\ view' = IF view.selected = {} THEN view
               ELSE [view EXCEPT !.selected = {}, !.anchor = 0]
    /\ panel' = [panel EXCEPT !.queue = FALSE]
    /\ dialog' = [dialog EXCEPT !.renaming = FALSE]
PressOutside == menu # NoMenu /\ CloseMenu

-----------------------------------------------------------------------------
(* The queue and the full player *)

\* The queue takes the player's place.
showQueue ==
    /\ ~panel.queue /\ Spend("panels")
    /\ panel' = [panel EXCEPT !.queue = TRUE, !.player = FALSE]
    /\ menu' = IF touch THEN menu ELSE NoMenu
closePanel(which) == panel[which] /\ panel' = [panel EXCEPT ![which] = FALSE]

\* On a wide window the compact bar gives its place back; on a narrow one the
\* player opens, by a press or a drag upwards, over the menu.
onExpand ==
    /\ Spend("panels")
    /\ IF touch
       THEN /\ ~panel.player
            /\ panel' = [panel EXCEPT !.player = TRUE] /\ menu' = NoMenu
       ELSE /\ panel.compact
            /\ panel' = [panel EXCEPT !.compact = FALSE] /\ menu' = NoMenu
\* The editor opens from a row and from the full player, which gives way.
EditVideo ==
    /\ Bare \/ panel.player
    /\ \E s \in Edited, had \in Videos \cup {NoVideo} : openEditor(s, had)
    /\ panel' = [panel EXCEPT !.player = FALSE]
    /\ UNCHANGED <<OutOfReach, historyVars, linkVars, view, fetch, drag, dialog, picker,
                   menu, sortMode, library, form>>
setCompactPlayer ==
    /\ ~touch /\ ~panel.compact /\ Bare /\ Spend("panels")
    /\ panel' = [panel EXCEPT !.compact = TRUE]

-----------------------------------------------------------------------------
(* A window hidden for long *)

onHidden == /\ ~hidden /\ Spend("hides") /\ hidden' = TRUE
            /\ poll' = IF touch THEN poll ELSE "armed"
            /\ drag' = NoDrag
\* What was asked before the window came back goes on.
onVisible == /\ hidden /\ hidden' = FALSE
             /\ poll' = IF poll = "armed" THEN "off" ELSE poll
\* Five minutes on, the queries of the document are only marked stale or, where
\* they are shown, asked again.
Shed == hidden /\ Spend("hides") /\ Invalidate
Play == Spend("hides") /\ playing' = ~playing

pollAsks == poll = "armed" /\ ~playing /\ poll' = "asked"
pollMeasures == poll = "asked" /\ poll' = "measured"
pollKeeps == poll \in {"asked", "measured"} /\ poll' = IF hidden THEN "armed" ELSE "off"

Quiet ==
    /\ calls.take = None /\ calls.orders = <<>> /\ calls.delete = "none"
    /\ calls.rename = "none" /\ undo = None /\ submit = None
    /\ saves = <<>> /\ orderings = <<>> /\ Resting(fetch)
    /\ pending = <<>>
    /\ library.saving = "none" /\ library.erasing = "none"

\* What was read is gone: nothing is shown as kept or followed before it is
\* read again.
ReloadShelf ==
    /\ heart' = [heart EXCEPT !.read = FALSE, !.fetch = Asked, !.alone = TRUE]
    /\ follow' = [follow EXCEPT !.read = FALSE, !.fetch = Stale, !.alone = TRUE]
    /\ UNCHANGED <<saves, pending>>

\* The run reloads outside of a room (a bound).
ReloadRooms ==
    /\ session.status = "idle" /\ wanted = GivenUp /\ dial = NoDial
    /\ roomCalls = <<>> /\ roomsFetch = NoFetch
    /\ rooms' = [known |-> FALSE, list |-> Unread] /\ form' = NoForm
    /\ UNCHANGED <<saved, roomsFetch, session, wanted, dial, roomCalls, typed, muddled>>

\* The page loads again: what the views kept in memory is gone, the store, the
\* order and the compact bar it saved are not. The calls of minutes ago have
\* been answered.
ReloadWindow ==
    /\ poll = "measured" /\ Quiet
    /\ Reloaded
    /\ poll' = "off" /\ panel' = [panel EXCEPT !.queue = FALSE, !.player = FALSE,
                                               !.search = FALSE]
    /\ menu' = NoMenu /\ drag' = NoDrag /\ playing' = FALSE
    /\ view' = [view EXCEPT !.query = FALSE, !.selected = {}, !.anchor = 0]
    /\ dialog' = NoDialog /\ picker' = NoPicker /\ removal' = None
    /\ sortMode' = FALSE
    /\ library' = [library EXCEPT !.creating = FALSE, !.confirming = FALSE]
    /\ listed' = <<>> /\ fetch' = Invalidated(OnPage, NoFetch)
    /\ ReloadShelf /\ ReloadRooms /\ ReloadLink /\ ReloadEditor

-----------------------------------------------------------------------------

ShellInput ==
    /\ UNCHANGED <<OutOfReach, linkVars>>
    /\ \/ (\E to \in Links : LinkTo(to)) /\ UNCHANGED <<picker, menu, panel, form, editor>>
       \/ (onSearchSubmit \/ goForward \/ nativeBack) /\ UNCHANGED <<picker, menu, panel, form, editor>>
       \/ goBack
       \/ toggleSearch
          /\ UNCHANGED <<historyVars, view, fetch, drag, dialog, picker, menu, sortMode,
                         library, form, editor>>
       \/ Escape
          /\ UNCHANGED <<historyVars, fetch, drag, picker, sortMode, library, form, editor>>
       \/ PressOutside
          /\ UNCHANGED <<historyVars, view, fetch, drag, dialog, picker, sortMode,
                         library, panel, form, editor, left>>
       \/ (showQueue \/ onExpand)
          /\ UNCHANGED <<historyVars, view, fetch, drag, dialog, picker, sortMode, library,
                         form, editor>>
       \/ setCompactPlayer
          /\ UNCHANGED <<historyVars, view, fetch, drag, dialog, picker, menu, sortMode,
                         library, form, editor>>
       \/ (\E which \in {"queue", "player"} : closePanel(which))
          /\ UNCHANGED <<historyVars, view, fetch, drag, dialog, picker, menu, sortMode,
                         library, form, editor, left>>

ShellIdle ==
    /\ UNCHANGED <<stored, gone, news, submit, calls, undo, seen, order, orderings>>
    /\ \/ ReloadWindow /\ UNCHANGED <<hidden, left>>
       \/ /\ UNCHANGED <<hearts, follows, historyVars, menu, listed, view, dialog, picker, removal,
                         sortMode, library, panel, roomsVars,
                         linkVars, editorVars>>
          /\ \/ onHidden /\ UNCHANGED <<fetch, playing>>
             \/ onVisible /\ UNCHANGED <<fetch, playing, drag, left>>
             \/ Shed /\ UNCHANGED <<hidden, playing, poll, drag>>
             \/ Play /\ UNCHANGED <<fetch, hidden, poll, drag>>
             \/ (pollAsks \/ pollMeasures \/ pollKeeps)
                /\ UNCHANGED <<fetch, hidden, playing, drag, left>>

\* Every sheet that opens or closes in a step is held or released by it.
Next ==
    /\ \/ /\ PageNext /\ UNCHANGED <<hearts, follows, order, orderings, roomsVars,
                                  linkVars, editorVars, shellVars>>
          /\ IF Route' = Route THEN UNCHANGED <<sortMode, library>> ELSE LeaveShelf
       \/ ShelfNext /\ UNCHANGED <<roomsVars, linkVars, editorVars, shellVars>>
       \/ RoomsNext /\ UNCHANGED <<pageVars, shelfVars, linkVars, editorVars, shellVars>>
       \/ /\ LinkNext /\ UNCHANGED <<pageVars, shelfVars, roomsVars, editorVars, shellVars>>
          /\ hidden /\ check = NoCheck => check' = NoCheck
       \/ /\ EditorNext
          /\ UNCHANGED <<pageVars, shelfVars, roomsVars, linkVars, shellVars>>
       \/ ShellInput
       \/ OpenClipboardPage
          /\ UNCHANGED <<OutOfReach, picker, menu, panel, form, editor>>
       \/ EditVideo
       \/ ShellIdle
    /\ UNCHANGED touch
    /\ held' = Restack(OpenSheets')
    /\ raced' = (raced \/ Overlaps')
    /\ visit' = Counted(visit)

Spec == Init /\ [][Next]_vars

-----------------------------------------------------------------------------
(* Properties *)

\* As long as the browser only moves with the mirror, forward is offered
\* exactly when there is a page ahead and back knows the way home. About
\* history.ts, which "mirrors the browser's position in its session history".
MirrorTrue ==
    ~strayed => /\ pointer = at - 1
                /\ canForward <=> at < Len(trail)
=============================================================================
