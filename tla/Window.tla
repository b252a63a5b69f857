-------------------------------- MODULE Window -------------------------------
(* What every view of the window shares: the session history and the mirror *)
(* the header keeps of it, the stack of open sheets a back press answers    *)
(* to, and the one context menu. src/frontend/src/lib/shared/views:         *)
(* stores/history.ts, stores/overlays.ts, ui/components/sheet.tsx,          *)
(* ui/components/context-menu.tsx                                           *)
EXTENDS Integers, Sequences, SequencesExt, FiniteSets

CONSTANTS
    Routes,    \* the pages there are
    Root,      \* the page with nowhere to go back to
    MaxTrail   \* how long the session history may become

ASSUME WindowAssumption == Root \in Routes /\ MaxTrail \in Nat \ {0}

VARIABLES
    trail,     \* the browser's session history: the routes visited
    at,        \* the browser's position in it
    pointer,   \* the mirror's position, from 0
    size,      \* the mirror's length
    held,      \* the open sheets, in the order they were opened
    menu,      \* the context menu, with what its items captured
    touch,     \* the pointer is coarse
    drag,      \* the pointer drag under way: where it began and what it is over
    strayed,   \* the browser moved without the mirror (history)
    left       \* how often each kind of input may still happen (a bound)
windowVars == <<trail, at, pointer, size, held, menu, touch, drag, strayed, left>>
historyVars == <<trail, at, pointer, size, strayed>>

NoMenu == [of |-> "nothing"]
NoDrag == [at |-> "none"]
Route == trail[at]

Spend(kind) == left[kind] > 0 /\ left' = [left EXCEPT ![kind] = @ - 1]

WindowInit ==
    /\ trail = <<Root>> /\ at = 1
    /\ pointer = 0 /\ size = 1
    /\ held = <<>> /\ menu = NoMenu /\ drag = NoDrag
    /\ touch \in BOOLEAN
    /\ strayed = FALSE

-----------------------------------------------------------------------------
(* The mirror of the session history *)

canForward == pointer < size - 1

\* mutated: a navigation keeps what was ahead of it
pushStateLong(to) ==
    /\ at < MaxTrail
    /\ trail' = Append(SubSeq(trail, 1, at), to)
    /\ at' = at + 1
    /\ IF to = Route
       THEN UNCHANGED <<pointer, size>> /\ strayed' = TRUE
       ELSE /\ pointer' = pointer + 1
            /\ size' = IF pointer + 2 > size THEN pointer + 2 ELSE size
            /\ UNCHANGED strayed
\* The browser drops what was ahead and adds an entry, even for the route it
\* is on; the mirror counts only a route that changed.
pushState(to) ==
    /\ at < MaxTrail
    /\ trail' = Append(SubSeq(trail, 1, at), to)
    /\ at' = at + 1
    /\ IF to = Route
       THEN UNCHANGED <<pointer, size>> /\ strayed' = TRUE
       ELSE /\ pointer' = pointer + 1
            /\ size' = pointer + 2
            /\ UNCHANGED strayed

back ==
    /\ pointer > 0
    /\ pointer' = pointer - 1
    /\ at' = IF at > 1 THEN at - 1 ELSE at
    /\ UNCHANGED <<trail, size, strayed>>

forward ==
    /\ canForward
    /\ pointer' = pointer + 1
    /\ at' = IF at < Len(trail) THEN at + 1 ELSE at
    /\ UNCHANGED <<trail, size, strayed>>

\* The platform's own back and forward move the browser alone.
NativeMove(to) ==
    /\ to \in {at - 1, at + 1} \cap DOMAIN trail
    /\ at' = to /\ strayed' = TRUE
    /\ UNCHANGED <<trail, pointer, size>>

\* A page that loads again takes the end of the history for its position.
Reloaded ==
    /\ pointer' = Len(trail) - 1 /\ size' = Len(trail)
    /\ strayed' = (at # Len(trail))
    /\ UNCHANGED <<trail, at>>

-----------------------------------------------------------------------------
(* The stack of sheets, and the menu *)

\* A sheet holds its close while it is open, wherever in the stack it is.
Restack(open) ==
    LET kept == SelectSeq(held, LAMBDA sheet : sheet \in open)
    IN  kept \o SetToSeq(open \ ToSet(kept))

\* A menu opened by a fine pointer floats and closes with the next press
\* outside of it; on touch it is a sheet like the others.
OpenMenu(captured) == menu' = captured
CloseMenu == menu' = NoMenu
MenuSheet == IF touch /\ menu # NoMenu THEN {"menu"} ELSE {}

\* The page under an open sheet or menu takes no press; the header does. A
\* pointer that drags does nothing else.
Bare == held = <<>> /\ menu = NoMenu /\ drag = NoDrag

-----------------------------------------------------------------------------
(* The pointer drag (hooks/use-pointer-drag.ts): only a mouse starts one *)

Grab(from) == ~touch /\ drag' = [at |-> "dragging", from |-> from, over |-> from]
Hover(over) == drag.at = "dragging" /\ drag' = [drag EXCEPT !.over = over]

\* However the pointer is let go, what it was last over counts; the click
\* that follows is swallowed.
LetGo == drag.at = "dragging" /\ drag' = NoDrag
==============================================================================
