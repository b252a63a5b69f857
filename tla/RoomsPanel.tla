------------------------------ MODULE RoomsPanel -----------------------------
(* The rooms a user saved: the shelf that lists them, the panel where a code *)
(* and a password are typed, and the connection both act on. The panel keeps *)
(* a copy of the list and saves a changed password by itself; a reconnect    *)
(* uses what the password field holds by then. Every room is on one relay.   *)
(* src/frontend/src/lib/sync/views: hooks/use-room-form.ts, ui/rooms.tsx,    *)
(* ui/session.tsx; src/internal/rooms/store.go                               *)
EXTENDS Queries, Window

CONSTANTS
    Codes,       \* the codes a user may type
    Passwords,   \* the passwords, "" for none
    Typing,      \* the ones a user types
    Saved,       \* the rooms saved before the run, and their passwords
    Seeds,       \* the rooms the run before this one may have connected to
    RoomsRoute,  \* where the shelf is
    MaxCalls     \* how many calls may be unanswered (a bound)

NoRoom == ""
Absent == "absent"

ASSUME RoomsAssumption ==
    /\ NoRoom \notin Codes /\ "" \in Passwords /\ Typing \subseteq Passwords
    /\ Absent \notin Passwords
    /\ Saved \in [Codes -> Passwords \cup {Absent}]
    /\ Seeds \subseteq [room : Codes \cup {NoRoom}, password : Passwords]
    /\ RoomsRoute \in Routes

VARIABLES
    saved,     \* the password of each room in the store, or Absent
    rooms,     \* what the query of the shelf holds
    roomsFetch,
    form,      \* the panel: what is typed, its copy of the list, its timer
    session,   \* the room shown, the role, the status and the password field
    wanted,    \* the room a lost connection is made again to
    dial,      \* the connection being made
    roomCalls, \* the saves and removals that have not been answered
    typed,     \* for each room, the passwords meant for it (history)
    muddled    \* what is shown was not about one room (history)
roomsVars == <<saved, rooms, roomsFetch, form, session, wanted, dial, roomCalls,
               typed, muddled>>

Unread == [c \in Codes |-> Absent]
NoDial == [by |-> "nobody"]
NoForm == [mounted |-> FALSE, open |-> FALSE, code |-> NoRoom, rooms |-> Unread,
           waiting |-> FALSE, armed |-> FALSE, n |-> 0]

\* What a window that has just loaded shows: the room it connected to last.
Seeded(seed) == [room |-> seed.room, password |-> seed.password,
                 role |-> "off", status |-> "idle"]
GivenUp == [room |-> NoRoom, role |-> "off", retry |-> FALSE]

RoomsInit ==
    /\ saved = Saved
    /\ rooms = [known |-> FALSE, list |-> Unread] /\ roomsFetch = NoFetch
    /\ form = NoForm
    \* a run without the panel starts from one seed (a bound)
    /\ \E seed \in Seeds :
        session = Seeded(IF left.rooms = 0 THEN [room |-> NoRoom, password |-> ""]
                         ELSE seed)
    /\ wanted = GivenUp /\ dial = NoDial /\ roomCalls = <<>>
    /\ typed = [c \in Codes |-> {Saved[c]} \ {Absent}]
    /\ muddled = [password |-> FALSE, list |-> FALSE]

-----------------------------------------------------------------------------
(* What the panel makes of what it holds *)

PasswordOf(list, c) == IF c \in Codes THEN list[c] ELSE Absent
savedRoom(f) == PasswordOf(f.rooms, f.code) # Absent
changed(f, password) == savedRoom(f) /\ PasswordOf(f.rooms, f.code) # password

\* A changed password of a saved room starts the pause, or starts it anew; a
\* panel that is closing is gone before a pause it starts is over.
Armed(f, password) == [f EXCEPT !.armed = f.open /\ changed(f, password)]

\* The password shown came from elsewhere than the room it is shown for.
Muddle(f, password) ==
    muddled.password \/ (f.mounted /\ changed(f, password)
                           /\ password \notin typed'[f.code])
ListMuddle == roomCalls # <<>> \/ roomsFetch # NoFetch

Ask == IF roomsFetch = NoFetch THEN Asked ELSE roomsFetch

-----------------------------------------------------------------------------
(* The connection: connect() and stop() of the transport, and its retry *)

Dial(by, code, password) ==
    dial' = [by |-> by, room |-> code, password |-> password]

\* What was joined or dialled before is given up at once.
Connect(code, password) ==
    /\ session' = [room |-> code, password |-> password, role |-> "off",
                   status |-> "connecting"]
    /\ wanted' = [room |-> code, role |-> "off", retry |-> FALSE]
    /\ Dial("user", code, password)
    /\ typed' = [typed EXCEPT ![code] = @ \cup {password}]

Left(s) == [s EXCEPT !.room = NoRoom, !.role = "off", !.status = "idle"]
Stop == session' = Left(session) /\ wanted' = GivenUp /\ dial' = NoDial

Joined == session.status = "open"

\* Open, and told its role.
DialOpens ==
    /\ dial # NoDial /\ dial' = NoDial
    /\ session' = [session EXCEPT !.status = "open", !.role = "member"]
    /\ UNCHANGED wanted
DialFails ==
    /\ dial # NoDial /\ Spend("faults")
    /\ IF dial.by = "user" THEN Stop
       ELSE /\ dial' = NoDial /\ wanted' = [wanted EXCEPT !.retry = TRUE]
            /\ UNCHANGED session
Drops ==
    /\ Joined /\ Spend("faults")
    /\ session' = [session EXCEPT !.status = "closed", !.role = "off"]
    /\ wanted' = [wanted EXCEPT !.role = session.role, !.retry = TRUE]
    /\ UNCHANGED dial
\* A fatal error gives the room up; its name stays on the screen.
Refused ==
    /\ Joined /\ Spend("faults")
    /\ session' = [session EXCEPT !.status = "idle", !.role = "off"]
    /\ wanted' = GivenUp /\ UNCHANGED dial
\* The password is the one of the field, whatever room that is about by now.
Retry ==
    /\ wanted.retry /\ dial = NoDial
    /\ wanted' = [wanted EXCEPT !.retry = FALSE]
    /\ session' = [session EXCEPT !.room = wanted.room, !.status = "connecting",
                      !.role = IF wanted.role = "off" THEN @ ELSE wanted.role]
    /\ Dial("retry", wanted.room, session.password)

-----------------------------------------------------------------------------
(* Opening and closing the panel *)

\* The panel takes the room that is shown for its code, the list as the cache
\* has it, and reads the list where the cache has none or an old one.
Mount(s) ==
    LET f == [mounted |-> TRUE, open |-> TRUE, code |-> s.room, rooms |-> rooms.list,
              waiting |-> TRUE, armed |-> FALSE, n |-> form.n + 1]
    IN  IF form.mounted
        THEN form' = Armed([form EXCEPT !.open = TRUE], s.password)
               /\ UNCHANGED roomsFetch
        ELSE \/ /\ form' = Armed(f, s.password) /\ roomsFetch' = Ask
             \/ /\ rooms.known /\ roomsFetch = NoFetch
                /\ form' = Armed([f EXCEPT !.waiting = FALSE], s.password)
                /\ UNCHANGED roomsFetch

OpenPanel ==
    /\ Bare /\ Spend("rooms")
    /\ Mount(session)
    /\ UNCHANGED <<session, typed>>
    /\ muddled' = [password |-> Muddle(form', session.password),
                   list |-> muddled.list \/ ListMuddle]
closePanelRooms == form.open /\ form' = [form EXCEPT !.open = FALSE]

\* The panel is gone a moment after it closed; outside of a room the password
\* goes with it.
Unmount ==
    /\ form.mounted /\ ~form.open
    /\ form' = [NoForm EXCEPT !.n = form.n]
    /\ session' = IF session.role = "off" /\ session.status = "idle"
                  THEN [session EXCEPT !.password = ""] ELSE session

-----------------------------------------------------------------------------
(* Typing *)

\* mutated: the password typed for one room is carried to the next
TypeCodeKeeping(c) ==
    /\ form.open /\ c # form.code /\ Spend("rooms")
    /\ form' = Armed([form EXCEPT !.code = c], session.password)
    /\ UNCHANGED session
    /\ typed' = [typed EXCEPT ![c] = @ \cup (IF saved[c] = Absent THEN {""} ELSE {})]
    /\ UNCHANGED muddled
\* Another code brings its own password with it, or none.
TypeCode(c) ==
    LET own == PasswordOf(form.rooms, c)
        password == IF own = Absent THEN "" ELSE own
    IN  /\ form.open /\ c # form.code /\ Spend("rooms")
        /\ form' = Armed([form EXCEPT !.code = c], password)
        /\ session' = [session EXCEPT !.password = password]
        /\ typed' = [typed EXCEPT ![c] = @ \cup (IF saved[c] = Absent THEN {""} ELSE {})]
        /\ UNCHANGED muddled

TypePassword(p) ==
    /\ form.open /\ form.code \in Codes /\ p # session.password /\ Spend("rooms")
    /\ session' = [session EXCEPT !.password = p]
    /\ form' = Armed(form, p)
    /\ typed' = [typed EXCEPT ![form.code] = @ \cup {p}]
    /\ UNCHANGED muddled

-----------------------------------------------------------------------------
(* Saving and removing *)

Call(does, code, password, from) ==
    /\ Len(roomCalls) < MaxCalls
    /\ roomCalls' = Append(roomCalls, [does |-> does, code |-> code,
                       password |-> password, from |-> from, at |-> "sent",
                       answer |-> Unread])
    /\ muddled' = [muddled EXCEPT !.list = @ \/ ListMuddle]

commit == Call("save", form.code, session.password, form.n)

Latest(does) == SelectSeq(roomCalls, LAMBDA c : c.does = does /\ c.from = form.n)

\* Left, the field saves what changed; so does a pause in the typing.
Blur == form.open /\ changed(form, session.password) /\ commit /\ UNCHANGED form
Pause == form.armed /\ commit /\ form' = [form EXCEPT !.armed = FALSE]

Mean(code) == typed' = [typed EXCEPT ![code] = @ \cup {session.password}]

SaveRoom ==
    /\ form.open /\ form.code \in Codes /\ ~savedRoom(form)
    /\ Latest("save") = <<>> /\ Spend("rooms")
    /\ commit /\ Mean(form.code) /\ UNCHANGED form
\* The removal was confirmed.
Unsave ==
    /\ form.open /\ savedRoom(form) /\ Latest("remove") = <<>> /\ Spend("rooms")
    /\ Call("remove", form.code, "", form.n) /\ UNCHANGED <<form, typed>>

\* The button is off while connecting, and for the room it is in.
ConnectForm ==
    /\ form.open /\ form.code \in Codes /\ session.status # "connecting"
    /\ session.role # "off" => form.code # session.room
    /\ Spend("rooms") /\ Connect(form.code, session.password)
LeaveForm == form.open /\ session.role # "off" /\ Spend("rooms") /\ Stop

-----------------------------------------------------------------------------
(* The shelf *)

\* The panel covers the shelf while it is open.
OnShelf == Bare /\ ~form.open /\ Route = RoomsRoute /\ Spend("rooms")
activeCode == IF session.status = "idle" THEN NoRoom ELSE session.room
\* The room it is in leads the shelf though it is not saved.
ephemeral == activeCode \in Codes /\ rooms.list[activeCode] = Absent
Rows == {c \in Codes : rooms.list[c] # Absent \/ (ephemeral /\ c = activeCode)}
RowPassword(c) == IF rooms.list[c] = Absent THEN session.password ELSE rooms.list[c]

ShelfAsks ==
    /\ Route = RoomsRoute /\ ~rooms.known /\ roomsFetch = NoFetch
    /\ roomsFetch' = Asked

\* A row opens the panel on its room; what is shown changes with it, in a room
\* or not.
OpenRoom(c) ==
    /\ OnShelf /\ c \in Rows
    /\ session' = [session EXCEPT !.room = c, !.password = RowPassword(c)]
    /\ Mount(session')
    /\ UNCHANGED typed
    /\ muddled' = [password |-> Muddle(form', session'.password),
                   list |-> muddled.list \/ ListMuddle]
JoinRoom(c) ==
    /\ OnShelf /\ c \in Rows
    /\ ~(c = activeCode /\ Joined)
    /\ Connect(c, RowPassword(c)) /\ form' = Armed(form, RowPassword(c))
LeaveShelfRoom ==
    /\ OnShelf /\ activeCode \in Rows /\ Joined /\ Stop
Persist ==
    /\ OnShelf /\ ephemeral
    /\ Call("save", activeCode, session.password, 0) /\ Mean(activeCode)
\* A room it is in is left first.
RemoveRoom(c) ==
    /\ OnShelf /\ rooms.list[c] # Absent
    /\ Call("remove", c, "", 0)
    /\ IF c = activeCode THEN Stop ELSE UNCHANGED <<session, wanted, dial>>

-----------------------------------------------------------------------------
(* The answers *)

\* The store takes one call at a time and answers with the list it leaves.
CallRuns(k) ==
    /\ roomCalls[k].at = "sent"
    /\ saved' = [saved EXCEPT ![roomCalls[k].code] =
                    IF roomCalls[k].does = "save" THEN roomCalls[k].password ELSE Absent]
    /\ roomCalls' = [roomCalls EXCEPT ![k].at = "ran", ![k].answer = saved']
CallFails(k) ==
    /\ roomCalls[k].at = "sent" /\ Spend("faults")
    /\ roomCalls' = RemoveAt(roomCalls, k)

Relisted(f, list) == Armed([f EXCEPT !.rooms = list], session.password)

\* What the panel asked for is put in its copy and in the cache; what the
\* shelf asked for, in the cache alone.
CallAnswered(k) ==
    /\ roomCalls[k].at = "ran"
    /\ roomCalls' = RemoveAt(roomCalls, k)
    /\ rooms' = [known |-> TRUE, list |-> roomCalls[k].answer]
    /\ form' = IF form.mounted /\ roomCalls[k].from = form.n
               THEN Relisted(form, roomCalls[k].answer) ELSE form
    /\ muddled' = [password |-> Muddle(form', session.password),
          list |-> muddled.list \/ (form.mounted /\ roomCalls[k].from # form.n)]

RoomsRead == Reads(roomsFetch, saved, roomsFetch')
RoomsLand ==
    /\ roomsFetch.at = "read" /\ roomsFetch' = NoFetch
    /\ rooms' = [known |-> TRUE, list |-> roomsFetch.value]
    /\ form' = IF form.mounted /\ form.waiting
               THEN Relisted([form EXCEPT !.waiting = FALSE], roomsFetch.value)
               ELSE form
    /\ muddled' = [muddled EXCEPT !.password = Muddle(form', session.password)]

-----------------------------------------------------------------------------

list == <<saved, rooms, roomsFetch>>
link == <<wanted, dial>>

RoomsNext ==
    /\ UNCHANGED <<historyVars, menu, drag>>
    /\ \/ /\ UNCHANGED <<list, form, roomCalls, muddled>>
          /\ \/ DialOpens /\ UNCHANGED <<typed, left>>
             \/ (DialFails \/ Drops \/ Refused) /\ UNCHANGED typed
             \/ Retry /\ UNCHANGED <<typed, left>>
             \/ ConnectForm \/ (LeaveForm /\ UNCHANGED typed)
             \/ (LeaveShelfRoom /\ UNCHANGED typed)
       \/ /\ UNCHANGED <<saved, rooms, link, roomCalls>>
          /\ \/ OpenPanel \/ (\E c \in Codes : OpenRoom(c))
             \/ (\E c \in Codes : TypeCode(c)) /\ UNCHANGED roomsFetch
             \/ (\E p \in Typing : TypePassword(p)) /\ UNCHANGED roomsFetch
             \/ closePanelRooms
                /\ UNCHANGED <<roomsFetch, session, typed, muddled, left>>
             \/ Unmount /\ UNCHANGED <<roomsFetch, typed, muddled, left>>
       \/ /\ UNCHANGED <<list, session, link>>
          /\ \/ (Blur \/ Pause) /\ UNCHANGED <<typed, left>>
             \/ SaveRoom \/ Unsave
             \/ Persist /\ UNCHANGED form
       \/ (\E c \in Codes : JoinRoom(c)) /\ UNCHANGED <<list, roomCalls, muddled>>
       \/ (\E c \in Codes : RemoveRoom(c)) /\ UNCHANGED <<list, form, typed>>
       \/ /\ UNCHANGED <<session, link, typed>>
          /\ \/ ShelfAsks
                /\ UNCHANGED <<saved, rooms, form, roomCalls, muddled, left>>
             \/ RoomsRead
                /\ UNCHANGED <<saved, rooms, form, roomCalls, muddled, left>>
             \/ RoomsLand /\ UNCHANGED <<saved, roomCalls, left>>
             \/ \E k \in DOMAIN roomCalls :
                \/ CallRuns(k)
                   /\ UNCHANGED <<rooms, roomsFetch, form, muddled, left>>
                \/ CallFails(k) /\ UNCHANGED <<list, form, muddled>>
                \/ CallAnswered(k) /\ UNCHANGED <<saved, roomsFetch, left>>

-----------------------------------------------------------------------------
(* Properties *)

\* What is saved for a room was meant for it: a password typed for one room is
\* never written to another by the save that follows a pause, however codes,
\* answers and connections come in between - unless the panel was opened on, or
\* its list brought, a saved room with a password in the field that was meant for
\* another. "Switching rooms must not carry the previous password".
OwnPassword ==
    ~muddled.password => \A c \in Codes : saved[c] \in typed[c] \cup {Absent}

\* With nothing under way the shelf and the panel list what is saved, unless
\* calls or readings overlapped: every answer reaches both.
RoomsSettle ==
    roomCalls = <<>> /\ roomsFetch = NoFetch /\ rooms.known /\ ~muddled.list
    => rooms.list = saved /\ (form.mounted => form.rooms = saved)

\* What is saved for the rooms is what was meant, and what is listed.
RoomsKept == OwnPassword /\ RoomsSettle
==============================================================================
