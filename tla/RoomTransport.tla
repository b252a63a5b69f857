---------------------------- MODULE RoomTransport ----------------------------
(***************************************************************************)
(* Staying connected to a listening room.  The page (frontend/src/lib/     *)
(* sync/app/transport.ts) decides which room to be in and retries one that *)
(* closes; the Go side (internal/rooms/relay.go) owns the websocket.  The  *)
(* page calls Connect and Stop without waiting for one before the next,    *)
(* and learns what happened from the rejection of its own call and from    *)
(* the events sync:connected, sync:closed and sync:message.                *)
(*                                                                         *)
(* A Connect call is a number in Calls.  Calls reach Go in the order they  *)
(* are made, run concurrently once begun, and events reach the page in the *)
(* order they are emitted.  The relay is external: it accepts or refuses a *)
(* dial, seats a member, sends a fatal error and closes, or just drops.    *)
(* Left out: the backoff delay, the wording of errors, the peer count and  *)
(* the frames of the session that runs in the room.                        *)
(***************************************************************************)
EXTENDS Integers, Sequences

CONSTANTS Rooms,      \* room codes
          NoRoom,     \* the empty code
          MaxJoins,   \* bound on the user's connects
          MaxStops,   \* bound on the user's leaves
          MaxFaults   \* bound on failed dials, dropped links, fatal errors

ASSUME TransportAssumption ==
  /\ NoRoom \notin Rooms
  /\ MaxJoins \in Nat /\ MaxStops \in Nat /\ MaxFaults \in Nat

\* A fault causes at most one retry, so the bound on the calls never binds.
Calls == 1 .. (MaxJoins + MaxFaults)
StopCall == 0

VARIABLES
  status,       \* what the page shows: store.status
  role,         \* store.role
  joinedRoom,   \* the room the page wants to be in
  lastRole,     \* the role a reconnect reclaims, "" to be given one
  intentional,  \* the page gave the room up
  timer,        \* reconnectTimer is set
  asked,        \* calls made by the page that Go has not begun
  events,       \* events emitted that the page has not handled
  call,         \* call[c]: what the page asked for
  at,           \* at[c]: where Connect is
  genOf,        \* genOf[c]: the generation Connect drew
  gen,          \* Relay.gen
  conn,         \* Relay.conn, as the call that made it, 0 for nil
  up,           \* websockets open at the relay's end
  reader,       \* reader[c]: how far the read loop of that connection is
  ended,        \* history: how the page last left a room
  opened,       \* history: calls whose sync:connected the page handled
  made,         \* number of Connect calls made
  joins, stops, faults    \* spent of the bounds

pageVars == <<status, role, joinedRoom, lastRole, intentional, timer, ended>>
goVars == <<genOf, gen, conn, up, reader>>
budget == <<joins, stops, faults>>
transportVars == <<pageVars, asked, events, call, at, goVars, opened, made, budget>>

Roles == {"host", "guest"}
Call == [room : Rooms \union {NoRoom}, role : Roles \union {""},
         by : {"user", "timer"}]
NoCall == [room |-> NoRoom, role |-> "", by |-> "user"]
Progress == {"none", "asked", "dialing", "dialed", "taken",
             "open", "superseded", "failed", "done"}
Event == [name : {"connected", "closed", "host", "guest", "error"}, of : Calls]

PageType ==
  /\ status \in {"idle", "connecting", "open", "closed"}
  /\ role \in Roles \union {"off"}
  /\ joinedRoom \in Rooms \union {NoRoom}
  /\ lastRole \in Roles \union {""}
  /\ intentional \in BOOLEAN
  /\ timer \in BOOLEAN
  /\ ended \in {"no", "stop", "fatal"}

WireType ==
  /\ asked \in Seq(Calls \union {StopCall})
  /\ events \in Seq(Event)

CallType ==
  /\ call \in [Calls -> Call]
  /\ at \in [Calls -> Progress]
  /\ made \in 0 .. (MaxJoins + MaxFaults)

GoType ==
  /\ genOf \in [Calls -> Nat]
  /\ gen \in Nat
  /\ conn \in Calls \union {0}
  /\ up \subseteq Calls
  /\ reader \in [Calls -> {"new", "seated", "lost", "done"}]
  /\ opened \subseteq Calls

BudgetType ==
  /\ joins \in 0 .. MaxJoins
  /\ stops \in 0 .. MaxStops
  /\ faults \in 0 .. MaxFaults

TransportTypeOK == PageType /\ WireType /\ CallType /\ GoType /\ BudgetType

TransportInit ==
  /\ status = "idle" /\ role = "off"
  /\ joinedRoom = NoRoom /\ lastRole = ""
  /\ intentional = FALSE /\ timer = FALSE
  /\ asked = <<>> /\ events = <<>>
  /\ call = [c \in Calls |-> NoCall]
  /\ at = [c \in Calls |-> "none"]
  /\ genOf = [c \in Calls |-> 0]
  /\ gen = 0 /\ conn = 0 /\ up = {}
  /\ reader = [c \in Calls |-> "new"]
  /\ ended = "no" /\ opened = {}
  /\ made = 0 /\ joins = 0 /\ stops = 0 /\ faults = 0

-----------------------------------------------------------------------------
(* The page                                                                *)

\* SyncConnect leaves the page.
Ask(r, asRole, by) ==
  /\ made < MaxJoins + MaxFaults
  /\ made' = made + 1
  /\ call' = [call EXCEPT ![made'] = [room |-> r, role |-> asRole, by |-> by]]
  /\ at' = [at EXCEPT ![made'] = "asked"]
  /\ asked' = Append(asked, made')

\* clearReconnect().
KeepTimer == timer                  \* mutated: the timer is not cleared
ClearReconnect == FALSE

\* connect(code): forget the room we were in and dial the new one.
UserConnect(r) ==
  /\ joins < MaxJoins
  /\ joins' = joins + 1
  /\ intentional' = FALSE
  /\ timer' = ClearReconnect
  /\ joinedRoom' = r
  /\ lastRole' = ""
  /\ role' = "off"
  /\ status' = "connecting"
  /\ ended' = "no"
  /\ Ask(r, "", "user")
  /\ UNCHANGED <<events, goVars, opened, stops, faults>>

\* stop(): give the room up and tell Go, without waiting for it.
Stop ==
  /\ intentional' = TRUE
  /\ timer' = ClearReconnect
  /\ joinedRoom' = NoRoom
  /\ lastRole' = ""
  /\ role' = "off"
  /\ status' = "idle"
  /\ ended' = "stop"
  /\ asked' = Append(asked, StopCall)

\* The user leaves.
UserStop ==
  /\ stops < MaxStops
  /\ stops' = stops + 1
  /\ Stop
  /\ UNCHANGED <<events, call, at, goVars, opened, made, joins, faults>>

\* scheduleReconnect(): the value of reconnectTimer after it.
NeverRetried == timer                              \* mutated: no retry
ScheduleReconnect == timer \/ (~intentional /\ joinedRoom # NoRoom)

\* The timer wakes up and dials the room again in the role we had.
TimerFires ==
  /\ timer
  /\ timer' = FALSE
  /\ status' = "connecting"
  /\ role' = IF lastRole = "" THEN role ELSE lastRole
  /\ Ask(joinedRoom, lastRole, "timer")
  /\ UNCHANGED <<joinedRoom, lastRole, intentional, ended, events, goVars,
                 opened, budget>>

\* Connect threw: the user's dial leaves the room (connect's catch), a retry
\* schedules the next one.
OnRejected(c) ==
  /\ at[c] = "failed"
  /\ at' = [at EXCEPT ![c] = "done"]
  /\ IF call[c].by = "user"
     THEN Stop
     ELSE /\ timer' = ScheduleReconnect
          /\ UNCHANGED <<status, role, joinedRoom, lastRole, intentional,
                         ended, asked>>
  /\ UNCHANGED <<events, call, goVars, opened, made, budget>>

Handled(name) ==
  /\ events # <<>>
  /\ Head(events).name = name
  /\ events' = Tail(events)

OnConnected ==
  /\ Handled("connected")
  /\ status' = "open"
  /\ opened' = opened \union {Head(events).of}
  /\ UNCHANGED <<role, joinedRoom, lastRole, intentional, timer, ended,
                 asked, call, at, goVars, made, budget>>

ClosedStatus == IF intentional THEN "idle" ELSE "closed"

\* The role a reconnect reclaims.
RoleHeld == IF role = "off" THEN "" ELSE role

OnLinkClosed ==
  /\ Handled("closed")
  /\ status' = ClosedStatus
  /\ lastRole' = RoleHeld
  /\ role' = "off"
  /\ timer' = ScheduleReconnect
  /\ UNCHANGED <<joinedRoom, intentional, ended, asked, call, at, goVars,
                 opened, made, budget>>

\* A role frame.
OnRole ==
  \E r \in Roles :
    /\ Handled(r)
    /\ role' = r
    /\ UNCHANGED <<status, joinedRoom, lastRole, intentional, timer, ended,
                   asked, call, at, goVars, opened, made, budget>>

\* A fatal error frame: abandon() gives the room up and leaves the closing
\* to the relay.
OnError ==
  /\ Handled("error")
  /\ intentional' = TRUE
  /\ timer' = ClearReconnect
  /\ joinedRoom' = NoRoom
  /\ lastRole' = ""
  /\ ended' = "fatal"
  /\ UNCHANGED <<status, role, asked, call, at, goVars, opened, made, budget>>

-----------------------------------------------------------------------------
(* The Go side                                                             *)

Emit(name, c) == events' = Append(events, [name |-> name, of |-> c])

Fault ==
  /\ faults < MaxFaults
  /\ faults' = faults + 1
  /\ UNCHANGED <<joins, stops>>

\* Connect until the dial: draw a generation, drop and close the connection
\* in place.
BeginConnect ==
  /\ asked # <<>>
  /\ LET c == Head(asked)
     IN  /\ c # StopCall
         /\ at' = [at EXCEPT ![c] = "dialing"]
         /\ genOf' = [genOf EXCEPT ![c] = gen + 1]
  /\ asked' = Tail(asked)
  /\ gen' = gen + 1
  /\ conn' = 0
  /\ up' = up \ {conn}
  /\ UNCHANGED <<pageVars, events, call, reader, opened, made, budget>>

\* An address endpoint() cannot parse returns before anything changed.
BadAddress ==
  /\ asked # <<>>
  /\ LET c == Head(asked)
     IN  /\ c # StopCall
         /\ at' = [at EXCEPT ![c] = "failed"]
  /\ asked' = Tail(asked)
  /\ Fault
  /\ UNCHANGED <<pageVars, events, call, goVars, opened, made>>

\* Relay.Stop.
BeginStop ==
  /\ asked # <<>>
  /\ Head(asked) = StopCall
  /\ asked' = Tail(asked)
  /\ gen' = gen + 1
  /\ conn' = 0
  /\ up' = up \ {conn}
  /\ UNCHANGED <<pageVars, events, call, at, genOf, reader, opened, made, budget>>

\* The generation check.
CurrentDial(c) == genOf[c] = gen

\* The dial fails or times out; the error is returned whether or not the
\* call is still the current one.
DialFails(c) ==
  /\ at[c] = "dialing"
  /\ at' = [at EXCEPT ![c] = "failed"]
  /\ Fault
  /\ UNCHANGED <<pageVars, asked, events, call, goVars, opened, made>>

DialSucceeds(c) ==
  /\ at[c] = "dialing"
  /\ at' = [at EXCEPT ![c] = "dialed"]
  /\ up' = up \union {c}
  /\ UNCHANGED <<pageVars, asked, events, call, genOf, gen, conn, reader,
                 opened, made, budget>>

\* The second critical section of Connect.
Take(c) ==
  /\ at[c] = "dialed"
  /\ \/ /\ CurrentDial(c)
        /\ conn' = c
        /\ at' = [at EXCEPT ![c] = "taken"]
        /\ UNCHANGED up
     \/ /\ ~CurrentDial(c)
        /\ up' = up \ {c}
        /\ at' = [at EXCEPT ![c] = "superseded"]
        /\ UNCHANGED conn
  /\ UNCHANGED <<pageVars, asked, events, call, genOf, gen, reader, opened,
                 made, budget>>

\* emit("sync:connected"), then the read loop may run.
Open(c) ==
  /\ at[c] = "taken"
  /\ at' = [at EXCEPT ![c] = "open"]
  /\ Emit("connected", c)
  /\ UNCHANGED <<pageVars, asked, call, goVars, opened, made, budget>>

ReadsWhenTaken(c) ==                \* mutated: go read before the emit
  at[c] \in {"taken", "open"} /\ reader[c] \in {"new", "seated"}
Reads(c) == at[c] = "open" /\ reader[c] \in {"new", "seated"}

\* The relay seats a member that asked for no role of its own.
Seat(c, r) ==
  /\ Reads(c) /\ c \in up
  /\ reader[c] = "new" /\ call[c].role = ""
  /\ reader' = [reader EXCEPT ![c] = "seated"]
  /\ Emit(r, c)
  /\ UNCHANGED <<pageVars, asked, call, at, genOf, gen, conn, up, opened,
                 made, budget>>

\* The relay refuses the member (room full, host left, wrong password): an
\* error frame, then it closes.
Refuse(c) ==
  /\ Reads(c) /\ c \in up
  /\ up' = up \ {c}
  /\ Emit("error", c)
  /\ Fault
  /\ UNCHANGED <<pageVars, asked, call, at, genOf, gen, conn, reader, opened,
                 made>>

\* The link is lost.
Drop(c) ==
  /\ c \in up
  /\ up' = up \ {c}
  /\ Fault
  /\ UNCHANGED <<pageVars, asked, events, call, at, genOf, gen, conn, reader,
                 opened, made>>

\* read returns: its deferred critical section reports the connection as
\* closed only when it was still the one in place.
AlwaysActive(c) == TRUE             \* mutated: conn is not compared
Active(c) == conn = c

ReaderEnds(c) ==
  /\ Reads(c) /\ c \notin up
  /\ IF Active(c)
     THEN /\ conn' = 0
          /\ reader' = [reader EXCEPT ![c] = "lost"]
     ELSE /\ reader' = [reader EXCEPT ![c] = "done"]
          /\ UNCHANGED conn
  /\ UNCHANGED <<pageVars, asked, events, call, at, genOf, gen, up, opened,
                 made, budget>>

\* emit("sync:closed"), after the lock was released.
Report(c) ==
  /\ reader[c] = "lost"
  /\ reader' = [reader EXCEPT ![c] = "done"]
  /\ Emit("closed", c)
  /\ UNCHANGED <<pageVars, asked, call, at, genOf, gen, conn, up, opened,
                 made, budget>>

-----------------------------------------------------------------------------
TransportNext ==
  \/ \E r \in Rooms : UserConnect(r)
  \/ UserStop
  \/ TimerFires
  \/ OnConnected \/ OnLinkClosed \/ OnRole \/ OnError
  \/ BeginConnect \/ BadAddress \/ BeginStop
  \/ \E c \in Calls :
       \/ OnRejected(c)
       \/ DialFails(c) \/ DialSucceeds(c)
       \/ Take(c) \/ Open(c)
       \/ \E r \in Roles : Seat(c, r)
       \/ Refuse(c) \/ Drop(c)
       \/ ReaderEnds(c) \/ Report(c)

TransportSpec == TransportInit /\ [][TransportNext]_transportVars

\* The timer, the event loop of the page and the goroutines of Go run on; a
\* dial ends within its ten seconds, and the faults are bounded, so that a
\* relay which is tried again and again is reached at last.  Nothing is
\* asked of the user, of the relay's frames or of the faults.
TransportFairness ==
  /\ WF_transportVars(TimerFires)
  /\ WF_transportVars(OnConnected \/ OnLinkClosed \/ OnRole \/ OnError)
  /\ WF_transportVars(BeginConnect \/ BeginStop)
  /\ \A c \in Calls :
       /\ WF_transportVars(OnRejected(c))
       /\ WF_transportVars(DialFails(c) \/ DialSucceeds(c))
       /\ WF_transportVars(Take(c))
       /\ WF_transportVars(Open(c))
       /\ WF_transportVars(ReaderEnds(c))
       /\ WF_transportVars(Report(c))

TransportFairSpec == TransportSpec /\ TransportFairness

-----------------------------------------------------------------------------
(* Properties                                                              *)

\* The connection in place is the one the latest Connect made, whatever
\* order the dials ended in, and every other websocket still open belongs to
\* a dial that has not looked at the generation yet and will close it.
OneConnection ==
  /\ conn # 0 => genOf[conn] = gen
  /\ \A c \in up : c = conn \/ at[c] = "dialed"

\* After leaving (the user's stop, or a failed connect) no connection stays
\* behind once Go has begun the calls made so far, and none appears later
\* however slow a dial was.
NoZombie == ended = "stop" /\ asked = <<>> => conn = 0

\* What the connection keeps at every step, whoever dials, leaves or loses it.
ConnectionSafe == TransportTypeOK /\ OneConnection /\ NoZombie

\* The page hears of a connection's opening before it hears any frame of it
\* or of its end, so onOpen asks for the snapshot of the connection it has.
OpenedFirst ==
  \A i \in 1 .. Len(events) :
    \/ events[i].name = "connected"
    \/ events[i].of \in opened
    \/ \E j \in 1 .. (i - 1) :
         events[j] = [name |-> "connected", of |-> events[i].of]

\* A room we left, or that turned us away, is never dialled again by the
\* timer: at most the room the user asked for last is.
NotRetried ==
  [][TimerFires => joinedRoom # NoRoom /\ ended = "no"]_transportVars

Connected ==
  /\ status = "open"
  /\ conn # 0
  /\ conn \in up
  /\ call[conn].room = joinedRoom

\* A room that closes unexpectedly is retried until the page is connected to
\* it again and shows so, unless the user left or the relay refused.
Recovers == <>[](joinedRoom = NoRoom \/ Connected)

\* The connecting UI never keeps spinning: in the end the page is connected
\* or idle.
ConnectingEnds == <>[](status \in {"open", "idle"})

\* A lost room comes back and the page shows what became of it.
RoomComesBack == Recovers /\ ConnectingEnds
==============================================================================
