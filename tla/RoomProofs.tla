------------------------------ MODULE RoomProofs ------------------------------
(***************************************************************************)
(* Theorems about the two halves of a listening room: the link that        *)
(* carries it (RoomTransport) and the rounds played over it (RoomSession). *)
(* Neither reads a variable of the other, so each has its own              *)
(* specification and invariant.                                            *)
(*                                                                         *)
(* The link, for every set of rooms and every bound: its type, one         *)
(* connection at a time, no connection after leaving, no retry of a room   *)
(* that was left, and an opening heard before anything else.               *)
(*                                                                         *)
(* The session, for every set of tracks and any number of rounds,          *)
(* snapshots, frames and failures: its type, and that a round plays only   *)
(* once it was released and while it is the room's.                        *)
(***************************************************************************)
EXTENDS RoomTransport, RoomSession, SequenceTheorems, TLAPS

(***************************************************************************)
(* The link                                                                *)
(***************************************************************************)

-----------------------------------------------------------------------------
(* Types                                                                   *)

LEMMA EmptySeqType == ASSUME NEW S PROVE <<>> \in Seq(S)
OBVIOUS

LEMMA TypeInit == TransportInit => TransportTypeOK
<1> SUFFICES ASSUME TransportInit PROVE TransportTypeOK
  OBVIOUS
<1>1. PageType BY DEF TransportInit, PageType
<1>2. WireType BY EmptySeqType DEF TransportInit, WireType
<1>3. CallType
  <2>1. NoCall \in Call BY DEF NoCall, Call
  <2>2. /\ call = [c \in Calls |-> NoCall]
        /\ at = [c \in Calls |-> "none"]
        /\ made = 0
    BY DEF TransportInit
  <2>3. made \in 0 .. (MaxJoins + MaxFaults)
    BY <2>2, TransportAssumption DEF TransportAssumption
  <2> HIDE DEF NoCall, Call
  <2> QED BY <2>1, <2>2, <2>3 DEF CallType, Progress
<1>4. GoType BY DEF TransportInit, GoType
<1>5. BudgetType
  <2>1. joins = 0 /\ stops = 0 /\ faults = 0 BY DEF TransportInit
  <2> QED BY <2>1, TransportAssumption DEF BudgetType, TransportAssumption
<1> QED BY <1>1, <1>2, <1>3, <1>4, <1>5 DEF TransportTypeOK

\* The number a call gets is a call.
LEMMA AskNumber ==
  ASSUME TransportTypeOK, made < MaxJoins + MaxFaults
  PROVE  made + 1 \in Calls /\ made + 1 \in 0 .. (MaxJoins + MaxFaults)
<1>1. MaxJoins \in Nat /\ MaxFaults \in Nat
  BY TransportAssumption DEF TransportAssumption
<1>2. made \in 0 .. (MaxJoins + MaxFaults)
  BY DEF TransportTypeOK, CallType
<1>3. made + 1 \in 1 .. (MaxJoins + MaxFaults)
  BY <1>1, <1>2
<1>4. made + 1 \in 0 .. (MaxJoins + MaxFaults)
  BY <1>1, <1>2
<1> QED BY <1>3, <1>4 DEF Calls

LEMMA PageTypeStep == TransportTypeOK /\ [TransportNext]_transportVars => PageType'
<1> SUFFICES ASSUME PageType, [TransportNext]_transportVars PROVE PageType'
  BY DEF TransportTypeOK
<1> USE DEF PageType, ClearReconnect
<1>1. ASSUME NEW r \in Rooms, UserConnect(r) PROVE PageType'
  BY <1>1 DEF UserConnect
<1>2. ASSUME UserStop PROVE PageType'
  BY <1>2 DEF UserStop, Stop
<1>3. ASSUME TimerFires PROVE PageType'
  BY <1>3 DEF TimerFires
<1>4. ASSUME OnConnected PROVE PageType'
  BY <1>4 DEF OnConnected
<1>5. ASSUME OnLinkClosed PROVE PageType'
  <2>1. timer' \in BOOLEAN BY <1>5 DEF OnLinkClosed, ScheduleReconnect
  <2> QED BY <1>5, <2>1 DEF OnLinkClosed, ClosedStatus, RoleHeld
<1>6. ASSUME OnRole PROVE PageType'
  BY <1>6 DEF OnRole
<1>7. ASSUME OnError PROVE PageType'
  BY <1>7 DEF OnError
<1>8. ASSUME NEW c \in Calls, OnRejected(c) PROVE PageType'
  <2>1. CASE call[c].by = "user"
    BY <1>8, <2>1 DEF OnRejected, Stop
  <2>2. CASE call[c].by # "user"
    <3>1. timer' \in BOOLEAN
      BY <1>8, <2>2 DEF OnRejected, ScheduleReconnect
    <3> QED BY <1>8, <2>2, <3>1 DEF OnRejected
  <2> QED BY <2>1, <2>2
<1>9. CASE UNCHANGED pageVars
  BY <1>9 DEF pageVars
<1>10. ASSUME NEW c \in Calls, Take(c) \/ Open(c) \/ Report(c)
                               \/ DialFails(c) \/ DialSucceeds(c)
       PROVE  UNCHANGED pageVars
  BY <1>10 DEF Take, Open, Report, DialFails, DialSucceeds
<1>11. ASSUME NEW c \in Calls, Refuse(c) \/ Drop(c) \/ ReaderEnds(c)
                               \/ \E r \in Roles : Seat(c, r)
       PROVE  UNCHANGED pageVars
  BY <1>11 DEF Refuse, Drop, ReaderEnds, Seat
<1>12. ASSUME BeginConnect \/ BadAddress \/ BeginStop \/ UNCHANGED transportVars
       PROVE  UNCHANGED pageVars
  BY <1>12 DEF BeginConnect, BadAddress, BeginStop, transportVars
<1> QED BY <1>1, <1>2, <1>3, <1>4, <1>5, <1>6, <1>7, <1>8, <1>9, <1>10,
           <1>11, <1>12 DEF TransportNext

LEMMA WireTypeStep == TransportTypeOK /\ [TransportNext]_transportVars => WireType'
<1> SUFFICES ASSUME TransportTypeOK, [TransportNext]_transportVars PROVE WireType'
  OBVIOUS
<1> DEFINE Numbers == Calls \union {StopCall}
<1>0. asked \in Seq(Numbers) /\ events \in Seq(Event)
  BY DEF TransportTypeOK, WireType
<1>a. ASSUME NEW n \in Numbers, asked' = Append(asked, n)
      PROVE  asked' \in Seq(Numbers)
  BY <1>0, <1>a, AppendProperties
<1>b. ASSUME asked # <<>>, asked' = Tail(asked) PROVE asked' \in Seq(Numbers)
  BY <1>0, <1>b, HeadTailProperties
<1>c. ASSUME NEW e \in Event, events' = Append(events, e)
      PROVE  events' \in Seq(Event)
  BY <1>0, <1>c, AppendProperties
<1>d. ASSUME events # <<>>, events' = Tail(events) PROVE events' \in Seq(Event)
  BY <1>0, <1>d, HeadTailProperties
<1>e. asked' \in Seq(Numbers) /\ events' \in Seq(Event) => WireType'
  BY DEF WireType
<1>s. StopCall \in Numbers
  OBVIOUS
<1>v. ASSUME NEW c \in Calls,
             NEW name \in {"connected", "closed", "host", "guest", "error"}
      PROVE  [name |-> name, of |-> c] \in Event
  BY DEF Event
<1> HIDE DEF Numbers, WireType
<1>1. ASSUME NEW r, NEW asRole, NEW by, Ask(r, asRole, by)
      PROVE  asked' \in Seq(Numbers)
  <2>1. made + 1 \in Numbers BY <1>1, AskNumber DEF Ask, Numbers
  <2> QED BY <1>1, <2>1, <1>a DEF Ask
<1>2. ASSUME NEW r \in Rooms, UserConnect(r) PROVE WireType'
  BY <1>0, <1>2, <1>1, <1>e DEF UserConnect
<1>3. ASSUME UserStop PROVE WireType'
  BY <1>0, <1>3, <1>a, <1>s, <1>e DEF UserStop, Stop
<1>4. ASSUME TimerFires PROVE WireType'
  BY <1>0, <1>4, <1>1, <1>e DEF TimerFires
<1>5. ASSUME NEW c \in Calls, OnRejected(c) PROVE WireType'
  BY <1>0, <1>5, <1>a, <1>s, <1>e DEF OnRejected, Stop
<1>6. ASSUME OnConnected \/ OnLinkClosed \/ OnRole \/ OnError PROVE WireType'
  BY <1>0, <1>6, <1>d, <1>e DEF OnConnected, OnLinkClosed, OnRole, OnError, Handled
<1>7. ASSUME BeginConnect \/ BadAddress \/ BeginStop PROVE WireType'
  BY <1>0, <1>7, <1>b, <1>e DEF BeginConnect, BadAddress, BeginStop
<1>8. ASSUME NEW c \in Calls, Open(c) \/ Refuse(c) \/ Report(c) PROVE WireType'
  BY <1>0, <1>8, <1>c, <1>v, <1>e DEF Open, Refuse, Report, Emit
<1>9. ASSUME NEW c \in Calls, NEW r \in Roles, Seat(c, r) PROVE WireType'
  <2>1. r \in {"connected", "closed", "host", "guest", "error"}
    BY DEF Roles
  <2> QED BY <1>0, <1>9, <2>1, <1>c, <1>v, <1>e DEF Seat, Emit
<1>10. ASSUME NEW c \in Calls, \/ DialFails(c) \/ DialSucceeds(c) \/ Take(c)
                               \/ Drop(c) \/ ReaderEnds(c)
       PROVE  WireType'
  BY <1>0, <1>10, <1>e DEF DialFails, DialSucceeds, Take, Drop, ReaderEnds
<1>11. CASE UNCHANGED transportVars
  BY <1>0, <1>11, <1>e DEF transportVars
<1> QED BY <1>2, <1>3, <1>4, <1>5, <1>6, <1>7, <1>8, <1>9, <1>10, <1>11
        DEF TransportNext

LEMMA CallTypeStep == TransportTypeOK /\ [TransportNext]_transportVars => CallType'
<1> SUFFICES ASSUME TransportTypeOK, [TransportNext]_transportVars PROVE CallType'
  OBVIOUS
<1>0. CallType BY DEF TransportTypeOK
<1>1. ASSUME NEW r \in Rooms \union {NoRoom},
             NEW asRole \in Roles \union {""}, NEW by \in {"user", "timer"},
             Ask(r, asRole, by)
      PROVE  CallType'
  <2>1. made + 1 \in Calls BY <1>1, AskNumber DEF Ask
  <2>2. made' = made + 1 /\ made' \in 0 .. (MaxJoins + MaxFaults)
    BY <1>1, AskNumber DEF Ask
  <2>3. [room |-> r, role |-> asRole, by |-> by] \in Call
    BY DEF Call
  <2>4. call' \in [Calls -> Call]
    <3> HIDE DEF Call
    <3> QED BY <1>0, <1>1, <2>1, <2>2, <2>3 DEF Ask, CallType
  <2>5. at' \in [Calls -> Progress]
    BY <1>0, <1>1, <2>1, <2>2 DEF Ask, CallType, Progress
  <2> QED BY <2>2, <2>4, <2>5 DEF CallType
<1>2. ASSUME NEW r \in Rooms, UserConnect(r) PROVE CallType'
  BY <1>1, <1>2 DEF UserConnect
<1>3. ASSUME TimerFires PROVE CallType'
  <2>1. joinedRoom \in Rooms \union {NoRoom} /\ lastRole \in Roles \union {""}
    BY DEF TransportTypeOK, PageType
  <2> QED BY <2>1, <1>1, <1>3 DEF TimerFires
<1>4. ASSUME NEW c \in Calls, OnRejected(c) PROVE CallType'
  BY <1>0, <1>4 DEF OnRejected, CallType, Progress
<1>5. ASSUME BeginConnect \/ BadAddress PROVE CallType'
  BY <1>0, <1>5 DEF BeginConnect, BadAddress, CallType, Progress
<1>6. ASSUME NEW c \in Calls, DialFails(c) \/ DialSucceeds(c) PROVE CallType'
  BY <1>0, <1>6 DEF DialFails, DialSucceeds, CallType, Progress
<1>7. ASSUME NEW c \in Calls, Take(c) \/ Open(c) PROVE CallType'
  BY <1>0, <1>7 DEF Take, Open, CallType, Progress
<1>8. CASE UNCHANGED <<call, at, made>>
  BY <1>0, <1>8 DEF CallType
<1>9. ASSUME \/ UserStop \/ OnConnected \/ OnLinkClosed \/ OnRole \/ OnError
             \/ BeginStop \/ UNCHANGED transportVars
      PROVE  UNCHANGED <<call, at, made>>
  BY <1>9 DEF UserStop, OnConnected, OnLinkClosed, OnRole, OnError, BeginStop, transportVars
<1>10. ASSUME NEW c \in Calls, \/ \E r \in Roles : Seat(c, r)
                               \/ Refuse(c) \/ Drop(c)
                               \/ ReaderEnds(c) \/ Report(c)
       PROVE  UNCHANGED <<call, at, made>>
  BY <1>10 DEF Seat, Refuse, Drop, ReaderEnds, Report
<1> QED BY <1>2, <1>3, <1>4, <1>5, <1>6, <1>7, <1>8, <1>9, <1>10 DEF TransportNext

LEMMA GoTypeStep == TransportTypeOK /\ [TransportNext]_transportVars => GoType'
<1> SUFFICES ASSUME TransportTypeOK, [TransportNext]_transportVars PROVE GoType'
  OBVIOUS
<1>0. GoType BY DEF TransportTypeOK
<1> USE DEF GoType
<1>1. CASE BeginConnect
  <2>1. gen + 1 \in Nat BY <1>0
  <2> QED BY <1>0, <1>1, <2>1 DEF BeginConnect
<1>2. CASE BeginStop
  BY <1>0, <1>2 DEF BeginStop
<1>3. ASSUME NEW c \in Calls, DialFails(c) PROVE GoType'
  BY <1>0, <1>3 DEF DialFails, goVars
<1>4. ASSUME NEW c \in Calls, DialSucceeds(c) \/ Take(c) PROVE GoType'
  BY <1>0, <1>4 DEF DialSucceeds, Take
<1>5. ASSUME NEW c \in Calls, NEW r \in Roles, Seat(c, r) PROVE GoType'
  BY <1>0, <1>5 DEF Seat
<1>6. ASSUME NEW c \in Calls, Refuse(c) \/ Drop(c) PROVE GoType'
  BY <1>0, <1>6 DEF Refuse, Drop
<1>7. ASSUME NEW c \in Calls, ReaderEnds(c) \/ Report(c) PROVE GoType'
  BY <1>0, <1>7 DEF ReaderEnds, Report
<1>8. CASE OnConnected
  <2>1. Head(events) \in Event
    BY <1>8, HeadTailProperties DEF TransportTypeOK, WireType, OnConnected, Handled
  <2>2. Head(events).of \in Calls
    BY <2>1 DEF Event
  <2> QED BY <1>0, <1>8, <2>2 DEF OnConnected, goVars
<1>9. CASE UNCHANGED <<goVars, opened>>
  BY <1>0, <1>9 DEF goVars
<1>10. ASSUME \/ UserStop \/ TimerFires \/ OnLinkClosed \/ OnRole \/ OnError
              \/ BadAddress \/ UNCHANGED transportVars
              \/ \E r \in Rooms : UserConnect(r)
              \/ \E c \in Calls : OnRejected(c) \/ Open(c)
       PROVE  UNCHANGED <<goVars, opened>>
  BY <1>10 DEF UserStop, TimerFires, OnLinkClosed, OnRole, OnError, BadAddress,
               transportVars, UserConnect, OnRejected, Open
<1> QED BY <1>1, <1>2, <1>3, <1>4, <1>5, <1>6, <1>7, <1>8, <1>9, <1>10
        DEF TransportNext

LEMMA BudgetTypeStep == TransportTypeOK /\ [TransportNext]_transportVars => BudgetType'
<1> SUFFICES ASSUME BudgetType, [TransportNext]_transportVars PROVE BudgetType'
  BY DEF TransportTypeOK
<1> USE TransportAssumption DEF BudgetType, TransportAssumption
<1>1. ASSUME NEW r \in Rooms, UserConnect(r) PROVE BudgetType'
  <2>1. joins < MaxJoins /\ joins' = joins + 1 /\ UNCHANGED <<stops, faults>>
    BY <1>1 DEF UserConnect
  <2> QED BY <2>1
<1>2. CASE UserStop
  BY <1>2 DEF UserStop
<1>3. CASE Fault
  BY <1>3 DEF Fault
<1>4. ASSUME BadAddress \/ \E c \in Calls : DialFails(c) \/ Refuse(c) \/ Drop(c)
      PROVE  Fault
  BY <1>4 DEF BadAddress, DialFails, Refuse, Drop
<1>5. CASE UNCHANGED budget
  BY <1>5 DEF budget
<1>6. ASSUME \/ TimerFires \/ OnConnected \/ OnLinkClosed \/ OnRole \/ OnError
             \/ BeginConnect \/ BeginStop \/ UNCHANGED transportVars
      PROVE  UNCHANGED budget
  BY <1>6 DEF TimerFires, OnConnected, OnLinkClosed, OnRole, OnError,
              BeginConnect, BeginStop, transportVars
<1>7. ASSUME NEW c \in Calls, \/ OnRejected(c) \/ DialSucceeds(c) \/ Take(c)
                              \/ Open(c) \/ ReaderEnds(c) \/ Report(c)
                              \/ \E r \in Roles : Seat(c, r)
      PROVE  UNCHANGED budget
  BY <1>7 DEF OnRejected, DialSucceeds, Take, Open, ReaderEnds, Report, Seat
<1> QED BY <1>1, <1>2, <1>3, <1>4, <1>5, <1>6, <1>7 DEF TransportNext

\* Every value the transport holds, on the page and in Go, has its type in
\* every reachable state.
THEOREM TransportType == TransportSpec => []TransportTypeOK
<1>1. TransportTypeOK /\ [TransportNext]_transportVars => TransportTypeOK'
  BY PageTypeStep, WireTypeStep, CallTypeStep, GoTypeStep, BudgetTypeStep
     DEF TransportTypeOK
<1> QED BY TypeInit, <1>1, PTL DEF TransportSpec

-----------------------------------------------------------------------------
(* One connection                                                          *)

\* Calls wait in order, each once, and only those that were made.
CallsWait ==
  /\ \A i \in 1 .. Len(asked) :
       asked[i] # StopCall => at[asked[i]] = "asked"
  /\ \A i, j \in 1 .. Len(asked) :
       asked[i] = asked[j] /\ asked[i] # StopCall => i = j
  /\ \A c \in Calls : c > made => at[c] = "none"

\* A generation is drawn by one call, and the connection in place was made by
\* the call that drew the latest.
Generations ==
  /\ \A c \in Calls : genOf[c] <= gen
  /\ \A c \in Calls :
       at[c] \in {"dialing", "dialed", "taken", "open"} => genOf[c] # 0
  /\ \A c, d \in Calls : genOf[c] = genOf[d] /\ genOf[c] # 0 => c = d
  /\ conn # 0 => genOf[conn] = gen /\ at[conn] \in {"taken", "open"}
  /\ \A c \in up : c = conn \/ at[c] = "dialed"

LEMMA NoStopCall == 0 \notin Calls /\ Calls \subseteq Nat
BY TransportAssumption DEF Calls

LEMMA CallsWaitStep == TransportTypeOK /\ CallsWait /\ [TransportNext]_transportVars => CallsWait'
<1> SUFFICES ASSUME TransportTypeOK, CallsWait, [TransportNext]_transportVars PROVE CallsWait'
  OBVIOUS
<1>0. /\ asked \in Seq(Calls \union {StopCall})
      /\ at \in [Calls -> Progress]
      /\ made \in Nat
      /\ 0 \notin Calls /\ Calls \subseteq Nat
  BY NoStopCall, TransportAssumption
     DEF TransportTypeOK, WireType, CallType, TransportAssumption
<1>a. ASSUME NEW r, NEW asRole, NEW by, Ask(r, asRole, by) PROVE CallsWait'
  <2>1. made' = made + 1 /\ made + 1 \in Calls
    BY <1>a, AskNumber DEF Ask
  <2>2. /\ Len(asked') = Len(asked) + 1
        /\ asked'[Len(asked) + 1] = made + 1
        /\ \A i \in 1 .. Len(asked) : asked'[i] = asked[i]
    BY <1>0, <1>a, <2>1, AppendProperties DEF Ask
  <2>3. at[made + 1] = "none"
    BY <1>0, <2>1 DEF CallsWait
  <2>4. /\ at'[made + 1] = "asked"
        /\ \A c \in Calls : c # made + 1 => at'[c] = at[c]
    BY <1>0, <1>a, <2>1 DEF Ask
  <2>5. \A i \in 1 .. Len(asked) : asked[i] # made + 1 /\
          (asked[i] # StopCall => asked[i] \in Calls)
    <3>1. \A i \in 1 .. Len(asked) : asked[i] \in Calls \union {StopCall}
      BY <1>0
    <3> QED BY <1>0, <2>1, <2>3, <3>1 DEF CallsWait, StopCall
  <2>6. Len(asked) \in Nat BY <1>0
  <2> HIDE DEF Calls
  <2>7. \A i \in 1 .. Len(asked') :
          asked'[i] # StopCall => at'[asked'[i]] = "asked"
    BY <2>2, <2>4, <2>5, <2>6 DEF CallsWait
  <2>8. \A i, j \in 1 .. Len(asked') :
          asked'[i] = asked'[j] /\ asked'[i] # StopCall => i = j
    BY <2>2, <2>5, <2>6 DEF CallsWait
  <2>9. \A c \in Calls : c > made' => at'[c] = "none"
    BY <1>0, <2>1, <2>4 DEF CallsWait
  <2> QED BY <2>7, <2>8, <2>9 DEF CallsWait
<1>b. ASSUME asked' = Append(asked, StopCall), UNCHANGED made,
             \A c \in Calls : at'[c] = at[c] \/ at[c] \notin {"none", "asked"}
      PROVE  CallsWait'
  <2>1. /\ Len(asked') = Len(asked) + 1
        /\ asked'[Len(asked) + 1] = StopCall
        /\ \A i \in 1 .. Len(asked) : asked'[i] = asked[i]
        /\ Len(asked) \in Nat
    BY <1>0, <1>b, AppendProperties
  <2>2. \A i \in 1 .. Len(asked) : asked[i] \in Calls \union {StopCall}
    BY <1>0
  <2>3. CallsWait!1'
    BY <1>b, <2>1, <2>2 DEF CallsWait
  <2>4. CallsWait!2'
    BY <2>1 DEF CallsWait
  <2>5. CallsWait!3'
    BY <1>b DEF CallsWait
  <2> QED BY <2>3, <2>4, <2>5 DEF CallsWait
<1>c. ASSUME asked # <<>>, asked' = Tail(asked), UNCHANGED made,
             \A c \in Calls : c # Head(asked) =>
               at'[c] = at[c] \/ at[c] \notin {"none", "asked"},
             Head(asked) # StopCall => at'[Head(asked)] # "none"
      PROVE  CallsWait'
  <2>1. /\ Len(asked') = Len(asked) - 1
        /\ \A i \in 1 .. Len(asked') : asked'[i] = asked[i + 1]
        /\ Len(asked) \in Nat \ {0}
        /\ Head(asked) = asked[1]
        /\ Len(asked') \in Nat
    BY <1>0, <1>c, HeadTailProperties
  <2>2. \A i \in 1 .. Len(asked) : asked[i] \in Calls \union {StopCall}
    BY <1>0
  <2>3. \A i \in 1 .. Len(asked') : /\ i + 1 \in 1 .. Len(asked)
                                    /\ 1 \in 1 .. Len(asked) /\ i + 1 # 1
    BY <2>1
  <2>4. \A i \in 1 .. Len(asked') :
          asked'[i] # StopCall => asked'[i] \in Calls /\ asked'[i] # Head(asked)
    BY <2>1, <2>2, <2>3 DEF CallsWait
  <2>5. CallsWait!1'
    BY <1>c, <2>1, <2>3, <2>4 DEF CallsWait
  <2>6. CallsWait!2'
    BY <2>1, <2>3 DEF CallsWait
  <2>7. CallsWait!3'
    <3>1. ASSUME NEW c \in Calls, c > made PROVE at'[c] = "none"
      <4>1. at[c] = "none" BY <3>1 DEF CallsWait
      <4>2. c # StopCall BY <1>0 DEF StopCall
      <4>3. c # Head(asked)
        BY <4>1, <4>2, <2>1 DEF CallsWait
      <4> QED BY <1>c, <4>1, <4>3
    <3> QED BY <1>c, <3>1
  <2> QED BY <2>5, <2>6, <2>7 DEF CallsWait
<1>d. ASSUME UNCHANGED <<asked, made>>,
             \A c \in Calls : at'[c] = at[c] \/ at[c] \notin {"none", "asked"}
      PROVE  CallsWait'
  <2>1. \A i \in 1 .. Len(asked) : asked[i] \in Calls \union {StopCall}
    BY <1>0
  <2> QED BY <1>d, <2>1 DEF CallsWait
<1>1. ASSUME NEW r \in Rooms, UserConnect(r) PROVE CallsWait'
  BY <1>1, <1>a DEF UserConnect
<1>2. CASE TimerFires
  BY <1>2, <1>a DEF TimerFires
<1>3. CASE UserStop
  BY <1>3, <1>b DEF UserStop, Stop
<1>4. ASSUME NEW c \in Calls, OnRejected(c) PROVE CallsWait'
  <2>1. \A d \in Calls : at'[d] = at[d] \/ at[d] \notin {"none", "asked"}
    BY <1>0, <1>4 DEF OnRejected
  <2> QED BY <1>4, <2>1, <1>b, <1>d DEF OnRejected, Stop
<1>5. CASE BeginConnect
  <2>1. Head(asked) \in Calls \union {StopCall} /\ Head(asked) # StopCall
    BY <1>0, <1>5, HeadTailProperties DEF BeginConnect
  <2>2. /\ at'[Head(asked)] = "dialing"
        /\ \A c \in Calls : c # Head(asked) => at'[c] = at[c]
    BY <1>0, <1>5, <2>1 DEF BeginConnect
  <2>3. asked # <<>> /\ asked' = Tail(asked) /\ UNCHANGED made
    BY <1>5 DEF BeginConnect
  <2> QED BY <2>2, <2>3, <1>c
<1>6. CASE BadAddress
  <2>1. Head(asked) \in Calls \union {StopCall} /\ Head(asked) # StopCall
    BY <1>0, <1>6, HeadTailProperties DEF BadAddress
  <2>2. /\ at'[Head(asked)] = "failed"
        /\ \A c \in Calls : c # Head(asked) => at'[c] = at[c]
    BY <1>0, <1>6, <2>1 DEF BadAddress
  <2>3. asked # <<>> /\ asked' = Tail(asked) /\ UNCHANGED made
    BY <1>6 DEF BadAddress
  <2> QED BY <2>2, <2>3, <1>c
<1>7. CASE BeginStop
  <2>1. asked # <<>> /\ asked' = Tail(asked) /\ UNCHANGED <<made, at>>
        /\ Head(asked) = StopCall
    BY <1>7 DEF BeginStop
  <2> QED BY <2>1, <1>c
<1>8. ASSUME NEW c \in Calls,
             DialFails(c) \/ DialSucceeds(c) \/ Take(c) \/ Open(c)
      PROVE  CallsWait'
  <2>1. UNCHANGED <<asked, made>>
    BY <1>8 DEF DialFails, DialSucceeds, Take, Open
  <2>2. \A d \in Calls : at'[d] = at[d] \/ at[d] \notin {"none", "asked"}
    BY <1>0, <1>8 DEF DialFails, DialSucceeds, Take, Open
  <2> QED BY <2>1, <2>2, <1>d
<1>9. CASE UNCHANGED <<asked, made, at>>
  BY <1>9, <1>d
<1>10. ASSUME \/ OnConnected \/ OnLinkClosed \/ OnRole \/ OnError
              \/ UNCHANGED transportVars
       PROVE  UNCHANGED <<asked, made, at>>
  BY <1>10 DEF OnConnected, OnLinkClosed, OnRole, OnError, transportVars
<1>11. ASSUME NEW c \in Calls, \/ \E r \in Roles : Seat(c, r)
                               \/ Refuse(c) \/ Drop(c)
                               \/ ReaderEnds(c) \/ Report(c)
       PROVE  UNCHANGED <<asked, made, at>>
  BY <1>11 DEF Seat, Refuse, Drop, ReaderEnds, Report
<1> QED BY <1>1, <1>2, <1>3, <1>4, <1>5, <1>6, <1>7, <1>8, <1>9, <1>10,
           <1>11 DEF TransportNext

LEMMA GenerationsStep ==
  TransportTypeOK /\ CallsWait /\ Generations /\ [TransportNext]_transportVars => Generations'
<1> SUFFICES ASSUME TransportTypeOK, CallsWait, Generations, [TransportNext]_transportVars
             PROVE  Generations'
  OBVIOUS
<1>0. /\ asked \in Seq(Calls \union {StopCall})
      /\ at \in [Calls -> Progress]
      /\ genOf \in [Calls -> Nat]
      /\ gen \in Nat
      /\ conn \in Calls \union {0}
      /\ up \subseteq Calls
      /\ 0 \notin Calls
  BY NoStopCall DEF TransportTypeOK, WireType, CallType, GoType
<1> USE DEF Generations
<1>a. ASSUME UNCHANGED <<genOf, gen, conn, up>>,
             \A c \in Calls : at'[c] = at[c] \/ at[c] \in {"none", "asked", "failed"},
             \A c \in Calls : at'[c] # at[c] =>
                              at'[c] \in {"asked", "failed", "done"}
      PROVE  Generations'
  BY <1>0, <1>a
<1>b. ASSUME NEW r, NEW asRole, NEW by, Ask(r, asRole, by),
             UNCHANGED <<genOf, gen, conn, up>>
      PROVE  Generations'
  <2>1. made' = made + 1 /\ made + 1 \in Calls /\ made \in Nat
    BY <1>b, AskNumber, TransportAssumption
       DEF Ask, TransportTypeOK, CallType, TransportAssumption
  <2>2. at[made + 1] = "none"
    BY <2>1 DEF CallsWait
  <2>3. at' = [at EXCEPT ![made + 1] = "asked"]
    BY <1>b, <2>1 DEF Ask
  <2> QED BY <1>0, <1>b, <1>a, <2>1, <2>2, <2>3
<1>1. ASSUME NEW r \in Rooms, UserConnect(r) PROVE Generations'
  BY <1>1, <1>b DEF UserConnect, goVars
<1>2. CASE TimerFires
  BY <1>2, <1>b DEF TimerFires, goVars
<1>3. ASSUME NEW c \in Calls, OnRejected(c) PROVE Generations'
  BY <1>0, <1>3, <1>a DEF OnRejected, goVars
<1>h. ASSUME asked # <<>>, Head(asked) # StopCall
      PROVE  Head(asked) \in Calls /\ at[Head(asked)] = "asked"
  <2>1. /\ Head(asked) = asked[1] /\ 1 \in 1 .. Len(asked)
        /\ asked[1] \in Calls \union {StopCall}
    BY <1>0, <1>h, HeadTailProperties, EmptySeq
  <2> QED BY <1>h, <2>1 DEF CallsWait
<1>4. CASE BeginConnect
  <2> DEFINE c == Head(asked)
  <2>1. c \in Calls /\ at[c] = "asked"
    BY <1>4, <1>h DEF BeginConnect
  <2>2. /\ at' = [at EXCEPT ![c] = "dialing"]
        /\ genOf' = [genOf EXCEPT ![c] = gen + 1]
        /\ gen' = gen + 1 /\ conn' = 0 /\ up' = up \ {conn}
    BY <1>4 DEF BeginConnect
  <2> HIDE DEF c
  <2> QED BY <1>0, <2>1, <2>2
<1>5. CASE BadAddress
  <2> DEFINE c == Head(asked)
  <2>1. c \in Calls /\ at[c] = "asked"
    BY <1>5, <1>h DEF BadAddress
  <2>2. /\ at' = [at EXCEPT ![c] = "failed"]
        /\ UNCHANGED <<genOf, gen, conn, up>>
    BY <1>5 DEF BadAddress, goVars
  <2> HIDE DEF c
  <2> QED BY <1>0, <2>1, <2>2, <1>a
<1>6. CASE BeginStop
  <2>1. gen' = gen + 1 /\ conn' = 0 /\ up' = up \ {conn} /\ UNCHANGED <<at, genOf>>
    BY <1>6 DEF BeginStop
  <2> QED BY <1>0, <2>1
<1>7. ASSUME NEW c \in Calls, DialFails(c) PROVE Generations'
  BY <1>0, <1>7 DEF DialFails, goVars
<1>8. ASSUME NEW c \in Calls, DialSucceeds(c) PROVE Generations'
  BY <1>0, <1>8 DEF DialSucceeds
<1>9. ASSUME NEW c \in Calls, Take(c) PROVE Generations'
  <2>1. CASE CurrentDial(c)
    <3>1. at[c] = "dialed" /\ at' = [at EXCEPT ![c] = "taken"] /\ conn' = c
          /\ UNCHANGED <<genOf, gen, up>> /\ genOf[c] = gen
      BY <1>9, <2>1 DEF Take, CurrentDial
    <3>2. conn = 0
      BY <1>0, <3>1
    <3> QED BY <1>0, <3>1, <3>2
  <2>2. CASE ~CurrentDial(c)
    <3>1. at[c] = "dialed" /\ at' = [at EXCEPT ![c] = "superseded"]
          /\ up' = up \ {c} /\ UNCHANGED <<genOf, gen, conn>>
      BY <1>9, <2>2 DEF Take
    <3> QED BY <1>0, <3>1
  <2> QED BY <2>1, <2>2
<1>10. ASSUME NEW c \in Calls, Open(c) PROVE Generations'
  BY <1>0, <1>10 DEF Open, goVars
<1>11. ASSUME NEW c \in Calls, Refuse(c) \/ Drop(c) PROVE Generations'
  BY <1>0, <1>11 DEF Refuse, Drop
<1>12. ASSUME NEW c \in Calls, ReaderEnds(c) PROVE Generations'
  <2>1. /\ c \notin up /\ UNCHANGED <<at, genOf, gen, up>>
        /\ conn' = conn \/ (conn = c /\ conn' = 0)
    BY <1>12 DEF ReaderEnds, Active
  <2> QED BY <1>0, <2>1
<1>13. CASE UNCHANGED <<at, genOf, gen, conn, up>>
  BY <1>0, <1>13
<1>14. ASSUME \/ UserStop \/ OnConnected \/ OnLinkClosed \/ OnRole \/ OnError
              \/ UNCHANGED transportVars
       PROVE  UNCHANGED <<at, genOf, gen, conn, up>>
  BY <1>14 DEF UserStop, OnConnected, OnLinkClosed, OnRole, OnError, transportVars, goVars
<1>15. ASSUME NEW c \in Calls, Report(c) \/ \E r \in Roles : Seat(c, r)
       PROVE  UNCHANGED <<at, genOf, gen, conn, up>>
  BY <1>15 DEF Report, Seat
<1> QED BY <1>1, <1>2, <1>3, <1>4, <1>5, <1>6, <1>7, <1>8, <1>9, <1>10,
           <1>11, <1>12, <1>13, <1>14, <1>15 DEF TransportNext

LEMMA OrderInit == TransportInit => CallsWait /\ Generations
<1> SUFFICES ASSUME TransportInit PROVE CallsWait /\ Generations
  OBVIOUS
<1>1. /\ asked = <<>> /\ at = [c \in Calls |-> "none"]
      /\ genOf = [c \in Calls |-> 0] /\ gen = 0 /\ conn = 0 /\ up = {}
  BY DEF TransportInit
<1>2. Len(asked) = 0
  BY <1>1, EmptySeq
<1> QED BY <1>1, <1>2 DEF CallsWait, Generations

\* However dials overlap and whatever order they end in, the connection in
\* place is the one the latest Connect made, and no other websocket stays
\* open but one whose dial has yet to look at the generation (the check in
\* Connect and the comparison in read).
THEOREM TransportOneConnection == TransportSpec => []OneConnection
<1> DEFINE I == TransportTypeOK /\ CallsWait /\ Generations
<1>1. TransportInit => I
  BY TypeInit, OrderInit
<1>2. I /\ [TransportNext]_transportVars => I'
  BY PageTypeStep, WireTypeStep, CallTypeStep, GoTypeStep, BudgetTypeStep,
     CallsWaitStep, GenerationsStep DEF TransportTypeOK
<1>3. I => OneConnection
  BY DEF Generations, OneConnection
<1> QED BY <1>1, <1>2, <1>3, PTL DEF TransportSpec

-----------------------------------------------------------------------------
(* Leaving                                                                 *)

\* What the page remembers of how it left: the timer is only set for a room
\* we are meant to be in, and after a stop either the call to Stop is the
\* last one on its way to Go or Go has done it, and no dial still running can
\* put a connection in place.
Leaving ==
  /\ timer => ~intentional /\ joinedRoom # NoRoom
  /\ ended # "no" => intentional
  /\ ended = "stop" =>
       \/ asked # <<>> /\ asked[Len(asked)] = StopCall
       \/ asked = <<>> /\ conn = 0 /\ \A c \in Calls : genOf[c] # gen

LEMMA LeavingStep ==
  TransportTypeOK /\ CallsWait /\ Generations /\ Leaving /\ [TransportNext]_transportVars => Leaving'
<1> SUFFICES ASSUME TransportTypeOK, Generations, Leaving, [TransportNext]_transportVars PROVE Leaving'
  OBVIOUS
<1>0. /\ asked \in Seq(Calls \union {StopCall})
      /\ genOf \in [Calls -> Nat]
      /\ gen \in Nat
      /\ conn \in Calls \union {0}
      /\ intentional \in BOOLEAN
      /\ timer \in BOOLEAN
  BY DEF TransportTypeOK, WireType, GoType, PageType
<1> USE DEF Leaving
<1>1. ASSUME NEW r \in Rooms, UserConnect(r) PROVE Leaving'
  BY <1>1 DEF UserConnect, ClearReconnect
<1>s. ASSUME Stop PROVE Leaving'
  <2>1. asked' # <<>> /\ asked'[Len(asked')] = StopCall
    <3>1. asked' = Append(asked, StopCall) BY <1>s DEF Stop
    <3>2. /\ Len(asked') = Len(asked) + 1
          /\ asked'[Len(asked) + 1] = StopCall
          /\ asked' # <<>>
      BY <1>0, <3>1, AppendProperties
    <3> QED BY <3>2
  <2>2. timer' = FALSE /\ intentional' = TRUE
    BY <1>s DEF Stop, ClearReconnect
  <2> QED BY <2>1, <2>2
<1>2. CASE UserStop
  BY <1>2, <1>s DEF UserStop
<1>3. CASE TimerFires
  <2>1. /\ ended = "no" /\ ended' = ended /\ timer' = FALSE
        /\ intentional' = intentional
    BY <1>3 DEF TimerFires
  <2> QED BY <2>1
<1>r. ASSUME timer' = ScheduleReconnect,
             UNCHANGED <<intentional, joinedRoom, ended, asked, conn, genOf, gen>>
      PROVE  Leaving'
  BY <1>r DEF ScheduleReconnect
<1>4. ASSUME NEW c \in Calls, OnRejected(c) PROVE Leaving'
  BY <1>4, <1>s, <1>r DEF OnRejected, goVars
<1>5. CASE OnLinkClosed
  BY <1>5, <1>r DEF OnLinkClosed, goVars
<1>6. CASE OnError
  BY <1>6 DEF OnError, ClearReconnect
<1>t. ASSUME asked # <<>>, asked' = Tail(asked),
             asked[Len(asked)] = StopCall, Head(asked) # StopCall
      PROVE  asked' # <<>> /\ asked'[Len(asked')] = StopCall
  <2>1. /\ Head(asked) = asked[1]
        /\ Len(asked') = Len(asked) - 1
        /\ \A i \in 1 .. Len(asked') : asked'[i] = asked[i + 1]
        /\ Len(asked) \in Nat \ {0}
        /\ Len(asked') \in Nat
    BY <1>0, <1>t, HeadTailProperties
  <2>2. Len(asked) # 1
    BY <1>t, <2>1
  <2>3. asked' # <<>>
    BY <2>1, <2>2, EmptySeq
  <2> QED BY <1>t, <2>1, <2>2, <2>3
<1>7. CASE BeginConnect
  <2>1. /\ asked # <<>> /\ asked' = Tail(asked) /\ Head(asked) # StopCall
        /\ UNCHANGED <<timer, intentional, joinedRoom, ended>>
    BY <1>7 DEF BeginConnect, pageVars
  <2> QED BY <2>1, <1>t
<1>8. CASE BadAddress
  <2>1. /\ asked # <<>> /\ asked' = Tail(asked) /\ Head(asked) # StopCall
        /\ UNCHANGED <<timer, intentional, joinedRoom, ended>>
    BY <1>8 DEF BadAddress, pageVars
  <2> QED BY <2>1, <1>t
<1>9. CASE BeginStop
  <2>1. /\ asked # <<>> /\ asked' = Tail(asked) /\ Head(asked) = StopCall
        /\ UNCHANGED <<timer, intentional, joinedRoom, ended, genOf>>
        /\ conn' = 0 /\ gen' = gen + 1
    BY <1>9 DEF BeginStop, pageVars
  <2>2. \A c \in Calls : genOf'[c] # gen'
    BY <1>0, <2>1 DEF Generations
  <2>3. ASSUME asked' # <<>>, asked[Len(asked)] = StopCall
        PROVE  asked'[Len(asked')] = StopCall
    <3>1. /\ Len(asked') = Len(asked) - 1
          /\ \A i \in 1 .. Len(asked') : asked'[i] = asked[i + 1]
          /\ Len(asked) \in Nat \ {0}
          /\ Len(asked') \in Nat
      BY <1>0, <2>1, HeadTailProperties
    <3>2. Len(asked') # 0
      BY <1>0, <2>1, <2>3, HeadTailProperties, EmptySeq
    <3>3. Len(asked') \in 1 .. Len(asked') /\ Len(asked') + 1 = Len(asked)
      BY <3>1, <3>2
    <3> QED BY <2>3, <3>1, <3>3
  <2> QED BY <2>1, <2>2, <2>3
<1>10. ASSUME NEW c \in Calls, Take(c) PROVE Leaving'
  <2>1. /\ UNCHANGED <<timer, intentional, joinedRoom, ended, asked, genOf, gen>>
        /\ conn' = conn \/ genOf[c] = gen
    BY <1>10 DEF Take, CurrentDial, pageVars
  <2> QED BY <2>1
<1>11. ASSUME NEW c \in Calls, ReaderEnds(c) PROVE Leaving'
  <2>1. /\ UNCHANGED <<timer, intentional, joinedRoom, ended, asked, genOf, gen>>
        /\ conn' = conn \/ conn' = 0
    BY <1>11 DEF ReaderEnds, pageVars
  <2> QED BY <2>1
<1>12. CASE UNCHANGED <<timer, intentional, joinedRoom, ended, asked, conn,
                        genOf, gen>>
  BY <1>12
<1>13. ASSUME OnConnected \/ OnRole \/ UNCHANGED transportVars
       PROVE  UNCHANGED <<timer, intentional, joinedRoom, ended, asked, conn,
                          genOf, gen>>
  BY <1>13 DEF OnConnected, OnRole, transportVars, goVars, pageVars
<1>14. ASSUME NEW c \in Calls, \/ DialFails(c) \/ DialSucceeds(c) \/ Open(c)
                               \/ Refuse(c) \/ Drop(c) \/ Report(c)
                               \/ \E r \in Roles : Seat(c, r)
       PROVE  UNCHANGED <<timer, intentional, joinedRoom, ended, asked, conn,
                          genOf, gen>>
  BY <1>14 DEF DialFails, DialSucceeds, Open, Refuse, Drop, Report, Seat,
               goVars, pageVars
<1> QED BY <1>1, <1>2, <1>3, <1>4, <1>5, <1>6, <1>7, <1>8, <1>9, <1>10,
           <1>11, <1>12, <1>13, <1>14 DEF TransportNext

LEMMA LeavingInvariant ==
  TransportSpec => [](TransportTypeOK /\ CallsWait /\ Generations /\ Leaving)
<1> DEFINE I == TransportTypeOK /\ CallsWait /\ Generations /\ Leaving
<1>1. TransportInit => I
  <2>1. TransportInit => Leaving
    BY DEF TransportInit, Leaving
  <2> QED BY <2>1, TypeInit, OrderInit
<1>2. I /\ [TransportNext]_transportVars => I'
  BY PageTypeStep, WireTypeStep, CallTypeStep, GoTypeStep, BudgetTypeStep,
     CallsWaitStep, GenerationsStep, LeavingStep DEF TransportTypeOK
<1> QED BY <1>1, <1>2, PTL DEF TransportSpec

\* After leaving no connection stays behind once Go has begun the calls made
\* so far, and no slow dial puts one in place later (Stop raises the
\* generation a dial compares itself with).
THEOREM TransportNoZombie == TransportSpec => []NoZombie
<1>1. Leaving => NoZombie
  BY DEF Leaving, NoZombie
<1> QED BY <1>1, LeavingInvariant, PTL

\* What the connection keeps at every step, for every set of rooms and bound.
THEOREM TransportSafety == TransportSpec => []ConnectionSafe
  BY TransportType, TransportOneConnection, TransportNoZombie, PTL DEF ConnectionSafe

\* A room we left, or that turned us away, is never dialled again by the
\* timer, in any interleaving of the timer, the rejections of old dials and
\* the events (clearReconnect and the guard of scheduleReconnect).
THEOREM TransportNotRetried == TransportSpec => NotRetried
<1>1. Leaving /\ [TransportNext]_transportVars =>
        [TimerFires => joinedRoom # NoRoom /\ ended = "no"]_transportVars
  BY DEF Leaving, TimerFires
<1>2. TransportSpec => [][TransportNext]_transportVars
  BY PTL DEF TransportSpec
<1> QED BY <1>1, <1>2, LeavingInvariant, PTL DEF NotRetried

-----------------------------------------------------------------------------
(* The opening of a connection is heard first.                             *)

OpeningOf(c) == [name |-> "connected", of |-> c]

\* The page has heard of the opening, or will before anything emitted from now on.
Announced(c) == c \in opened \/ \E j \in 1 .. Len(events) : events[j] = OpeningOf(c)

\* A connection that is open was announced, and nobody reads before it is open.
Announcing ==
  /\ OpenedFirst
  /\ \A c \in Calls : at[c] = "open" => Announced(c)
  /\ \A c \in Calls : reader[c] # "new" => at[c] = "open"

LEMMA HeadHeard ==
  ASSUME TransportTypeOK, OpenedFirst, events # <<>>, events' = Tail(events),
         opened \subseteq opened',
         Head(events).name = "connected" => Head(events).of \in opened'
  PROVE  OpenedFirst' /\ \A c \in Calls : Announced(c) => Announced(c)'
<1>1. events \in Seq(Event) /\ Len(events) \in Nat /\ Len(events) # 0
  BY DEF TransportTypeOK, WireType
<1>2. /\ Len(events') = Len(events) - 1
      /\ \A i \in 1 .. Len(events') : events'[i] = events[i + 1]
  BY <1>1
<1>3. Head(events) = events[1] BY <1>1
<1>4. \A i \in 2 .. Len(events) : i - 1 \in 1 .. Len(events') /\ events'[i - 1] = events[i]
  BY <1>1, <1>2
<1>5. ASSUME NEW c, NEW j \in 1 .. Len(events), events[j] = OpeningOf(c), c \notin opened'
      PROVE  j \in 2 .. Len(events)
  <2>1. j # 1 BY <1>3, <1>5 DEF OpeningOf
  <2> QED BY <1>1, <2>1
<1>6. ASSUME NEW i \in 1 .. Len(events'), events'[i].name # "connected", events'[i].of \notin opened'
      PROVE  \E j \in 1 .. (i - 1) : events'[j] = OpeningOf(events'[i].of)
  <2>1. i + 1 \in 1 .. Len(events) /\ events'[i] = events[i + 1] /\ i \in Nat BY <1>1, <1>2
  <2>2. PICK j \in 1 .. i : events[j] = OpeningOf(events'[i].of)
    BY <1>6, <2>1 DEF OpenedFirst, OpeningOf
  <2>3. j \in 1 .. Len(events) BY <1>1, <2>1
  <2>4. j \in 2 .. Len(events) BY <1>5, <1>6, <2>2, <2>3
  <2>5. j - 1 \in 1 .. (i - 1) /\ events'[j - 1] = OpeningOf(events'[i].of)
    BY <1>4, <2>1, <2>2, <2>4
  <2> QED BY <2>5
<1>7. ASSUME NEW c \in Calls, Announced(c) PROVE Announced(c)'
  <2>1. CASE c \in opened' BY <2>1 DEF Announced
  <2>2. CASE c \notin opened'
    <3>1. PICK j \in 1 .. Len(events) : events[j] = OpeningOf(c) BY <1>7, <2>2 DEF Announced
    <3>2. j \in 2 .. Len(events) BY <1>5, <2>2, <3>1
    <3>3. j - 1 \in 1 .. Len(events') /\ events'[j - 1] = OpeningOf(c) BY <1>4, <3>1, <3>2
    <3> QED BY <3>3 DEF Announced, OpeningOf
  <2> QED BY <2>1, <2>2
<1> QED BY <1>6, <1>7 DEF OpenedFirst, OpeningOf

LEMMA EventEmitted ==
  ASSUME TransportTypeOK, OpenedFirst, NEW c \in Calls,
         NEW name \in {"connected", "closed", "host", "guest", "error"}, Emit(name, c),
         name = "connected" \/ Announced(c), opened' = opened
  PROVE  /\ OpenedFirst' /\ \A d \in Calls : Announced(d) => Announced(d)'
         /\ name = "connected" => Announced(c)'
<1> DEFINE e == [name |-> name, of |-> c]
<1>1. events \in Seq(Event) /\ Len(events) \in Nat /\ events' = Append(events, e)
  BY DEF TransportTypeOK, WireType, Emit
<1>2. e.name = name /\ e.of = c /\ (name = "connected" => e = OpeningOf(c)) BY DEF OpeningOf
<1> HIDE DEF e
<1>3. /\ Len(events') = Len(events) + 1 /\ events'[Len(events) + 1] = e
      /\ \A i \in 1 .. Len(events) : i \in 1 .. Len(events') /\ events'[i] = events[i]
  BY <1>1
<1>4. ASSUME NEW i \in 1 .. Len(events'), events'[i].name # "connected", events'[i].of \notin opened'
      PROVE  \E j \in 1 .. (i - 1) : events'[j] = OpeningOf(events'[i].of)
  <2>1. CASE i = Len(events) + 1
    <3>1. PICK j \in 1 .. Len(events) : events[j] = OpeningOf(c)
      BY <1>2, <1>3, <1>4, <2>1 DEF Announced
    <3> QED BY <1>1, <1>2, <1>3, <2>1, <3>1
  <2>2. CASE i # Len(events) + 1
    <3>1. i \in 1 .. Len(events) BY <1>1, <1>3, <2>2
    <3>2. PICK j \in 1 .. (i - 1) : events[j] = OpeningOf(events[i].of)
      BY <1>3, <1>4, <3>1 DEF OpenedFirst, OpeningOf
    <3>3. j \in 1 .. Len(events) BY <1>1, <3>1, <3>2
    <3> QED BY <1>3, <3>1, <3>2, <3>3
  <2> QED BY <2>1, <2>2
<1>5. \A d \in Calls : Announced(d) => Announced(d)' BY <1>3 DEF Announced, OpeningOf
<1>6. name = "connected" => Announced(c)'
  <2>1. Len(events) + 1 \in 1 .. Len(events') BY <1>1, <1>3
  <2> QED BY <1>2, <1>3, <2>1 DEF Announced, OpeningOf
<1> QED BY <1>4, <1>5, <1>6 DEF OpenedFirst, OpeningOf

LEMMA AnnouncingStep == TransportTypeOK /\ CallsWait /\ Announcing /\ [TransportNext]_transportVars => Announcing'
<1> SUFFICES ASSUME TransportTypeOK, CallsWait, Announcing, [TransportNext]_transportVars PROVE Announcing'
  OBVIOUS
<1>0. /\ at \in [Calls -> Progress] /\ reader \in [Calls -> {"new", "seated", "lost", "done"}]
      /\ OpenedFirst
  BY DEF TransportTypeOK, CallType, GoType, Announcing
\* Nothing is emitted or heard, and nobody but an open connection starts to read.
<1>a. ASSUME UNCHANGED <<events, opened>>,
             \A c \in Calls : at'[c] = "open" <=> at[c] = "open",
             \A c \in Calls : reader'[c] # "new" => reader[c] # "new" \/ at[c] = "open"
      PROVE  Announcing'
  <2>1. OpenedFirst' BY <1>0, <1>a DEF OpenedFirst
  <2> QED BY <1>a, <2>1 DEF Announcing, Announced
\* An event is heard.
<1>b. ASSUME events # <<>>, events' = Tail(events), UNCHANGED <<at, reader>>,
             opened \subseteq opened',
             Head(events).name = "connected" => Head(events).of \in opened'
      PROVE  Announcing'
  <2>1. OpenedFirst' /\ \A c \in Calls : Announced(c) => Announced(c)'
    BY <1>0, <1>b, HeadHeard
  <2> QED BY <1>b, <2>1 DEF Announcing
<1>1. ASSUME NEW c \in Calls, at[c] # "open", NEW p, p # "open", at' = [at EXCEPT ![c] = p],
             UNCHANGED <<events, opened, reader>>
      PROVE  Announcing'
  <2>1. \A d \in Calls : at'[d] = "open" <=> at[d] = "open" BY <1>0, <1>1
  <2> QED BY <1>1, <1>a, <2>1
<1>2. ASSUME NEW r, NEW asRole, NEW by, Ask(r, asRole, by), UNCHANGED <<events, opened, reader>>
      PROVE  Announcing'
  <2>1. made + 1 \in Calls /\ made' = made + 1 BY <1>2, AskNumber DEF Ask
  <2>2. at[made + 1] = "none"
    <3>1. made + 1 > made BY DEF TransportTypeOK, CallType
    <3> QED BY <2>1, <3>1 DEF CallsWait
  <2>3. at' = [at EXCEPT ![made + 1] = "asked"] BY <1>2, <2>1 DEF Ask
  <2> QED BY <1>1, <1>2, <2>1, <2>2, <2>3
<1>3. ASSUME NEW r \in Rooms, UserConnect(r) PROVE Announcing'
  BY <1>2, <1>3 DEF UserConnect, goVars
<1>4. ASSUME TimerFires PROVE Announcing'
  BY <1>2, <1>4 DEF TimerFires, goVars
<1>5. ASSUME UserStop \/ BeginStop PROVE Announcing'
  <2>1. UNCHANGED <<events, opened, at, reader>> BY <1>5 DEF UserStop, BeginStop, goVars
  <2> QED BY <1>a, <2>1
<1>6. ASSUME NEW c \in Calls, OnRejected(c) PROVE Announcing'
  <2>1. at[c] = "failed" /\ at' = [at EXCEPT ![c] = "done"] /\ UNCHANGED <<events, opened, reader>>
    BY <1>6 DEF OnRejected, goVars
  <2> QED BY <1>1, <2>1
<1>7. ASSUME OnConnected PROVE Announcing'
  <2>1. /\ events # <<>> /\ events' = Tail(events) /\ UNCHANGED <<at, reader>>
        /\ opened' = opened \union {Head(events).of}
    BY <1>7 DEF OnConnected, Handled, goVars
  <2> QED BY <1>b, <2>1
<1>8. ASSUME OnLinkClosed \/ OnRole \/ OnError PROVE Announcing'
  <2>1. /\ events # <<>> /\ events' = Tail(events) /\ UNCHANGED <<at, reader, opened>>
        /\ Head(events).name # "connected"
    BY <1>8 DEF OnLinkClosed, OnRole, OnError, Handled, goVars, Roles
  <2> QED BY <1>b, <2>1
<1>9. ASSUME BeginConnect \/ BadAddress PROVE Announcing'
  <2> DEFINE c == Head(asked)
  <2>1. /\ asked # <<>> /\ c # StopCall /\ UNCHANGED <<events, opened, reader>>
        /\ \/ at' = [at EXCEPT ![c] = "dialing"]
           \/ at' = [at EXCEPT ![c] = "failed"]
    BY <1>9 DEF BeginConnect, BadAddress, goVars
  <2>2. c \in Calls /\ at[c] = "asked"
    <3>1. asked \in Seq(Calls \union {StopCall}) BY DEF TransportTypeOK, WireType
    <3>2. Len(asked) \in Nat /\ Len(asked) # 0 /\ c = asked[1] BY <2>1, <3>1
    <3>3. 1 \in 1 .. Len(asked) BY <3>2
    <3>4. c \in Calls BY <2>1, <3>1, <3>2, <3>3
    <3> QED BY <2>1, <3>2, <3>3, <3>4 DEF CallsWait
  <2> HIDE DEF c
  <2> QED BY <1>1, <2>1, <2>2
<1>10. ASSUME NEW c \in Calls, DialFails(c) \/ DialSucceeds(c) \/ Take(c) PROVE Announcing'
  <2>1. /\ at[c] # "open" /\ UNCHANGED <<events, opened, reader>>
        /\ \E p \in {"failed", "dialed", "taken", "superseded"} : at' = [at EXCEPT ![c] = p]
    BY <1>10 DEF DialFails, DialSucceeds, Take, goVars
  <2> QED BY <1>1, <2>1
<1>11. ASSUME NEW c \in Calls, Open(c) PROVE Announcing'
  <2>1. /\ Emit("connected", c) /\ opened' = opened /\ reader' = reader
        /\ at' = [at EXCEPT ![c] = "open"]
    BY <1>11 DEF Open, goVars
  <2>2. OpenedFirst' /\ Announced(c)' /\ \A d \in Calls : Announced(d) => Announced(d)'
    BY <1>0, <2>1, EventEmitted
  <2>3. at'[c] = "open" /\ \A d \in Calls \ {c} : at'[d] = at[d] BY <1>0, <2>1
  <2> QED BY <2>1, <2>2, <2>3 DEF Announcing
<1>12. ASSUME NEW c \in Calls, \/ \E r \in Roles : Seat(c, r)
                               \/ Refuse(c) \/ Report(c)
       PROVE  Announcing'
  <2>1. at[c] = "open" /\ at' = at /\ opened' = opened
    BY <1>12 DEF Seat, Refuse, Report, Reads, goVars, Announcing
  <2>2. \A d \in Calls : reader'[d] # "new" => reader[d] # "new" \/ at[d] = "open"
    BY <1>0, <1>12, <2>1 DEF Seat, Refuse, Report
  <2>3. \E name \in {"closed", "host", "guest", "error"} : Emit(name, c)
    BY <1>12 DEF Seat, Refuse, Report, Roles
  <2>4. Announced(c) BY <2>1 DEF Announcing
  <2>5. OpenedFirst' /\ \A d \in Calls : Announced(d) => Announced(d)'
    BY <1>0, <2>1, <2>3, <2>4, EventEmitted
  <2> QED BY <2>1, <2>2, <2>5 DEF Announcing
<1>13. ASSUME NEW c \in Calls, Drop(c) \/ ReaderEnds(c) PROVE Announcing'
  <2>1. UNCHANGED <<at, events, opened>> BY <1>13 DEF Drop, ReaderEnds
  <2>2. \A d \in Calls : reader'[d] # "new" => reader[d] # "new" \/ at[d] = "open"
    BY <1>0, <1>13 DEF Drop, ReaderEnds, Reads
  <2> QED BY <1>a, <2>1, <2>2
<1>14. ASSUME UNCHANGED transportVars PROVE Announcing'
  <2>1. UNCHANGED <<events, opened, at, reader>> BY <1>14 DEF transportVars, goVars
  <2> QED BY <1>a, <2>1
<1> QED BY <1>3, <1>4, <1>5, <1>6, <1>7, <1>8, <1>9, <1>10, <1>11, <1>12, <1>13, <1>14 DEF TransportNext

\* The page hears of the opening of a connection before any frame of it or its end,
\* for every interleaving of dials, reads and events (Relay.Connect emits before the
\* read loop starts).
THEOREM TransportOpenedFirst == TransportSpec => []OpenedFirst
<1>1. TransportInit => Announcing
  <2> HAVE TransportInit
  <2>1. Len(events) = 0 BY DEF TransportInit
  <2>2. OpenedFirst BY <2>1 DEF OpenedFirst
  <2>3. \A c \in Calls : at[c] = "none" /\ reader[c] = "new" BY DEF TransportInit
  <2> QED BY <2>2, <2>3 DEF Announcing
<1>2. Announcing => OpenedFirst BY DEF Announcing
<1> QED BY <1>1, <1>2, AnnouncingStep, LeavingInvariant, PTL DEF TransportSpec

(***************************************************************************)
(* The session                                                             *)
(***************************************************************************)

-----------------------------------------------------------------------------
(* Types.  The page is followed through the helpers every handler is made of. *)

Page == [open : BOOLEAN, host : BOOLEAN, joined : BOOLEAN, timer : BOOLEAN,
         round : 0..MaxRounds, wait : 0..MaxRounds, spinner : BOOLEAN,
         loader : Tasks \cup {Nobody}, current : Songs \cup {NoSong},
         loaded : Songs \cup {NoSong}, playing : BOOLEAN, loading : BOOLEAN,
         task : [Tasks -> TaskType]]

Pcs == {"idle", "youtube", "load", "wait", "align", "resume", "solo"}

\* A prepare frame names a round and its track, a play frame a released round.
FrameType ==
  [t : {"snapshot", "prepare", "play", "control"}, round : 0..MaxRounds,
   song : Songs \cup {NoSong}, playing : BOOLEAN]

FrameHolds(f, released) ==
  /\ f.t = "prepare" => f.round \in Rounds /\ f.song \in Songs
  /\ f.t = "play" => f.round \in released

FramesHold == down \in Seq(FrameType) /\ \A i \in 1..Len(down) : FrameHolds(down[i], room.released)

RoomType ==
  room \in [first : Songs \cup {NoSong}, song : [Rounds -> Songs \cup {NoSong}],
            round : 0..MaxRounds, playing : BOOLEAN, released : SUBSET Rounds]

SpentType == spent \in [rounds : 0..MaxRounds, controls : Nat, events : Nat]

LEMMA TaskSets ==
  /\ Rounds \subseteq Tasks /\ Snapshots \subseteq Tasks /\ Solo \in Tasks
  /\ Rounds \subseteq 0..MaxRounds /\ NoRound \in 0..MaxRounds
  /\ Rounds \cap Snapshots = {} /\ Solo \notin Rounds /\ NoRound \notin Rounds
  /\ \A r \in 0..MaxRounds : r # NoRound => r \in Rounds
BY SessionAssumption DEF SessionAssumption, Rounds, Snapshots, Solo, Tasks, NoRound

LEMMA TaskField ==
  ASSUME NEW p \in Page, NEW t \in Tasks
  PROVE  p.task[t] \in TaskType
BY DEF Page

LEMMA IdleType == IdleTask \in TaskType
BY DEF IdleTask, TaskType, NoSong

\* One field of one task changes.
LEMMA TaskChange ==
  ASSUME NEW p \in Page, NEW t \in Tasks, NEW x \in TaskType
  PROVE  [p.task EXCEPT ![t] = x] \in [Tasks -> TaskType]
BY DEF Page

LEMMA PcChange ==
  ASSUME NEW p \in Page, NEW t \in Tasks, NEW pc \in Pcs
  PROVE  [p.task EXCEPT ![t] = [p.task[t] EXCEPT !.pc = pc]] \in [Tasks -> TaskType]
<1>1. [p.task[t] EXCEPT !.pc = pc] \in TaskType
  BY TaskField DEF TaskType, Pcs
<1> QED BY <1>1, TaskChange

LEMMA ReleasedChange ==
  ASSUME NEW p \in Page, NEW t \in Tasks
  PROVE  [p.task EXCEPT ![t] = [p.task[t] EXCEPT !.released = TRUE]] \in [Tasks -> TaskType]
<1>1. [p.task[t] EXCEPT !.released = TRUE] \in TaskType
  BY TaskField DEF TaskType
<1> QED BY <1>1, TaskChange

LEMMA GoesType ==
  ASSUME NEW p \in Page, NEW t \in Tasks, NEW pc \in Pcs
  PROVE  Goes(p, t, pc) \in Page
<1>1. Goes(p, t, pc) = [p EXCEPT !.task = [p.task EXCEPT ![t] = [p.task[t] EXCEPT !.pc = pc]]]
  BY DEF Goes
<1> QED BY <1>1, PcChange DEF Page

LEMMA EndsType ==
  ASSUME NEW p \in Page, NEW t \in Tasks
  PROVE  Ends(p, t) \in Page
<1> HIDE DEF IdleTask
<1> QED BY IdleType DEF Page, Ends

LEMMA LoadType ==
  ASSUME NEW p \in Page, NEW t \in Tasks, NEW s \in Songs \cup {NoSong}, NEW pc \in Pcs
  PROVE  Load(p, t, s, pc) \in Page
<1> DEFINE f == [p.task EXCEPT ![t] = [p.task[t] EXCEPT !.pc = pc]]
<1>1. f \in [Tasks -> TaskType] BY PcChange
<1>2. Load(p, t, s, pc) =
        [p EXCEPT !.loader = t, !.current = s, !.loaded = NoSong, !.playing = FALSE,
                  !.loading = TRUE, !.task = f]
  BY DEF Load
<1> HIDE DEF f
<1> QED BY <1>1, <1>2 DEF Page

LEMMA ResumeType ==
  ASSUME NEW p \in Page, NEW t \in Tasks
  PROVE  Resume(p, t) \in Page
<1>1. CASE p.loaded # NoSong
  <2> DEFINE f == [p.task EXCEPT ![t] = [p.task[t] EXCEPT !.pc = "resume"]]
  <2>1. "resume" \in Pcs BY DEF Pcs
  <2>2. f \in [Tasks -> TaskType] BY <2>1, PcChange
  <2>3. Resume(p, t) = [p EXCEPT !.playing = TRUE, !.spinner = FALSE, !.task = f]
    BY <1>1 DEF Resume
  <2> HIDE DEF f
  <2> QED BY <2>2, <2>3 DEF Page
<1>2. CASE p.loaded = NoSong /\ p.current # NoSong
  <2>1. Resume(p, t) = Load(p, t, p.current, "solo") BY <1>2 DEF Resume
  <2>2. p.current \in Songs \cup {NoSong} BY DEF Page
  <2>3. "solo" \in Pcs BY DEF Pcs
  <2> QED BY <2>1, <2>2, <2>3, LoadType
<1>3. CASE p.loaded = NoSong /\ p.current = NoSong
  <2>1. Resume(p, t) = Goes(p, t, "resume") BY <1>3 DEF Resume
  <2>2. "resume" \in Pcs BY DEF Pcs
  <2> QED BY <2>1, <2>2, GoesType
<1> QED BY <1>1, <1>2, <1>3

LEMMA StopType ==
  ASSUME NEW p \in Page
  PROVE  StopPlayer(p) \in Page
BY DEF Page, StopPlayer

LEMMA CancelType ==
  ASSUME NEW p \in Page
  PROVE  CancelWait(p) \in Page
<1>1. CASE p.wait = NoRound
  BY <1>1 DEF CancelWait
<1>2. CASE p.wait # NoRound
  <2>1. p.wait \in Tasks BY <1>2, TaskSets DEF Page
  <2> DEFINE f == [p.task EXCEPT ![p.wait] = [p.task[p.wait] EXCEPT !.released = TRUE]]
  <2>2. f \in [Tasks -> TaskType] BY <2>1, ReleasedChange
  <2>3. CancelWait(p) = [p EXCEPT !.wait = NoRound, !.task = f]
    BY <1>2 DEF CancelWait
  <2> HIDE DEF f
  <2> QED BY <2>2, <2>3, TaskSets DEF Page
<1> QED BY <1>1, <1>2

LEMMA SettleType ==
  ASSUME NEW p \in Page, NEW g \in Rounds, NEW s \in Songs
  PROVE  Settle(p, g, s) \in Page
<1> DEFINE c == CancelWait(p)
           q == [c EXCEPT
                  !.round = g, !.spinner = TRUE, !.wait = g,
                  !.task = [t \in Tasks |->
                              IF t = g THEN [IdleTask EXCEPT !.pc = "youtube", !.song = s]
                              ELSE IF t \in Snapshots /\ @[t].pc # "idle"
                              THEN [@[t] EXCEPT !.moved = TRUE] ELSE @[t]]]
<1>1. c \in Page BY CancelType
<1>2. [IdleTask EXCEPT !.pc = "youtube", !.song = s] \in TaskType
  BY DEF IdleTask, TaskType
<1>3. \A t \in Tasks : c.task[t] \in TaskType /\ [c.task[t] EXCEPT !.moved = TRUE] \in TaskType
  BY <1>1, TaskField DEF TaskType
<1> HIDE DEF c
<1>4. q \in Page
  <2>1. g \in 0..MaxRounds BY TaskSets
  <2>2. [t \in Tasks |->
           IF t = g THEN [IdleTask EXCEPT !.pc = "youtube", !.song = s]
           ELSE IF t \in Snapshots /\ c.task[t].pc # "idle"
           THEN [c.task[t] EXCEPT !.moved = TRUE] ELSE c.task[t]] \in [Tasks -> TaskType]
    BY <1>2, <1>3
  <2> QED BY <1>1, <2>1, <2>2 DEF Page
<1>5. Settle(p, g, s) = IF s \in Linked THEN q ELSE Load(q, g, s, "load")
  BY DEF Settle, c
<1> HIDE DEF q
<1>6. "load" \in Pcs BY DEF Pcs
<1> QED BY <1>4, <1>5, <1>6, LoadType, TaskSets

-----------------------------------------------------------------------------
(* Frames.                                                                 *)

Frames == FramesHold /\ Len(down) <= MaxDown

LEMMA SendsFrames ==
  ASSUME Frames, NEW f \in FrameType, FrameHolds(f, room'.released), Sends(f),
         room.released \subseteq room'.released
  PROVE  Frames'
<1>1. down \in Seq(FrameType) BY DEF Frames, FramesHold
<1>2. down' \in Seq(FrameType) /\ Len(down') = Len(down) + 1
  BY <1>1, AppendProperties DEF Sends
<1>3. ASSUME NEW i \in 1..Len(down') PROVE FrameHolds(down'[i], room'.released)
  <2>1. CASE i = Len(down) + 1
    <3>1. down'[i] = f BY <1>1, <2>1, AppendProperties DEF Sends
    <3> QED BY <3>1 DEF FrameHolds
  <2>2. CASE i # Len(down) + 1
    <3>1. i \in 1..Len(down) BY <1>1, <1>2, <1>3, <2>2, LenProperties
    <3>2. down'[i] = down[i] BY <1>1, <3>1, AppendProperties DEF Sends
    <3>3. FrameHolds(down[i], room.released) BY <3>1 DEF Frames, FramesHold
    <3> QED BY <3>2, <3>3 DEF FrameHolds
  <2> QED BY <2>1, <2>2
<1>4. Len(down') <= MaxDown
  <2>1. Len(down) \in Nat BY <1>1, LenProperties
  <2> QED BY <1>2, <2>1, SessionAssumption DEF SessionAssumption, Sends
<1> QED BY <1>2, <1>3, <1>4 DEF Frames, FramesHold

LEMMA TakesFrames ==
  ASSUME Frames, NEW kind, Takes(kind), room.released \subseteq room'.released
  PROVE  /\ Frames'
         /\ Frame \in FrameType /\ FrameHolds(Frame, room.released)
<1>1. down \in Seq(FrameType) /\ down # <<>> BY DEF Frames, FramesHold, Takes
<1>2. down' \in Seq(FrameType) /\ Len(down') = Len(down) - 1 /\ Len(down) \in Nat
  BY <1>1, HeadTailProperties, LenProperties DEF Takes
<1>3. ASSUME NEW i \in 1..Len(down') PROVE FrameHolds(down'[i], room'.released)
  <2>1. i + 1 \in 1..Len(down) BY <1>2, <1>3
  <2>2. down'[i] = down[i + 1] BY <1>1, HeadTailProperties DEF Takes
  <2>3. FrameHolds(down[i + 1], room.released) BY <2>1 DEF Frames, FramesHold
  <2> QED BY <2>2, <2>3 DEF FrameHolds
<1>4. Frame \in FrameType /\ Frame = down[1] /\ 1 \in 1..Len(down)
  BY <1>1, EmptySeq, HeadTailProperties, LenProperties DEF Frame
<1>5. FrameHolds(Frame, room.released) BY <1>4 DEF Frames, FramesHold
<1>6. Len(down') <= MaxDown
  BY <1>2, SessionAssumption DEF SessionAssumption, Frames
<1> QED BY <1>2, <1>3, <1>4, <1>5, <1>6 DEF Frames, FramesHold

-----------------------------------------------------------------------------
(* Rounds.                                                                 *)

\* The wait is the current round's; the current round is told to start, and
\* aligns, only once the relay has released it.
RoundHolds(p, released) ==
  /\ p.wait \in {NoRound, p.round}
  /\ \A g \in Rounds :
       p.round = g /\ (p.task[g].released \/ p.task[g].pc = "align") => g \in released

IInv == me \in Page /\ Frames /\ RoomType /\ SpentType /\ RoundHolds(me, room.released)

\* What a step may do to a round that aligns.
Starts ==
  \A g \in Rounds : At(g) = "align" /\ me'.task[g].pc \in {"resume", "solo"}
    => me.round = g /\ g \in room.released

StepHolds == me' \in Page /\ RoundHolds(me', room'.released) /\ Starts

\* q comes from p without a word about rounds and tasks; or with task t moved on.
Same(p, q) == q.round = p.round /\ q.wait = p.wait /\ q.task = p.task

Turns(p, q, t) ==
  /\ q.round = p.round /\ q.wait = p.wait
  /\ \A u \in Tasks \ {t} : q.task[u] = p.task[u]
  /\ q.task[t].released => p.task[t].released

LEMMA SameTurns ==
  ASSUME NEW p, NEW q, NEW r, NEW t \in Tasks, Same(p, q), Turns(q, r, t)
  PROVE  Turns(p, r, t)
BY DEF Same, Turns

LEMMA Unturned ==
  ASSUME IInv, me' \in Page, Same(me, me'), room.released \subseteq room'.released
  PROVE  StepHolds
BY DEF IInv, Same, StepHolds, RoundHolds, Starts, At

LEMMA Turned ==
  ASSUME IInv, NEW t \in Tasks, me' \in Page, Turns(me, me', t),
         room.released \subseteq room'.released,
         t \in Rounds => /\ me'.task[t].pc # "align"
                         /\ At(t) = "align" => me'.task[t].pc \notin {"resume", "solo"}
  PROVE  StepHolds
BY TaskSets DEF IInv, Turns, StepHolds, RoundHolds, Starts, At

LEMMA GoesTurns ==
  ASSUME NEW p \in Page, NEW t \in Tasks, NEW pc
  PROVE  Turns(p, Goes(p, t, pc), t) /\ Goes(p, t, pc).task[t].pc = pc
<1>1. p.task[t] \in TaskType BY TaskField
<1>2. [p.task[t] EXCEPT !.pc = pc].pc = pc /\ [p.task[t] EXCEPT !.pc = pc].released = p.task[t].released
  BY <1>1 DEF TaskType
<1> QED BY <1>2 DEF Page, Goes, Turns

LEMMA EndsTurns ==
  ASSUME NEW p \in Page, NEW t \in Tasks
  PROVE  Turns(p, Ends(p, t), t) /\ Ends(p, t).task[t].pc = "idle"
BY DEF Page, Ends, Turns, IdleTask

LEMMA LoadTurns ==
  ASSUME NEW p \in Page, NEW t \in Tasks, NEW s, NEW pc
  PROVE  Turns(p, Load(p, t, s, pc), t) /\ Load(p, t, s, pc).task[t].pc = pc
<1>1. p.task[t] \in TaskType BY TaskField
<1>2. [p.task[t] EXCEPT !.pc = pc].pc = pc /\ [p.task[t] EXCEPT !.pc = pc].released = p.task[t].released
  BY <1>1 DEF TaskType
<1> QED BY <1>2 DEF Page, Load, Turns

LEMMA ResumeTurns ==
  ASSUME NEW p \in Page, NEW t \in Tasks
  PROVE  Turns(p, Resume(p, t), t) /\ Resume(p, t).task[t].pc \in {"resume", "solo"}
<1>1. CASE p.loaded # NoSong
  <2>1. p.task[t] \in TaskType BY TaskField
  <2>2. /\ [p.task[t] EXCEPT !.pc = "resume"].pc = "resume"
        /\ [p.task[t] EXCEPT !.pc = "resume"].released = p.task[t].released
    BY <2>1 DEF TaskType
  <2> QED BY <1>1, <2>2 DEF Page, Resume, Turns
<1>2. CASE p.loaded = NoSong /\ p.current # NoSong
  BY <1>2, LoadTurns DEF Resume
<1>3. CASE p.loaded = NoSong /\ p.current = NoSong
  BY <1>3, GoesTurns DEF Resume
<1> QED BY <1>1, <1>2, <1>3

LEMMA CancelRounds ==
  ASSUME NEW p \in Page
  PROVE  \A u \in Tasks : CancelWait(p).task[u].pc = p.task[u].pc
<1>1. CASE p.wait = NoRound BY <1>1 DEF CancelWait
<1>2. CASE p.wait # NoRound
  <2>1. p.wait \in Tasks BY <1>2, TaskSets DEF Page
  <2>2. [p.task[p.wait] EXCEPT !.released = TRUE].pc = p.task[p.wait].pc
    BY <2>1, TaskField DEF TaskType
  <2> QED BY <1>2, <2>1, <2>2 DEF CancelWait, Page
<1> QED BY <1>1, <1>2

\* A round begins: its own task is new, the tasks of other rounds stay where they are.
LEMMA SettleRounds ==
  ASSUME NEW p \in Page, NEW g \in Rounds, NEW s \in Songs
  PROVE  /\ Settle(p, g, s).round = g /\ Settle(p, g, s).wait = g
         /\ Settle(p, g, s).task[g].pc \in {"youtube", "load"}
         /\ ~Settle(p, g, s).task[g].released
         /\ \A u \in Rounds \ {g} : Settle(p, g, s).task[u].pc = p.task[u].pc
<1> DEFINE c == CancelWait(p)
           f == [t \in Tasks |->
                   IF t = g THEN [IdleTask EXCEPT !.pc = "youtube", !.song = s]
                   ELSE IF t \in Snapshots /\ c.task[t].pc # "idle"
                   THEN [c.task[t] EXCEPT !.moved = TRUE] ELSE c.task[t]]
           q == [c EXCEPT !.round = g, !.spinner = TRUE, !.wait = g, !.task = f]
<1>1. c \in Page BY CancelType
<1>2. Settle(p, g, s) = IF s \in Linked THEN q ELSE Load(q, g, s, "load")
  BY DEF Settle
<1>3. f[g].pc = "youtube" /\ ~f[g].released
  BY TaskSets DEF IdleTask
<1>4. \A u \in Rounds \ {g} : f[u].pc = p.task[u].pc
  BY CancelRounds, TaskSets
<1>5. f \in [Tasks -> TaskType]
  <2>1. [IdleTask EXCEPT !.pc = "youtube", !.song = s] \in TaskType
    BY DEF IdleTask, TaskType
  <2>2. \A t \in Tasks : c.task[t] \in TaskType /\ [c.task[t] EXCEPT !.moved = TRUE] \in TaskType
    BY <1>1, TaskField DEF TaskType
  <2> HIDE DEF c
  <2> QED BY <2>1, <2>2
<1> HIDE DEF c, f
<1>6. q \in Page /\ q.task = f /\ q.round = g /\ q.wait = g
  BY <1>1, <1>5, TaskSets DEF Page
<1> HIDE DEF q
<1>7. CASE s \in Linked
  BY <1>2, <1>3, <1>4, <1>6, <1>7
<1>8. CASE s \notin Linked
  <2> DEFINE l == Load(q, g, s, "load")
  <2>1. g \in Tasks BY TaskSets
  <2>2. Turns(q, l, g) /\ l.task[g].pc = "load"
    BY <1>6, <2>1, LoadTurns
  <2>3. Settle(p, g, s) = l BY <1>2, <1>8
  <2> HIDE DEF l
  <2>4. \A u \in Rounds \ {g} : u \in Tasks \ {g} BY TaskSets
  <2> QED BY <1>3, <1>4, <1>6, <2>2, <2>3, <2>4 DEF Turns
<1> QED BY <1>7, <1>8

LEMMA SettleStep ==
  ASSUME IInv, NEW p \in Page, Same(me, p), NEW g \in Rounds, NEW s \in Songs,
         me' = Settle(p, g, s)
  PROVE  StepHolds
<1>1. me' \in Page BY SettleType
<1>2. RoundHolds(me', room'.released) BY SettleRounds DEF RoundHolds
<1>3. Starts BY SettleRounds DEF Starts, Same, At
<1> QED BY <1>1, <1>2, <1>3 DEF StepHolds

-----------------------------------------------------------------------------
(* What surrounds the page.                                                *)

RestHolds == Frames' /\ RoomType' /\ SpentType'

LEMMA RoomSongType ==
  ASSUME RoomType PROVE RoomSong \in Songs \cup {NoSong}
BY TaskSets DEF RoomType, RoomSong

LEMMA NewRound ==
  ASSUME SpentType, MayPress
  PROVE  /\ spent.rounds + 1 \in Rounds /\ spent.rounds + 1 \in 0..MaxRounds
         /\ [spent EXCEPT !.rounds = spent.rounds + 1]
              \in [rounds : 0..MaxRounds, controls : Nat, events : Nat]
<1>1. /\ spent.rounds \in 0..MaxRounds /\ spent.controls \in Nat
      /\ spent.rounds + spent.controls < MaxRounds /\ MaxRounds \in Nat
  BY SessionAssumption DEF SpentType, MayPress, SessionAssumption
<1>2. spent.rounds + 1 \in 1..MaxRounds /\ spent.rounds + 1 \in 0..MaxRounds
  BY <1>1
<1> QED BY <1>2 DEF SpentType, Rounds

LEMMA Steady ==
  ASSUME IInv, Quiet PROVE RestHolds
BY DEF IInv, Quiet, RestHolds, Frames, FramesHold, FrameHolds, RoomType, SpentType

\* The page asks the room for its track.
LEMMA AskRest ==
  ASSUME IInv, NEW p \in Page, Asks(p), UNCHANGED room
  PROVE  me' \in Page /\ Same(p, me') /\ RestHolds
<1>1. me' \in Page /\ Same(p, me')
  BY DEF Asks, RequestJoin, Page, Same
<1>2. RoomType' BY DEF IInv, RoomType
<1>3. CASE Sends([t |-> "snapshot", round |-> NoRound, song |-> RoomSong,
                  playing |-> room.playing]) /\ UNCHANGED spent
  <2> DEFINE f == [t |-> "snapshot", round |-> NoRound, song |-> RoomSong,
                   playing |-> room.playing]
  <2>1. RoomSong \in Songs \cup {NoSong} BY RoomSongType DEF IInv
  <2>2. room.playing \in BOOLEAN BY DEF IInv, RoomType
  <2>3. f \in FrameType BY <2>1, <2>2, TaskSets DEF FrameType
  <2>4. FrameHolds(f, room'.released) BY DEF FrameHolds
  <2>5. Sends(f) BY <1>3
  <2> HIDE DEF f
  <2>6. Frames' BY <2>3, <2>4, <2>5, SendsFrames DEF IInv
  <2>7. SpentType' BY <1>3 DEF IInv, SpentType
  <2> QED BY <1>1, <1>2, <2>6, <2>7 DEF RestHolds
<1>4. CASE spent' = [spent EXCEPT !.events = @ + 1] /\ UNCHANGED down
  <2>1. Frames' BY <1>4 DEF IInv, Frames, FramesHold, FrameHolds
  <2>2. SpentType' BY <1>4 DEF IInv, SpentType
  <2> QED BY <1>1, <1>2, <2>1, <2>2 DEF RestHolds
<1> QED BY <1>1, <1>3, <1>4 DEF Asks

LEMMA LoadedRest ==
  ASSUME IInv, NEW t \in Tasks, NEW ok, Loaded(t, ok), UNCHANGED <<room, down>>
  PROVE  RestHolds
BY DEF IInv, Loaded, RestHolds, Frames, FramesHold, FrameHolds, RoomType, SpentType

LEMMA AfterLoadPage ==
  ASSUME IInv, NEW t \in Tasks, NEW ok
  PROVE  AfterLoad(t, ok) \in Page /\ Same(me, AfterLoad(t, ok))
<1>1. me.task[t].song \in Songs \cup {NoSong} BY TaskField DEF IInv, TaskType
<1>2. me \in Page BY DEF IInv
<1> DEFINE held == IF ok THEN me.task[t].song ELSE NoSong
<1>3. held \in Songs \cup {NoSong} BY <1>1
<1>4. AfterLoad(t, ok) = IF me.loader # t THEN me
                         ELSE [me EXCEPT !.loading = FALSE, !.loaded = held]
  BY DEF AfterLoad
<1> HIDE DEF held
<1> QED BY <1>2, <1>3, <1>4 DEF Page, Same

-----------------------------------------------------------------------------
(* The steps of a round.                                                   *)

LEMMA PressStep ==
  ASSUME IInv, NEW s \in Songs, Press(s) PROVE StepHolds /\ RestHolds
<1> DEFINE g == spent.rounds + 1
           p == [me EXCEPT !.current = s]
<1>1. g \in Rounds /\ g \in 0..MaxRounds /\ SpentType'
  BY NewRound DEF IInv, Press, SpentType
<1>2. p \in Page /\ Same(me, p) BY DEF IInv, Page, Same
<1>3. me' = Settle(p, g, s) BY DEF Press
<1>4. room' = [room EXCEPT !.song[g] = s, !.round = g, !.playing = FALSE] BY DEF Press
<1> HIDE DEF g, p
<1>5. StepHolds BY <1>1, <1>2, <1>3, SettleStep
<1>6. RoomType' /\ room'.released = room.released
  BY <1>1, <1>4 DEF IInv, RoomType
<1>7. Frames' BY <1>6 DEF IInv, Press, Frames, FramesHold, FrameHolds
<1> QED BY <1>1, <1>5, <1>6, <1>7 DEF RestHolds

LEMMA YouTubeStep ==
  ASSUME IInv, NEW g \in Rounds, YouTubeDone(g) PROVE StepHolds /\ RestHolds
<1>1. g \in Tasks /\ me \in Page /\ "load" \in Pcs BY TaskSets DEF IInv, Pcs
<1>2. me.task[g].song \in Songs \cup {NoSong} BY <1>1, TaskField DEF TaskType
<1>3. me' = Load(me, g, me.task[g].song, "load") /\ Quiet /\ At(g) = "youtube" BY DEF YouTubeDone
<1>4. me' \in Page BY <1>1, <1>2, <1>3, LoadType
<1>5. Turns(me, me', g) /\ me'.task[g].pc = "load" BY <1>1, <1>3, LoadTurns
<1> QED BY <1>1, <1>3, <1>4, <1>5, Turned, Steady DEF Quiet

LEMMA LoadStep ==
  ASSUME IInv, NEW g \in Rounds, NEW ok \in BOOLEAN, LoadDone(g, ok)
  PROVE  StepHolds /\ RestHolds
<1> DEFINE p == AfterLoad(g, ok)
<1>1. g \in Tasks /\ me \in Page /\ "wait" \in Pcs BY TaskSets DEF IInv, Pcs
<1>2. p \in Page /\ Same(me, p) BY <1>1, AfterLoadPage
<1>3. UNCHANGED room /\ RestHolds BY <1>1, LoadedRest DEF LoadDone
<1>4. \/ me' = Ends(p, g)
      \/ me' = [Goes(p, g, "wait") EXCEPT !.task[g].loaded = ok]
  BY DEF LoadDone
<1> HIDE DEF p
<1>5. CASE me' = Ends(p, g)
  <2>1. me' \in Page BY <1>1, <1>2, <1>5, EndsType
  <2>2. Turns(me, me', g) /\ me'.task[g].pc = "idle"
    BY <1>1, <1>2, <1>5, EndsTurns, SameTurns
  <2> QED BY <1>1, <1>3, <2>1, <2>2, Turned
<1>6. CASE me' = [Goes(p, g, "wait") EXCEPT !.task[g].loaded = ok]
  <2> DEFINE q == Goes(p, g, "wait")
             x == [q.task[g] EXCEPT !.loaded = ok]
  <2>1. q \in Page BY <1>1, <1>2, GoesType
  <2>2. Turns(me, q, g) /\ q.task[g].pc = "wait" BY <1>1, <1>2, GoesTurns, SameTurns
  <2>3. me' = [q EXCEPT !.task = [q.task EXCEPT ![g] = x]] BY <1>6
  <2> HIDE DEF q
  <2>4. x \in TaskType /\ x.pc = q.task[g].pc /\ x.released = q.task[g].released
    BY <1>1, <2>1, TaskField DEF TaskType
  <2> HIDE DEF x
  <2>5. [q.task EXCEPT ![g] = x] \in [Tasks -> TaskType] BY <1>1, <2>1, <2>4, TaskChange
  <2>6. me' \in Page BY <2>1, <2>3, <2>5 DEF Page
  <2>7. Turns(me, me', g) /\ me'.task[g].pc = "wait"
    BY <1>1, <2>1, <2>2, <2>3, <2>4 DEF Turns, Page
  <2> QED BY <1>1, <1>3, <2>6, <2>7, Turned
<1> QED BY <1>4, <1>5, <1>6

LEMMA WaitStep ==
  ASSUME IInv, NEW g \in Rounds, WaitDone(g) PROVE StepHolds /\ RestHolds
<1>1. g \in Tasks /\ me \in Page /\ "align" \in Pcs BY TaskSets DEF IInv, Pcs
<1>2. UNCHANGED room /\ RestHolds BY Steady DEF WaitDone, Quiet
<1>3. At(g) = "wait" /\ me.task[g].released BY DEF WaitDone
<1>4. CASE me' = Ends(me, g)
  <2>1. me' \in Page BY <1>1, <1>4, EndsType
  <2>2. Turns(me, me', g) /\ me'.task[g].pc = "idle" BY <1>1, <1>4, EndsTurns
  <2> QED BY <1>1, <1>2, <2>1, <2>2, Turned
<1>5. CASE me' = Ends([me EXCEPT !.spinner = FALSE], g)
  <2> DEFINE p == [me EXCEPT !.spinner = FALSE]
  <2>1. p \in Page /\ Same(me, p) BY <1>1 DEF Page, Same
  <2> HIDE DEF p
  <2>2. me' = Ends(p, g) BY <1>5 DEF p
  <2>3. me' \in Page BY <1>1, <2>1, <2>2, EndsType
  <2>4. Turns(me, me', g) /\ me'.task[g].pc = "idle" BY <1>1, <2>1, <2>2, EndsTurns, SameTurns
  <2> QED BY <1>1, <1>2, <2>3, <2>4, Turned
<1>6. CASE ~Overtaken(g) /\ me' = Goes(me, g, "align")
  <2>1. me' \in Page BY <1>1, <1>6, GoesType
  <2>2. Turns(me, me', g) /\ me'.task[g].pc = "align" BY <1>1, <1>6, GoesTurns
  <2>3. me.round = g /\ g \in room.released
    BY <1>3, <1>6 DEF Overtaken, IInv, RoundHolds
  <2>4. RoundHolds(me', room'.released)
    BY <1>1, <1>2, <2>2, <2>3, TaskSets DEF IInv, RoundHolds, Turns
  <2>5. Starts
    BY <2>2, TaskSets DEF Starts, Turns, At
  <2> QED BY <1>2, <2>1, <2>4, <2>5 DEF StepHolds
<1> QED BY <1>4, <1>5, <1>6 DEF WaitDone

LEMMA AlignStep ==
  ASSUME IInv, NEW g \in Rounds, AlignDone(g) PROVE StepHolds /\ RestHolds
<1>1. g \in Tasks /\ me \in Page BY TaskSets DEF IInv
<1>2. UNCHANGED room /\ RestHolds BY Steady DEF AlignDone, Quiet
<1>3. CASE Overtaken(g) /\ me' = Ends(me, g)
  <2>1. me' \in Page BY <1>1, <1>3, EndsType
  <2>2. Turns(me, me', g) /\ me'.task[g].pc = "idle" BY <1>1, <1>3, EndsTurns
  <2> QED BY <1>1, <1>2, <2>1, <2>2, Turned
<1>4. CASE ~Overtaken(g) /\ me' = Resume(me, g)
  <2>1. me' \in Page BY <1>1, <1>4, ResumeType
  <2>2. Turns(me, me', g) /\ me'.task[g].pc \in {"resume", "solo"} BY <1>1, <1>4, ResumeTurns
  <2>3. me.round = g /\ g \in room.released
    BY <1>4 DEF AlignDone, Overtaken, IInv, RoundHolds, At
  <2>4. RoundHolds(me', room'.released)
    BY <1>1, <1>2, <2>2, <2>3, TaskSets DEF IInv, RoundHolds, Turns
  <2>5. Starts BY <2>2, <2>3, TaskSets DEF Starts, Turns, At
  <2> QED BY <1>2, <2>1, <2>4, <2>5 DEF StepHolds
<1> QED BY <1>3, <1>4 DEF AlignDone

LEMMA ResumeDoneStep ==
  ASSUME IInv, NEW t \in Tasks, ResumeDone(t) PROVE StepHolds /\ RestHolds
<1> DEFINE p == IF t = Solo THEN me ELSE [me EXCEPT !.spinner = FALSE]
<1>1. p \in Page /\ Same(me, p) BY DEF IInv, Page, Same
<1>2. me' = Ends(p, t) /\ UNCHANGED room /\ RestHolds
  BY Steady DEF ResumeDone, Quiet
<1> HIDE DEF p
<1>3. me' \in Page BY <1>1, <1>2, EndsType
<1>4. Turns(me, me', t) /\ me'.task[t].pc = "idle" BY <1>1, <1>2, EndsTurns, SameTurns
<1> QED BY <1>2, <1>3, <1>4, Turned

LEMMA SoloStep ==
  ASSUME IInv, NEW t \in Tasks, NEW ok \in BOOLEAN, SoloDone(t, ok)
  PROVE  StepHolds /\ RestHolds
<1> DEFINE p == IF me.loader # t THEN me
                ELSE IF ok THEN [me EXCEPT !.loaded = me.current, !.playing = TRUE,
                                           !.loading = FALSE, !.spinner = FALSE]
                ELSE [me EXCEPT !.loading = FALSE]
           q == IF t = Solo THEN p ELSE [p EXCEPT !.spinner = FALSE]
<1>1. p \in Page /\ Same(me, p) BY DEF IInv, Page, Same
<1>2. me' = Ends(q, t) BY DEF SoloDone
<1>3. UNCHANGED room /\ RestHolds BY LoadedRest DEF SoloDone
<1> HIDE DEF p
<1>4. q \in Page /\ Same(me, q) BY <1>1 DEF Page, Same
<1> HIDE DEF q
<1>5. me' \in Page BY <1>2, <1>4, EndsType
<1>6. Turns(me, me', t) /\ me'.task[t].pc = "idle" BY <1>2, <1>4, EndsTurns, SameTurns
<1> QED BY <1>3, <1>5, <1>6, Turned

-----------------------------------------------------------------------------
(* Timers, frames and snapshots.                                           *)

LEMMA TimeoutStep ==
  ASSUME IInv, NEW g \in Rounds, ConsensusTimeout(g) PROVE StepHolds /\ RestHolds
<1> DEFINE f == [me.task EXCEPT ![g] = [me.task[g] EXCEPT !.released = TRUE]]
           p == [me EXCEPT !.wait = NoRound, !.round = NoRound, !.spinner = FALSE,
                           !.task[g].released = TRUE]
<1>1. g \in Tasks /\ me \in Page BY TaskSets DEF IInv
<1>2. f \in [Tasks -> TaskType] BY <1>1, ReleasedChange
<1>3. p = [me EXCEPT !.wait = NoRound, !.round = NoRound, !.spinner = FALSE, !.task = f]
  OBVIOUS
<1>4. \A u \in Tasks : f[u].pc = me.task[u].pc
  BY <1>1, TaskField DEF Page, TaskType
<1>5. Asks(p) /\ UNCHANGED room BY DEF ConsensusTimeout
<1> HIDE DEF f, p
<1>6. p \in Page /\ p.wait = NoRound /\ p.round = NoRound /\ p.task = f
  BY <1>1, <1>2, <1>3, TaskSets DEF Page
<1>7. me' \in Page /\ Same(p, me') /\ RestHolds BY <1>5, <1>6, AskRest
<1>8. RoundHolds(me', room'.released) BY <1>6, <1>7, TaskSets DEF Same, RoundHolds
<1>9. Starts BY <1>4, <1>6, <1>7, TaskSets DEF Starts, Same, At
<1> QED BY <1>7, <1>8, <1>9 DEF StepHolds

\* A question to the room that says nothing of rounds.
LEMMA AskStep ==
  ASSUME IInv, NEW p \in Page, Same(me, p), Asks(p), UNCHANGED room
  PROVE  StepHolds /\ RestHolds
<1>1. me' \in Page /\ Same(p, me') /\ RestHolds BY AskRest
<1>2. Same(me, me') BY <1>1 DEF Same
<1> QED BY <1>1, <1>2, Unturned

LEMMA JoinStep ==
  ASSUME IInv, JoinTimer PROVE StepHolds /\ RestHolds
<1>1. CASE me' = [me EXCEPT !.timer = FALSE] /\ UNCHANGED <<room, down, spent>>
  <2>1. me' \in Page /\ Same(me, me') BY <1>1 DEF IInv, Page, Same
  <2>2. StepHolds BY <1>1, <2>1, Unturned
  <2> QED BY <1>1, <2>2, Steady DEF Quiet
<1>2. CASE Asks(me) /\ UNCHANGED room
  BY <1>2, AskStep DEF IInv, Same
<1> QED BY <1>1, <1>2 DEF JoinTimer

LEMMA OpenStep ==
  ASSUME IInv, OnOpen PROVE StepHolds /\ RestHolds
<1> DEFINE p == [me EXCEPT !.open = TRUE, !.joined = FALSE]
<1>1. p \in Page /\ Same(me, p) BY DEF IInv, Page, Same
<1>2. Asks(p) /\ UNCHANGED room BY DEF OnOpen
<1> HIDE DEF p
<1> QED BY <1>1, <1>2, AskStep

LEMMA TakesRest ==
  ASSUME IInv, NEW kind, Takes(kind), RoomType', room.released \subseteq room'.released,
         UNCHANGED spent
  PROVE  RestHolds /\ Frame \in FrameType /\ FrameHolds(Frame, room.released)
<1>1. Frames' /\ Frame \in FrameType /\ FrameHolds(Frame, room.released)
  BY TakesFrames DEF IInv
<1>2. SpentType' BY DEF IInv, SpentType
<1> QED BY <1>1, <1>2 DEF RestHolds

LEMMA PlayStep ==
  ASSUME IInv, OnPlay PROVE StepHolds /\ RestHolds
<1>1. Takes("play") /\ UNCHANGED <<room, spent>> BY DEF OnPlay
<1>2. RestHolds /\ Frame \in FrameType /\ FrameHolds(Frame, room.released)
  BY <1>1, TakesRest DEF IInv, RoomType
<1>3. Frame.round \in room.released BY <1>1, <1>2 DEF Takes, FrameHolds
<1>4. CASE me' = me
  BY <1>1, <1>2, <1>4, Unturned DEF IInv, Same
<1>5. CASE /\ me.wait = Frame.round /\ me.wait # NoRound
           /\ me' = [me EXCEPT !.wait = NoRound, !.task[me.wait].released = TRUE]
  <2> DEFINE w == me.wait
             f == [me.task EXCEPT ![w] = [me.task[w] EXCEPT !.released = TRUE]]
  <2>1. me \in Page BY DEF IInv
  <2>2. w \in Rounds /\ w \in Tasks BY <1>5, <2>1, TaskSets DEF Page
  <2>3. f \in [Tasks -> TaskType] BY <2>1, <2>2, ReleasedChange
  <2>4. /\ \A u \in Tasks : f[u].pc = me.task[u].pc
        /\ \A u \in Tasks \ {w} : f[u] = me.task[u]
    BY <2>1, <2>2, TaskField DEF Page, TaskType
  <2>5. me' = [me EXCEPT !.wait = NoRound, !.task = f] BY <1>5
  <2> HIDE DEF f
  <2>6. me' \in Page /\ me'.wait = NoRound /\ me'.round = me.round /\ me'.task = f
    BY <2>1, <2>3, <2>5, TaskSets DEF Page
  <2>7. w \in room.released BY <1>3, <1>5
  <2>8. RoundHolds(me', room'.released)
    BY <1>1, <2>4, <2>6, <2>7, TaskSets DEF IInv, RoundHolds
  <2>9. Starts BY <2>4, <2>6, TaskSets DEF Starts, At
  <2> QED BY <1>2, <2>6, <2>8, <2>9 DEF StepHolds
<1> QED BY <1>4, <1>5 DEF OnPlay

LEMMA PrepareStep ==
  ASSUME IInv, OnPrepare PROVE StepHolds /\ RestHolds
<1>1. Takes("prepare") /\ UNCHANGED <<room, spent>> BY DEF OnPrepare
<1>2. RestHolds /\ Frame \in FrameType /\ FrameHolds(Frame, room.released)
  BY <1>1, TakesRest DEF IInv, RoomType
<1>3. Frame.round \in Rounds /\ Frame.song \in Songs BY <1>1, <1>2 DEF Takes, FrameHolds
<1>4. CASE me' = me
  BY <1>1, <1>2, <1>4, Unturned DEF IInv, Same
<1>5. CASE me' = Settle(me, Frame.round, Frame.song)
  <2>1. StepHolds BY <1>3, <1>5, SettleStep DEF IInv, Same
  <2> QED BY <1>2, <2>1
<1> QED BY <1>4, <1>5 DEF OnPrepare

LEMMA AdoptTurns ==
  ASSUME NEW p \in Page, NEW t \in Tasks
  PROVE  /\ Adopt(p, t) \in Page /\ Turns(p, Adopt(p, t), t)
         /\ Adopt(p, t).task[t].pc \in {"idle", "load"}
<1>1. CASE Adopt(p, t) = Ends(p, t)
  BY <1>1, EndsType, EndsTurns
<1>2. CASE Adopt(p, t) = Load([p EXCEPT !.spinner = TRUE], t, p.task[t].song, "load")
  <2> DEFINE q == [p EXCEPT !.spinner = TRUE]
             s == p.task[t].song
  <2>1. q \in Page /\ Same(p, q) BY DEF Page, Same
  <2>2. s \in Songs \cup {NoSong} BY TaskField DEF TaskType
  <2>3. "load" \in Pcs BY DEF Pcs
  <2>4. Adopt(p, t) = Load(q, t, s, "load") BY <1>2
  <2> HIDE DEF q, s
  <2> QED BY <2>1, <2>2, <2>3, <2>4, LoadType, LoadTurns, SameTurns
<1> QED BY <1>1, <1>2 DEF Adopt

\* The room's song and its playing may change hands, nothing else of it.
LEMMA InheritRest ==
  ASSUME IInv, OnSnapshot
  PROVE  RestHolds /\ Frame \in FrameType /\ room'.released = room.released
<1>1. RoomType' /\ room'.released = room.released
  BY DEF IInv, OnSnapshot, RoomType, Page
<1>2. Takes("snapshot") /\ UNCHANGED spent BY DEF OnSnapshot
<1> QED BY <1>1, <1>2, TakesRest

LEMMA SnapshotStep ==
  ASSUME IInv, OnSnapshot PROVE StepHolds /\ RestHolds
<1> DEFINE t == CHOOSE free \in FreeSnapshots : TRUE
           p == [me EXCEPT !.joined = TRUE, !.timer = FALSE]
           x == [IdleTask EXCEPT !.pc = "youtube", !.song = Frame.song, !.playing = Frame.playing]
           q == [p EXCEPT !.task[t] = x]
<1>1. t \in Snapshots /\ t \in Tasks /\ t \notin Rounds
  <2>1. t \in FreeSnapshots BY DEF OnSnapshot
  <2> QED BY <2>1, TaskSets DEF FreeSnapshots
<1>2. RestHolds /\ Frame \in FrameType /\ room'.released = room.released BY InheritRest
<1>3. p \in Page /\ Same(me, p) BY DEF IInv, Page, Same
<1>4. x \in TaskType /\ ~x.released
  BY <1>2 DEF FrameType, IdleTask, TaskType
<1>5. \/ me' = q \/ me' = Adopt(q, t)
      \/ me' = [p EXCEPT !.spinner = FALSE] \/ me' = StopPlayer(p)
  BY DEF OnSnapshot
<1> HIDE DEF t, p
<1>6. q \in Page /\ Turns(me, q, t)
  <2> HIDE DEF x
  <2>1. q = [p EXCEPT !.task = [p.task EXCEPT ![t] = x]] OBVIOUS
  <2>2. [p.task EXCEPT ![t] = x] \in [Tasks -> TaskType] BY <1>1, <1>3, <1>4, TaskChange
  <2>3. q \in Page BY <1>3, <2>1, <2>2 DEF Page
  <2>4. Turns(p, q, t) BY <1>1, <1>3, <1>4, <2>1, <2>2 DEF Page, Turns
  <2> QED BY <1>1, <1>3, <2>3, <2>4, SameTurns
<1> HIDE DEF q
<1>7. CASE me' = q
  BY <1>1, <1>2, <1>6, <1>7, Turned
<1>8. CASE me' = Adopt(q, t)
  <2>1. me' \in Page /\ Turns(q, me', t) BY <1>1, <1>6, <1>8, AdoptTurns
  <2>2. Turns(me, me', t) BY <1>6, <2>1 DEF Turns
  <2> QED BY <1>1, <1>2, <2>1, <2>2, Turned
<1>9. CASE me' = [p EXCEPT !.spinner = FALSE]
  <2>1. me' \in Page /\ Same(me, me') BY <1>3, <1>9 DEF Page, Same
  <2> QED BY <1>2, <2>1, Unturned
<1>10. CASE me' = StopPlayer(p)
  <2>1. me' \in Page BY <1>3, <1>10, StopType
  <2>2. Same(me, me') BY <1>3, <1>10 DEF Page, Same, StopPlayer
  <2> QED BY <1>2, <2>1, <2>2, Unturned
<1> QED BY <1>5, <1>7, <1>8, <1>9, <1>10

LEMMA SnapshotYouTubeStep ==
  ASSUME IInv, NEW t \in Snapshots, SnapshotYouTube(t) PROVE StepHolds /\ RestHolds
<1>1. t \in Tasks /\ t \notin Rounds /\ me \in Page BY TaskSets DEF IInv
<1>2. me' = Adopt(me, t) /\ Quiet BY DEF SnapshotYouTube
<1>3. me' \in Page /\ Turns(me, me', t) BY <1>1, <1>2, AdoptTurns
<1> QED BY <1>1, <1>2, <1>3, Turned, Steady DEF Quiet

LEMMA SnapshotLoadedStep ==
  ASSUME IInv, NEW t \in Snapshots, NEW ok \in BOOLEAN, SnapshotLoaded(t, ok)
  PROVE  StepHolds /\ RestHolds
<1> DEFINE p == AfterLoad(t, ok)
<1>1. t \in Tasks /\ t \notin Rounds /\ "align" \in Pcs BY TaskSets DEF Pcs
<1>2. p \in Page /\ Same(me, p) BY <1>1, AfterLoadPage
<1>3. UNCHANGED room /\ RestHolds BY <1>1, LoadedRest DEF SnapshotLoaded
<1>4. \/ me' = Ends(p, t) \/ me' = Ends([p EXCEPT !.spinner = FALSE], t)
      \/ me' = Goes(p, t, "align")
  BY DEF SnapshotLoaded
<1> HIDE DEF p
<1>5. me' \in Page /\ Turns(me, me', t)
  <2>1. CASE me' = Ends(p, t) BY <1>1, <1>2, <2>1, EndsType, EndsTurns, SameTurns
  <2>2. CASE me' = Ends([p EXCEPT !.spinner = FALSE], t)
    <3> DEFINE q == [p EXCEPT !.spinner = FALSE]
    <3>1. q \in Page /\ Same(me, q) BY <1>2 DEF Page, Same
    <3> HIDE DEF q
    <3>2. me' = Ends(q, t) BY <2>2 DEF q
    <3> QED BY <1>1, <3>1, <3>2, EndsType, EndsTurns, SameTurns
  <2>3. CASE me' = Goes(p, t, "align") BY <1>1, <1>2, <2>3, GoesType, GoesTurns, SameTurns
  <2> QED BY <1>4, <2>1, <2>2, <2>3
<1> QED BY <1>1, <1>3, <1>5, Turned

LEMMA SnapshotAlignedStep ==
  ASSUME IInv, NEW t \in Snapshots, SnapshotAligned(t) PROVE StepHolds /\ RestHolds
<1>1. t \in Tasks /\ t \notin Rounds /\ me \in Page BY TaskSets DEF IInv
<1>2. Quiet BY DEF SnapshotAligned
<1>3. me' \in Page /\ Turns(me, me', t)
  <2>1. CASE me' = Resume(me, t) BY <1>1, <2>1, ResumeType, ResumeTurns
  <2>2. CASE me' = Ends([me EXCEPT !.spinner = FALSE], t)
    <3> DEFINE q == [me EXCEPT !.spinner = FALSE]
    <3>1. q \in Page /\ Same(me, q) BY <1>1 DEF Page, Same
    <3> HIDE DEF q
    <3>2. me' = Ends(q, t) BY <2>2 DEF q
    <3> QED BY <1>1, <3>1, <3>2, EndsType, EndsTurns, SameTurns
  <2> QED BY <2>1, <2>2 DEF SnapshotAligned
<1> QED BY <1>1, <1>2, <1>3, Turned, Steady DEF Quiet

-----------------------------------------------------------------------------
(* Controls, the connection, and the others.                               *)

\* Somebody plays or pauses: Solo resumes, or the page stops sounding.
LEMMA SoundStep ==
  ASSUME IInv, room.released \subseteq room'.released,
         \/ me' = me \/ me' = [me EXCEPT !.playing = FALSE] \/ me' = Resume(me, Solo)
  PROVE  StepHolds
<1>1. me \in Page /\ Solo \in Tasks /\ Solo \notin Rounds BY TaskSets DEF IInv
<1>2. CASE me' = me
  BY <1>1, <1>2, Unturned DEF Same
<1>3. CASE me' = [me EXCEPT !.playing = FALSE]
  <2>1. me' \in Page /\ Same(me, me') BY <1>1, <1>3 DEF Page, Same
  <2> QED BY <2>1, Unturned
<1>4. CASE me' = Resume(me, Solo)
  BY <1>1, <1>4, ResumeType, ResumeTurns, Turned
<1> QED BY <1>2, <1>3, <1>4

LEMMA ControlStep ==
  ASSUME IInv, OnControl PROVE StepHolds /\ RestHolds
<1>1. StepHolds BY SoundStep DEF OnControl
<1>2. RestHolds BY TakesRest DEF IInv, OnControl, RoomType
<1> QED BY <1>1, <1>2

LEMMA ClosedStep ==
  ASSUME IInv, OnClosed PROVE StepHolds /\ RestHolds
<1> DEFINE p == CancelWait(me)
<1>1. p \in Page /\ \A u \in Tasks : p.task[u].pc = me.task[u].pc
  BY CancelType, CancelRounds DEF IInv
<1>2. me' = [p EXCEPT !.open = FALSE, !.timer = FALSE, !.round = NoRound,
                      !.spinner = FALSE, !.joined = FALSE]
  BY DEF OnClosed
<1>3. p.wait = NoRound
  BY DEF CancelWait, IInv, Page
<1> HIDE DEF p
<1>4. me' \in Page /\ me'.round = NoRound /\ me'.wait = NoRound /\ me'.task = p.task
  BY <1>1, <1>2, <1>3, TaskSets DEF Page
<1>5. RoundHolds(me', room'.released) BY <1>4, TaskSets DEF RoundHolds
<1>6. Starts BY <1>1, <1>4, TaskSets DEF Starts, At
<1>7. Frames'
  <2>1. down' = <<>> BY DEF OnClosed
  <2>2. down' \in Seq(FrameType) /\ Len(down') = 0 BY <2>1, EmptySeq
  <2> QED BY <2>2, SessionAssumption DEF SessionAssumption, Frames, FramesHold
<1>8. RoomType' /\ SpentType' BY DEF IInv, OnClosed, RoomType, SpentType
<1> QED BY <1>4, <1>5, <1>6, <1>7, <1>8 DEF StepHolds, RestHolds

LEMMA LocalStep ==
  ASSUME IInv, LocalControl PROVE StepHolds /\ RestHolds
<1>1. room' = [room EXCEPT !.playing = ~me.playing] /\ UNCHANGED down BY DEF LocalControl
<1>2. RoomType' /\ room'.released = room.released BY <1>1 DEF IInv, RoomType, Page
<1>3. StepHolds BY <1>2, SoundStep DEF LocalControl
<1>4. Frames' BY <1>1, <1>2 DEF IInv, Frames, FramesHold, FrameHolds
<1>5. SpentType' BY DEF IInv, LocalControl, SpentType
<1> QED BY <1>2, <1>3, <1>4, <1>5 DEF RestHolds

\* Frames from the others, whatever they do to the room.
LEMMA OthersFrames ==
  ASSUME IInv, NEW f \in FrameType, FrameHolds(f, room'.released),
         room.released \subseteq room'.released, Sends(f) \/ UNCHANGED down
  PROVE  Frames'
<1>1. CASE Sends(f) BY <1>1, SendsFrames DEF IInv
<1>2. CASE UNCHANGED down BY <1>2 DEF IInv, Frames, FramesHold, FrameHolds
<1> QED BY <1>1, <1>2

LEMMA OtherPressStep ==
  ASSUME IInv, NEW s \in Songs, OtherPress(s) PROVE StepHolds /\ RestHolds
<1> DEFINE g == spent.rounds + 1
           f == [t |-> "prepare", round |-> g, song |-> s, playing |-> FALSE]
<1>1. g \in Rounds /\ g \in 0..MaxRounds /\ SpentType'
  BY NewRound DEF IInv, OtherPress, SpentType
<1>2. room' = [room EXCEPT !.song[g] = s, !.round = g, !.playing = FALSE]
  BY DEF OtherPress
<1>3. Sends(f) \/ UNCHANGED down BY DEF OtherPress
<1> HIDE DEF g
<1>4. RoomType' /\ room'.released = room.released BY <1>1, <1>2 DEF IInv, RoomType
<1>5. f \in FrameType /\ FrameHolds(f, room'.released) BY <1>1 DEF FrameType, FrameHolds
<1> HIDE DEF f
<1>6. Frames' BY <1>3, <1>4, <1>5, OthersFrames
<1>7. StepHolds BY <1>4, SoundStep DEF OtherPress
<1> QED BY <1>1, <1>4, <1>6, <1>7 DEF RestHolds

LEMMA ReleaseStep ==
  ASSUME IInv, Release PROVE StepHolds /\ RestHolds
<1> DEFINE f == [t |-> "play", round |-> room.round, song |-> NoSong, playing |-> TRUE]
<1>1. /\ room.round \in Rounds /\ room.round \in 0..MaxRounds
      /\ room' = [room EXCEPT !.released = room.released \cup {room.round}, !.playing = TRUE]
      /\ Sends(f) \/ UNCHANGED down
  BY TaskSets DEF Release
<1>2. /\ RoomType' /\ room.released \subseteq room'.released
      /\ room.round \in room'.released
  BY <1>1 DEF IInv, RoomType
<1>3. f \in FrameType /\ FrameHolds(f, room'.released) BY <1>1, <1>2 DEF FrameType, FrameHolds
<1> HIDE DEF f
<1>4. Frames' BY <1>1, <1>2, <1>3, OthersFrames
<1>5. SpentType' BY DEF IInv, Release, SpentType
<1>6. StepHolds BY <1>2, SoundStep DEF Release
<1> QED BY <1>2, <1>4, <1>5, <1>6 DEF RestHolds

LEMMA OtherControlStep ==
  ASSUME IInv, OtherControl PROVE StepHolds /\ RestHolds
<1> DEFINE f == [t |-> "control", round |-> NoRound, song |-> NoSong, playing |-> ~room.playing]
<1>1. Sends(f) /\ room' = [room EXCEPT !.playing = ~room.playing] BY DEF OtherControl
<1>2. RoomType' /\ room'.released = room.released BY <1>1 DEF IInv, RoomType
<1>3. f \in FrameType /\ FrameHolds(f, room'.released) BY TaskSets DEF FrameType, FrameHolds
<1> HIDE DEF f
<1>4. Frames' BY <1>1, <1>2, <1>3, OthersFrames
<1>5. SpentType' BY DEF IInv, OtherControl, SpentType
<1>6. StepHolds BY <1>2, SoundStep DEF OtherControl
<1> QED BY <1>2, <1>4, <1>5, <1>6 DEF RestHolds

LEMMA HeartbeatStep ==
  ASSUME IInv, Heartbeat PROVE StepHolds /\ RestHolds
<1>1. UNCHANGED room BY DEF Heartbeat
<1>2. CASE Asks(me)
  BY <1>1, <1>2, AskStep DEF IInv, Same
<1>3. CASE UNCHANGED <<down, spent>> /\ me' \in {Resume(me, Solo), [me EXCEPT !.playing = FALSE]}
  <2>1. StepHolds BY <1>1, <1>3, SoundStep
  <2> QED BY <1>1, <1>3, <2>1, Steady DEF Quiet
<1> QED BY <1>2, <1>3 DEF Heartbeat

-----------------------------------------------------------------------------
(* The theorems.                                                           *)

LEMMA InitHolds == Init => IInv
<1> SUFFICES ASSUME Init PROVE IInv
  OBVIOUS
<1>1. [t \in Tasks |-> IdleTask] \in [Tasks -> TaskType] BY IdleType
<1>2. me \in Page
  <2>1. Opening \subseteq Songs \cup {NoSong}
    BY SessionAssumption DEF SessionAssumption, NoSong
  <2> HIDE DEF IdleTask
  <2> QED BY <1>1, <2>1, TaskSets DEF Init, Page
<1>3. RoomType /\ room.released = {}
  BY SessionAssumption, TaskSets DEF SessionAssumption, Init, RoomType, NoSong
<1>4. Frames
  <2>1. down = <<>> BY DEF Init
  <2>2. down \in Seq(FrameType) /\ Len(down) = 0 BY <2>1, EmptySeq
  <2> QED BY <2>2, SessionAssumption DEF SessionAssumption, Frames, FramesHold
<1>5. SpentType BY SessionAssumption DEF SessionAssumption, Init, SpentType
<1>6. RoundHolds(me, room.released) BY TaskSets DEF Init, RoundHolds
<1> QED BY <1>2, <1>3, <1>4, <1>5, <1>6 DEF IInv

LEMMA NextHolds == IInv /\ Next => StepHolds /\ RestHolds
<1> SUFFICES ASSUME IInv, Next PROVE StepHolds /\ RestHolds
  OBVIOUS
<1>1. CASE \E s \in Songs : Press(s) \/ OtherPress(s)
  BY <1>1, PressStep, OtherPressStep
<1>2. CASE \E g \in Rounds : OfRound(g) \/ ConsensusTimeout(g)
  BY <1>2, YouTubeStep, LoadStep, WaitStep, AlignStep, TimeoutStep DEF OfRound
<1>3. CASE \E t \in Snapshots : OfSnapshot(t)
  BY <1>3, SnapshotYouTubeStep, SnapshotLoadedStep, SnapshotAlignedStep DEF OfSnapshot
<1>4. CASE \E t \in Tasks : Resumes(t)
  BY <1>4, ResumeDoneStep, SoloStep DEF Resumes
<1>5. CASE Receives
  BY <1>5, PlayStep, PrepareStep, SnapshotStep, ControlStep DEF Receives
<1>6. CASE JoinTimer \/ OnOpen \/ OnClosed \/ LocalControl
  BY <1>6, JoinStep, OpenStep, ClosedStep, LocalStep
<1>7. CASE Release \/ OtherControl \/ Heartbeat
  BY <1>7, ReleaseStep, OtherControlStep, HeartbeatStep
<1> QED BY <1>1, <1>2, <1>3, <1>4, <1>5, <1>6, <1>7 DEF Next

LEMMA StutterHolds == IInv /\ UNCHANGED vars => IInv' /\ Starts
BY DEF IInv, vars, Frames, FramesHold, FrameHolds, RoomType, SpentType, RoundHolds, Starts, At

LEMMA InvariantStep == IInv /\ [Next]_vars => IInv' /\ Starts
<1> SUFFICES ASSUME IInv, [Next]_vars PROVE IInv' /\ Starts
  OBVIOUS
<1>1. CASE Next BY <1>1, NextHolds DEF StepHolds, RestHolds, IInv
<1>2. CASE UNCHANGED vars BY <1>2, StutterHolds
<1> QED BY <1>1, <1>2

\* The rounds of a page: the wait is the current round's, and the current round
\* aligns only when released, whatever frames, timers, snapshots and failed loads do
\* meanwhile (settle, waitForPlay and resolvePlay of room.ts).
THEOREM SessionInvariant == Spec => []IInv
<1>1. IInv /\ [Next]_vars => IInv' BY InvariantStep
<1> QED BY InitHolds, <1>1, PTL DEF Spec

\* The type of the page's state, for any number of tracks, rounds and frames; with it,
\* that no wait outlives its round (cancelWait in room.ts).
THEOREM SessionTypeOK == Spec => []TypeOK
<1>1. IInv => TypeOK
  BY DEF IInv, Page, Frames, RoundHolds, TypeOK
<1> QED BY SessionInvariant, <1>1, PTL

\* No member starts the track of a round ahead of the others: what settle does after
\* waitForPlay happens once the relay has released the round, and to the current one.
THEOREM SessionRoundStartsReleased == Spec => RoundStartsReleased
<1>1. IInv /\ [Next]_vars
        => [\A g \in Rounds : At(g) = "align" /\ me'.task[g].pc \in {"resume", "solo"}
              => me.round = g /\ g \in room.released]_vars
  BY InvariantStep DEF Starts
<1> QED BY SessionInvariant, <1>1, PTL DEF Spec, RoundStartsReleased
===============================================================================
