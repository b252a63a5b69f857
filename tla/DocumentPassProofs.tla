-------------------------- MODULE DocumentPassProofs --------------------------
(***************************************************************************)
(* Proofs about DocumentPass, for any documents, records, calls and        *)
(* faults: its type, that two calls never touch the staged files at once,  *)
(* and that the write baseline is bytes a provider has received.           *)
(***************************************************************************)
EXTENDS DocumentPass, TLAPS

-----------------------------------------------------------------------------
(* Types.                                                                  *)

Records == Edits \cup Foreign

\* The staged files are in use; and a call that has not begun.
ActivePcs == {"begin", "info", "unsettled", "stage", "merge", "restage", "again",
              "commit", "written", "reload"}
Early == {"idle", "wait", "chained", "begin"}

CallType ==
  [pc : ActivePcs \cup {"idle", "wait", "chained", "probe", "picked"},
   mode : {"auto", "manual", "reload"}, force : BOOLEAN, after : Calls \cup {Nobody},
   uri : Docs \cup {NoDoc}, stamp : Nat]

Pages == [running : Calls \cup {Nobody}, call : [Calls -> CallType],
          busy : Calls \cup {Nobody}, failed : BOOLEAN]

\* What a provider may hold, and what a staged file may be.
Documents == (SUBSET Records) \cup {Torn}
File == Documents \cup {Gone}

StatusType ==
  [ran : BOOLEAN, uri : Docs \cup {NoDoc}, writeAt : Nat, hash : File, stale : BOOLEAN,
   problem : BOOLEAN, readStamp : Nat, aged : BOOLEAN]

Apps == [folder : Docs \cup {NoDoc}, library : SUBSET Records, dirty : BOOLEAN,
         incoming : File, outgoing : File, status : StatusType]

Copies == [doc : Documents, stamp : Nat]

Providers == [clock : Nat, doc : [Docs -> Documents], stamp : [Docs -> Nat],
              cached : [Docs -> Copies], received : SUBSET Documents]

Jobs == [call : Calls \cup {Nobody}, kind : {"stage", "info", "commit"}, uri : Docs]

LEMMA ReadType ==
  /\ \A data \in Documents : Read(data) \in SUBSET Records
  /\ CutShort \subseteq Documents /\ SUBSET Records \subseteq Documents
  /\ Documents \subseteq File /\ Gone \in File
BY DEF Read, CutShort, Documents, File

LEMMA NobodyCalls == Nobody \notin Calls /\ Calls \subseteq Nat
BY DocumentAssumption DEF DocumentAssumption, Nobody

LEMMA CallField ==
  ASSUME NEW p \in Pages, NEW c \in Calls PROVE p.call[c] \in CallType
BY DEF Pages

LEMMA IdleType == IdleCall \in CallType
BY DEF IdleCall, CallType

\* One call of a page changes.
LEMMA CallChange ==
  ASSUME NEW p \in Pages, NEW c \in Calls, NEW x \in CallType
  PROVE  /\ [p EXCEPT !.call = [p.call EXCEPT ![c] = x]] \in Pages
         /\ [p EXCEPT !.call = [p.call EXCEPT ![c] = x]].call = [p.call EXCEPT ![c] = x]
         /\ [p EXCEPT !.call = [p.call EXCEPT ![c] = x]].running = p.running
         /\ [p.call EXCEPT ![c] = x][c] = x
         /\ \A d \in Calls \ {c} : [p.call EXCEPT ![c] = x][d] = p.call[d]
<1> HIDE DEF CallType
<1>1. [p.call EXCEPT ![c] = x] \in [Calls -> CallType] BY DEF Pages
<1> QED BY <1>1 DEF Pages

-----------------------------------------------------------------------------
(* The chain of calls: the calls that hold a place in it are ranked, the   *)
(* first is active, each later one is chained after the one before it, and *)
(* running is the last.                                                    *)

Ranked(p, rank) ==
  /\ rank \in [Calls -> Nat]
  /\ \A c \in Calls : rank[c] = 1 <=> p.call[c].pc \in ActivePcs
  /\ \A c \in Calls : rank[c] > 1 <=> p.call[c].pc = "chained"
  /\ \A c, d \in Calls : rank[c] = rank[d] /\ rank[c] # 0 => c = d
  /\ p.running = Nobody => \A c \in Calls : rank[c] = 0
  /\ p.running # Nobody => rank[p.running] # 0 /\ \A c \in Calls : rank[c] <= rank[p.running]
  /\ \A c \in Calls : rank[c] > 1 =>
        p.call[c].after \in Calls /\ rank[p.call[c].after] = rank[c] - 1

ChainHolds(p) == \E rank : Ranked(p, rank)

\* What the chain looks at.
SamePlace(x, y) ==
  /\ x.pc \in ActivePcs <=> y.pc \in ActivePcs
  /\ x.pc = "chained" <=> y.pc = "chained"
  /\ x.pc = "chained" => y.after = x.after

LEMMA PlaceKept ==
  ASSUME NEW p, NEW q, ChainHolds(p), q.running = p.running,
         \A c \in Calls : SamePlace(p.call[c], q.call[c])
  PROVE  ChainHolds(q)
<1>1. PICK rank : Ranked(p, rank) BY DEF ChainHolds
<1>2. Ranked(q, rank)
  <2>1. \A c \in Calls : /\ rank[c] = 1 <=> q.call[c].pc \in ActivePcs
                         /\ rank[c] > 1 <=> q.call[c].pc = "chained"
    BY <1>1 DEF Ranked, SamePlace
  <2>2. \A c \in Calls : rank[c] > 1 =>
          q.call[c].after \in Calls /\ rank[q.call[c].after] = rank[c] - 1
    BY <1>1 DEF Ranked, SamePlace
  <2> QED BY <1>1, <2>1, <2>2 DEF Ranked
<1> QED BY <1>2 DEF ChainHolds

LEMMA OneActive ==
  ASSUME NEW p, ChainHolds(p)
  PROVE  \A c, d \in Calls : p.call[c].pc \in ActivePcs /\ p.call[d].pc \in ActivePcs => c = d
BY DEF ChainHolds, Ranked

\* What the other calls may do while one moves: some of those that wait begin.
OthersAs(c, p, q) ==
  \A d \in Calls \ {c} :
    /\ q.call[d].uri = p.call[d].uri
    /\ \/ q.call[d].pc = p.call[d].pc
       \/ p.call[d].pc \in {"wait", "chained"} /\ q.call[d].pc \in {"wait", "chained", "begin"}

LEMMA QueueHolds ==
  ASSUME NEW p \in Pages, ChainHolds(p), NEW c \in Calls,
         p.call[c].pc \notin ActivePcs \cup {"chained"}
  PROVE  /\ Queue(p, c) \in Pages /\ ChainHolds(Queue(p, c)) /\ \A d \in Calls \ {c} : Queue(p, c).call[d] = p.call[d]
         /\ Queue(p, c).call[c].pc \in {"begin", "chained"}
         /\ Queue(p, c).call[c].uri = p.call[c].uri
         /\ Queue(p, c).running = c
<1> DEFINE x == [p.call[c] EXCEPT !.after = p.running,
                                  !.pc = IF p.running = Nobody THEN "begin" ELSE "chained"]
           q == Queue(p, c)
<1>1. x \in CallType /\ x.after = p.running /\ x.uri = p.call[c].uri
      /\ x.pc = IF p.running = Nobody THEN "begin" ELSE "chained"
  <2>1. p.call[c] \in CallType /\ p.running \in Calls \cup {Nobody} BY DEF Pages
  <2>2. (IF p.running = Nobody THEN "begin" ELSE "chained") \in {"begin", "chained"} OBVIOUS
  <2> DEFINE place == IF p.running = Nobody THEN "begin" ELSE "chained"
  <2> HIDE DEF place
  <2>3. x = [p.call[c] EXCEPT !.after = p.running, !.pc = place] BY DEF place
  <2>4. place \in {"begin", "chained"} BY <2>2 DEF place
  <2> HIDE DEF x
  <2>5. x \in CallType /\ x.after = p.running /\ x.uri = p.call[c].uri /\ x.pc = place
    BY <2>1, <2>3, <2>4 DEF CallType, ActivePcs
  <2> QED BY <2>5 DEF place
<1>2. q = [p EXCEPT !.running = c, !.call = [p.call EXCEPT ![c] = x]]
  BY CallField DEF Queue, CallType, Pages
<1> HIDE DEF x, q
<1>3. [p.call EXCEPT ![c] = x] \in [Calls -> CallType]
      /\ [p.call EXCEPT ![c] = x][c] = x
      /\ \A d \in Calls \ {c} : [p.call EXCEPT ![c] = x][d] = p.call[d]
  BY <1>1 DEF Pages
<1>4. q \in Pages /\ q.running = c /\ q.call = [p.call EXCEPT ![c] = x]
  BY <1>2, <1>3 DEF Pages
<1>5. PICK rank : Ranked(p, rank) BY DEF ChainHolds
<1> DEFINE r == [rank EXCEPT ![c] = IF p.running = Nobody THEN 1 ELSE rank[p.running] + 1]
<1>6. Ranked(q, r)
  <2>1. rank[c] = 0 /\ rank \in [Calls -> Nat] BY <1>5 DEF Ranked
  <2>2. CASE p.running = Nobody
    <3>1. r \in [Calls -> Nat] /\ r[c] = 1 /\ \A d \in Calls \ {c} : r[d] = 0
      BY <1>5, <2>1, <2>2 DEF Ranked
    <3>2. q.call[c].pc = "begin" /\ \A d \in Calls \ {c} : q.call[d] = p.call[d]
      BY <1>1, <1>3, <1>4, <2>2
    <3>3. \A d \in Calls \ {c} : q.call[d].pc \notin ActivePcs \cup {"chained"}
      BY <1>5, <2>2, <3>2 DEF Ranked
    <3> HIDE DEF r
    <3> QED BY <1>4, <3>1, <3>2, <3>3, NobodyCalls DEF Ranked, ActivePcs
  <2>3. CASE p.running # Nobody
    <3> DEFINE n == rank[p.running]
    <3>1. p.running \in Calls /\ n \in Nat /\ n # 0 /\ \A d \in Calls : rank[d] <= n
      BY <1>5, <2>1, <2>3 DEF Ranked, Pages
    <3>2. /\ r \in [Calls -> Nat] /\ r[c] = n + 1 /\ p.running # c
          /\ \A d \in Calls \ {c} : r[d] = rank[d]
      BY <2>1, <2>3, <3>1
    <3>3. q.call[c] = x /\ q.call[c].pc = "chained" /\ q.call[c].after = p.running
      BY <1>1, <1>3, <1>4, <2>3
    <3>4. \A d \in Calls \ {c} : q.call[d] = p.call[d] BY <1>3, <1>4
    <3> HIDE DEF r
    <3>5. \A d \in Calls : /\ r[d] = 1 <=> q.call[d].pc \in ActivePcs
                           /\ r[d] > 1 <=> q.call[d].pc = "chained"
      BY <1>5, <3>1, <3>2, <3>3, <3>4 DEF Ranked, ActivePcs
    <3>6. \A d, e \in Calls : r[d] = r[e] /\ r[d] # 0 => d = e
      BY <1>5, <3>1, <3>2 DEF Ranked
    <3>7. \A d \in Calls : r[d] > 1 => q.call[d].after \in Calls /\ r[q.call[d].after] = r[d] - 1
      <4>1. r[c] - 1 = r[p.running] BY <3>1, <3>2
      <4>2. ASSUME NEW d \in Calls \ {c}, r[d] > 1
            PROVE  q.call[d].after \in Calls /\ r[q.call[d].after] = r[d] - 1
        <5>1. rank[d] > 1 BY <3>2, <4>2
        <5>2. p.call[d].after \in Calls /\ rank[p.call[d].after] = rank[d] - 1
          BY <1>5, <5>1 DEF Ranked
        <5>3. p.call[d].after # c BY <2>1, <5>1, <5>2
        <5> QED BY <3>2, <3>4, <5>2, <5>3
      <4> QED BY <3>1, <3>3, <4>1, <4>2
    <3>8. \A d \in Calls : r[d] <= r[c] BY <3>1, <3>2, <2>1
    <3> QED BY <1>4, <3>1, <3>2, <3>5, <3>6, <3>7, <3>8, NobodyCalls DEF Ranked
  <2> QED BY <2>2, <2>3
<1>7. \A d \in Calls \ {c} : q.call[d] = p.call[d] BY <1>3, <1>4
<1>8. q.call[c].pc \in {"begin", "chained"} /\ q.call[c].uri = p.call[c].uri
  BY <1>1, <1>3, <1>4
<1> QED BY <1>4, <1>6, <1>7, <1>8 DEF ChainHolds, q

LEMMA ManualHolds ==
  ASSUME NEW p \in Pages, ChainHolds(p), NEW c \in Calls,
         p.call[c].pc \notin ActivePcs \cup {"chained"}
  PROVE  /\ Manual(p, c) \in Pages /\ ChainHolds(Manual(p, c))
         /\ \A d \in Calls \ {c} : Manual(p, c).call[d] = p.call[d]
         /\ Manual(p, c).call[c].pc \in {"begin", "chained", "wait"}
         /\ Manual(p, c).call[c].uri = p.call[c].uri
         /\ Manual(p, c).running \in Calls
<1>1. CASE p.running = Nobody
  <2>1. Manual(p, c) = Queue(p, c) BY <1>1 DEF Manual
  <2>2. /\ Queue(p, c) \in Pages /\ ChainHolds(Queue(p, c))
        /\ \A d \in Calls \ {c} : Queue(p, c).call[d] = p.call[d]
        /\ Queue(p, c).call[c].pc \in {"begin", "chained"}
        /\ Queue(p, c).call[c].uri = p.call[c].uri
        /\ Queue(p, c).running = c
    BY QueueHolds
  <2> QED BY <2>1, <2>2
<1>2. CASE p.running # Nobody
  <2> DEFINE x == [p.call[c] EXCEPT !.pc = "wait", !.after = p.running]
             q == Manual(p, c)
  <2>1. x \in CallType /\ x.pc = "wait" /\ x.uri = p.call[c].uri
    <3>1. p.call[c] \in CallType /\ p.running \in Calls \cup {Nobody} BY DEF Pages
    <3> QED BY <3>1 DEF CallType
  <2>2. q = [p EXCEPT !.call = [p.call EXCEPT ![c] = x]]
    BY <1>2, CallField DEF Manual, CallType, Pages
  <2> HIDE DEF x, q
  <2>3. /\ q \in Pages /\ q.running = p.running /\ q.call[c] = x
        /\ \A d \in Calls \ {c} : q.call[d] = p.call[d]
    BY <2>1, <2>2, CallChange
  <2>4. ChainHolds(q)
    <3>1. \A d \in Calls : SamePlace(p.call[d], q.call[d])
      <4>1. x.pc \notin ActivePcs \cup {"chained"} BY <2>1 DEF ActivePcs
      <4> QED BY <2>3, <4>1 DEF SamePlace
    <3> QED BY <2>3, <3>1, PlaceKept
  <2>5. q.running \in Calls BY <1>2, <2>3 DEF Pages
  <2> QED BY <2>1, <2>3, <2>4, <2>5 DEF q
<1> QED BY <1>1, <1>2

-----------------------------------------------------------------------------
(* A call ends.                                                            *)

\* The page once the slot is free, and once the call chained after c begins.
Freed(c, ok) ==
  Clear([page EXCEPT !.call[c] = IdleCall,
                     !.busy = IF @ = c THEN Nobody ELSE @,
                     !.failed = IF page.call[c].mode = "manual" /\ page.busy = c
                                THEN ~ok ELSE @], c, ok)

Passed(c, ok) ==
  [Freed(c, ok) EXCEPT !.call = [w \in Calls |->
     IF @[w].pc = "chained" /\ @[w].after = c THEN [@[w] EXCEPT !.pc = "begin"] ELSE @[w]]]

Waiting(c, ok) == {w \in Calls : Freed(c, ok).call[w].pc = "wait" /\ Freed(c, ok).call[w].after = c}

Retried(c, ok, first) ==
  LET q == Manual(Passed(c, ok), first)
  IN  [q EXCEPT !.call = [w \in Calls |->
         IF w \in Waiting(c, ok) \ {first} THEN [@[w] EXCEPT !.after = q.running] ELSE @[w]]]

LEMMA FreedHolds ==
  ASSUME page \in Pages, NEW c \in Calls, NEW ok \in BOOLEAN
  PROVE  /\ Freed(c, ok) \in Pages
         /\ Freed(c, ok).call = [page.call EXCEPT ![c] = IdleCall]
         /\ Freed(c, ok).running = IF page.running = c THEN Nobody ELSE page.running
<1> DEFINE b == IF page.busy = c THEN Nobody ELSE page.busy
           f == IF page.call[c].mode = "manual" /\ page.busy = c THEN ~ok ELSE page.failed
           p == [page EXCEPT !.call = [page.call EXCEPT ![c] = IdleCall], !.busy = b, !.failed = f]
<1>1. Freed(c, ok) = Clear(p, c, ok) BY DEF Freed, Pages
<1>2. b \in Calls \cup {Nobody} /\ f \in BOOLEAN BY DEF Pages
<1> HIDE DEF b, f
<1>3. [page.call EXCEPT ![c] = IdleCall] \in [Calls -> CallType] BY IdleType DEF Pages
<1>4. p \in Pages /\ p.call = [page.call EXCEPT ![c] = IdleCall] /\ p.running = page.running
  BY <1>2, <1>3 DEF Pages
<1> HIDE DEF p
<1>5. CASE p.running = c
  <2>1. Clear(p, c, ok) = [p EXCEPT !.running = Nobody] BY <1>5 DEF Clear
  <2> QED BY <1>1, <1>4, <1>5, <2>1 DEF Pages
<1>6. CASE p.running # c
  <2>1. Clear(p, c, ok) = p BY <1>6 DEF Clear
  <2> QED BY <1>1, <1>4, <1>6, <2>1
<1> QED BY <1>5, <1>6

LEMMA PassedHolds ==
  ASSUME page \in Pages, ChainHolds(page), NEW c \in Calls, NEW ok \in BOOLEAN,
         page.call[c].pc # "chained"
  PROVE  /\ Passed(c, ok) \in Pages /\ ChainHolds(Passed(c, ok))
         /\ OthersAs(c, page, Passed(c, ok))
         /\ Passed(c, ok).call[c] = IdleCall
         /\ \A w \in Waiting(c, ok) : w # c /\ Passed(c, ok).call[w].pc = "wait"
<1> DEFINE q == Passed(c, ok)
           Next1(x) == IF x.pc = "chained" /\ x.after = c THEN [x EXCEPT !.pc = "begin"] ELSE x
<1>1. /\ Freed(c, ok) \in Pages
      /\ Freed(c, ok).call = [page.call EXCEPT ![c] = IdleCall]
      /\ Freed(c, ok).running = IF page.running = c THEN Nobody ELSE page.running
  BY FreedHolds
<1>2. q.call = [w \in Calls |-> Next1(Freed(c, ok).call[w])] /\ q.running = Freed(c, ok).running
      /\ q.busy = Freed(c, ok).busy /\ q.failed = Freed(c, ok).failed
      /\ q = [Freed(c, ok) EXCEPT !.call = q.call]
  BY <1>1 DEF Passed, Pages
<1>3. \A x \in CallType : Next1(x) \in CallType /\ Next1(x).uri = x.uri /\ Next1(x).after = x.after
                          /\ Next1(x).pc = IF x.pc = "chained" /\ x.after = c THEN "begin" ELSE x.pc
  BY DEF CallType, ActivePcs
<1>4. IdleCall.pc = "idle" BY DEF IdleCall
<1>5. q.call[c] = IdleCall
  <2>1. Freed(c, ok).call[c] = IdleCall BY <1>1 DEF Pages
  <2>2. Next1(IdleCall) = IdleCall BY <1>4
  <2> HIDE DEF Next1
  <2> QED BY <1>2, <2>1, <2>2
<1>6. \A d \in Calls \ {c} :
        /\ q.call[d].uri = page.call[d].uri /\ q.call[d].after = page.call[d].after
        /\ q.call[d].pc = IF page.call[d].pc = "chained" /\ page.call[d].after = c
                          THEN "begin" ELSE page.call[d].pc
  <2> TAKE d \in Calls \ {c}
  <2>1. Freed(c, ok).call[d] = page.call[d] /\ page.call[d] \in CallType BY <1>1 DEF Pages
  <2> HIDE DEF Next1
  <2>2. q.call[d] = Next1(page.call[d]) BY <1>2, <2>1
  <2> QED BY <1>3, <2>1, <2>2
<1>7. q \in Pages
  <2>1. q.call \in [Calls -> CallType] BY <1>1, <1>2, <1>3 DEF Pages
  <2> HIDE DEF Next1, q
  <2> QED BY <1>1, <1>2, <2>1 DEF Pages
<1> HIDE DEF Next1, q
<1>8. ChainHolds(q)
  <2>1. PICK rank : Ranked(page, rank) BY DEF ChainHolds
  <2>2. rank \in [Calls -> Nat] /\ rank[c] <= 1
    <3>1. rank \in [Calls -> Nat] BY <2>1 DEF Ranked
    <3>2. ~(rank[c] > 1) BY <2>1 DEF Ranked
    <3> QED BY <3>1, <3>2
  <2>3. CASE rank[c] = 0
    <3>1. page.running # c BY <2>1, <2>3, NobodyCalls DEF Ranked
    <3>2. q.running = page.running BY <1>1, <1>2, <3>1
    <3>3. \A d \in Calls \ {c} : q.call[d].pc = page.call[d].pc
      <4> TAKE d \in Calls \ {c}
      <4>1. page.call[d].pc = "chained" => page.call[d].after # c
        <5>1. page.call[d].pc = "chained" => rank[d] > 1 /\ rank[page.call[d].after] = rank[d] - 1
          BY <2>1 DEF Ranked
        <5> QED BY <2>2, <2>3, <5>1
      <4> QED BY <1>6, <4>1
    <3>4. page.call[c].pc \notin ActivePcs \cup {"chained"}
      BY <2>1, <2>3 DEF Ranked
    <3>5. \A d \in Calls : SamePlace(page.call[d], q.call[d])
      BY <1>4, <1>5, <1>6, <3>3, <3>4 DEF SamePlace, ActivePcs
    <3> QED BY <3>2, <3>5, PlaceKept
  <2>4. CASE rank[c] = 1
    <3> DEFINE r == [d \in Calls |-> IF rank[d] = 0 THEN 0 ELSE rank[d] - 1]
    <3>1. \A d \in Calls \ {c} : rank[d] # 1 BY <2>1, <2>4 DEF Ranked
    <3>2. r \in [Calls -> Nat] /\ r[c] = 0 /\ \A d \in Calls : rank[d] > 1 => r[d] = rank[d] - 1
      BY <2>2, <2>4
    <3>3. \A d \in Calls \ {c} : (r[d] = 0 <=> rank[d] = 0) /\ (r[d] # 0 => rank[d] = r[d] + 1 /\ rank[d] > 1)
      BY <2>2, <3>1
    <3> HIDE DEF r
    <3>4. \A d \in Calls \ {c} : rank[d] > 1 =>
            /\ page.call[d].pc = "chained" /\ page.call[d].after \in Calls
            /\ rank[page.call[d].after] = rank[d] - 1
            /\ page.call[d].after = c <=> rank[d] = 2
      <4> TAKE d \in Calls \ {c}
      <4> HAVE rank[d] > 1
      <4>1. /\ page.call[d].pc = "chained" /\ page.call[d].after \in Calls
            /\ rank[page.call[d].after] = rank[d] - 1
        BY <2>1 DEF Ranked
      <4>2. rank[page.call[d].after] = 1 => page.call[d].after = c BY <3>1, <4>1
      <4> QED BY <2>2, <2>4, <4>1, <4>2
    <3>5. \A d \in Calls \ {c} : rank[d] = 0 => page.call[d].pc \notin ActivePcs \cup {"chained"}
      BY <2>1 DEF Ranked
    <3>6. \A d \in Calls : /\ r[d] = 1 <=> q.call[d].pc \in ActivePcs
                           /\ r[d] > 1 <=> q.call[d].pc = "chained"
      <4>1. /\ r[c] = 1 <=> q.call[c].pc \in ActivePcs
            /\ r[c] > 1 <=> q.call[c].pc = "chained"
        BY <1>4, <1>5, <3>2 DEF ActivePcs
      <4>2. ASSUME NEW d \in Calls \ {c}
            PROVE  /\ r[d] = 1 <=> q.call[d].pc \in ActivePcs
                   /\ r[d] > 1 <=> q.call[d].pc = "chained"
        <5>1. CASE rank[d] = 0
          BY <1>6, <3>3, <3>5, <5>1 DEF ActivePcs
        <5>2. CASE rank[d] = 2
          <6>1. q.call[d].pc = "begin" /\ r[d] = 1 BY <1>6, <3>2, <3>4, <5>2
          <6> QED BY <6>1 DEF ActivePcs
        <5>3. CASE rank[d] > 2
          <6>1. q.call[d].pc = "chained" /\ r[d] > 1 BY <1>6, <2>2, <3>2, <3>4, <5>3
          <6> QED BY <2>2, <3>2, <6>1 DEF ActivePcs
        <5> QED BY <2>2, <3>1, <5>1, <5>2, <5>3
      <4> QED BY <4>1, <4>2
    <3>7. \A d, e \in Calls : r[d] = r[e] /\ r[d] # 0 => d = e
      <4>1. \A d, e \in Calls : rank[d] = rank[e] /\ rank[d] # 0 => d = e BY <2>1 DEF Ranked
      <4> QED BY <3>2, <3>3, <4>1
    <3>8. \A d \in Calls : r[d] > 1 => q.call[d].after \in Calls /\ r[q.call[d].after] = r[d] - 1
      <4> TAKE d \in Calls
      <4> HAVE r[d] > 1
      <4>1. d # c /\ rank[d] = r[d] + 1 /\ rank[d] > 2 BY <2>2, <3>2, <3>3
      <4>2. /\ page.call[d].after \in Calls /\ page.call[d].after # c
            /\ rank[page.call[d].after] = rank[d] - 1
        BY <2>2, <3>4, <4>1
      <4>3. q.call[d].after = page.call[d].after BY <1>6, <4>1
      <4> QED BY <2>2, <3>2, <4>1, <4>2, <4>3
    <3>9. CASE page.running = c
      <4>1. q.running = Nobody BY <1>1, <1>2, <3>9
      <4>2. \A d \in Calls : rank[d] <= 1 BY <2>1, <2>4, <3>9, NobodyCalls DEF Ranked
      <4>3. \A d \in Calls : r[d] = 0 BY <2>2, <3>2, <3>3, <4>2
      <4> QED BY <3>2, <3>6, <3>7, <3>8, <4>1, <4>3 DEF Ranked, ChainHolds
    <3>10. CASE page.running # c
      <4>1. q.running = page.running BY <1>1, <1>2, <3>10
      <4>2. page.running # Nobody /\ page.running \in Calls BY <2>1, <2>4 DEF Ranked, Pages
      <4>3. rank[page.running] # 0 /\ \A d \in Calls : rank[d] <= rank[page.running]
        BY <2>1, <4>2 DEF Ranked
      <4>4. r[page.running] # 0 /\ rank[page.running] = r[page.running] + 1
        BY <3>3, <3>10, <4>2, <4>3
      <4>5. \A d \in Calls : r[d] <= r[page.running]
        BY <2>2, <3>2, <3>3, <4>2, <4>3, <4>4
      <4> QED BY <3>2, <3>6, <3>7, <3>8, <4>1, <4>2, <4>4, <4>5 DEF Ranked, ChainHolds
    <3> QED BY <3>9, <3>10
  <2> QED BY <2>2, <2>3, <2>4
<1>9. OthersAs(c, page, q) BY <1>6 DEF OthersAs
<1>10. \A w \in Waiting(c, ok) : w # c /\ q.call[w].pc = "wait"
  <2> TAKE w \in Waiting(c, ok)
  <2>1. w \in Calls /\ Freed(c, ok).call[w].pc = "wait" BY DEF Waiting
  <2>2. w # c BY <1>1, <1>4, <2>1 DEF Pages
  <2>3. page.call[w].pc = "wait" BY <1>1, <2>1, <2>2 DEF Pages
  <2> QED BY <1>6, <2>1, <2>2, <2>3
<1> QED BY <1>5, <1>7, <1>8, <1>9, <1>10 DEF q

\* Nobody takes the place of a call that ended but those who waited.
LEMMA EndsHolds ==
  ASSUME page \in Pages, ChainHolds(page), NEW c \in Calls, NEW ok \in BOOLEAN,
         page.call[c].pc # "chained", Ends(c, ok)
  PROVE  /\ page' \in Pages /\ ChainHolds(page')
         /\ OthersAs(c, page, page') /\ page'.call[c].pc = "idle"
<1> DEFINE n == Passed(c, ok)
<1>1. /\ n \in Pages /\ ChainHolds(n) /\ OthersAs(c, page, n) /\ n.call[c] = IdleCall
      /\ \A w \in Waiting(c, ok) : w # c /\ n.call[w].pc = "wait"
  BY PassedHolds
<1>2. page' = n \/ \E first \in Waiting(c, ok) : page' = Retried(c, ok, first)
  <2>1. CASE Waiting(c, ok) = {} BY <2>1 DEF Ends, Waiting, Passed, Freed
  <2>2. CASE Waiting(c, ok) # {} BY <2>2 DEF Ends, Waiting, Retried, Passed, Freed
  <2> QED BY <2>1, <2>2
<1> HIDE DEF n
<1>3. CASE page' = n BY <1>1, <1>3 DEF IdleCall
<1>4. ASSUME NEW first \in Waiting(c, ok), page' = Retried(c, ok, first)
      PROVE  /\ page' \in Pages /\ ChainHolds(page')
             /\ OthersAs(c, page, page') /\ page'.call[c].pc = "idle"
  <2> DEFINE q == Manual(n, first)
             Next1(w) == IF w \in Waiting(c, ok) \ {first}
                         THEN [q.call[w] EXCEPT !.after = q.running] ELSE q.call[w]
  <2>1. first \in Calls /\ first # c /\ n.call[first].pc = "wait" BY <1>1, <1>4 DEF Waiting
  <2>2. /\ q \in Pages /\ ChainHolds(q) /\ q.running \in Calls
        /\ \A d \in Calls \ {first} : q.call[d] = n.call[d]
        /\ q.call[first].pc \in {"begin", "chained", "wait"}
        /\ q.call[first].uri = n.call[first].uri
    <3>1. n.call[first].pc \notin ActivePcs \cup {"chained"} BY <2>1 DEF ActivePcs
    <3> QED BY <1>1, <2>1, <3>1, ManualHolds
  <2>3. page' = [q EXCEPT !.call = [w \in Calls |-> Next1(w)]]
    BY <1>4, <2>2 DEF Retried, n, Pages
  <2> HIDE DEF q
  <2>4. \A w \in Calls : /\ Next1(w) \in CallType /\ Next1(w).pc = q.call[w].pc
                         /\ Next1(w).uri = q.call[w].uri
                         /\ w \notin Waiting(c, ok) => Next1(w).after = q.call[w].after
    <3> TAKE w \in Calls
    <3>1. q.call[w] \in CallType BY <2>2 DEF Pages
    <3> QED BY <2>2, <3>1 DEF CallType
  <2> HIDE DEF Next1
  <2>5. page' \in Pages /\ page'.running = q.running /\ \A w \in Calls : page'.call[w] = Next1(w)
    <3>1. [w \in Calls |-> Next1(w)] \in [Calls -> CallType] BY <2>4
    <3> QED BY <2>2, <2>3, <3>1 DEF Pages
  <2>6. ChainHolds(page')
    <3>1. \A w \in Calls : SamePlace(q.call[w], page'.call[w])
      <4> TAKE w \in Calls
      <4>1. w \in Waiting(c, ok) /\ w # first => q.call[w].pc = "wait" BY <1>1, <2>2
      <4>2. w = first \/ w \notin Waiting(c, ok) => page'.call[w] = q.call[w]
        BY <2>5 DEF Next1
      <4> QED BY <2>4, <2>5, <4>1, <4>2 DEF SamePlace
    <3> QED BY <2>2, <2>5, <3>1, PlaceKept
  <2>7. OthersAs(c, page, page')
    <3> SUFFICES ASSUME NEW d \in Calls \ {c}
        PROVE /\ page'.call[d].uri = page.call[d].uri
              /\ \/ page'.call[d].pc = page.call[d].pc
                 \/ /\ page.call[d].pc \in {"wait", "chained"}
                    /\ page'.call[d].pc \in {"wait", "chained", "begin"}
      BY DEF OthersAs
    <3>1. /\ n.call[d].uri = page.call[d].uri
          /\ \/ n.call[d].pc = page.call[d].pc
             \/ page.call[d].pc \in {"wait", "chained"} /\ n.call[d].pc \in {"wait", "chained", "begin"}
      BY <1>1 DEF OthersAs
    <3>2. page'.call[d].uri = q.call[d].uri /\ page'.call[d].pc = q.call[d].pc BY <2>4, <2>5
    <3>3. CASE d = first
      <4>1. page.call[d].pc \in {"wait", "chained"} BY <2>1, <3>1, <3>3
      <4> QED BY <2>2, <3>1, <3>2, <3>3, <4>1
    <3>4. CASE d # first BY <2>2, <3>1, <3>2, <3>4
    <3> QED BY <3>3, <3>4
  <2>8. page'.call[c].pc = "idle"
    <3>1. q.call[c] = IdleCall BY <1>1, <2>1, <2>2
    <3> QED BY <2>4, <2>5, <3>1 DEF IdleCall
  <2> QED BY <2>5, <2>6, <2>7, <2>8
<1> QED BY <1>2, <1>3, <1>4

-----------------------------------------------------------------------------
(* The invariant: the page's part looks at its calls and at the native     *)
(* calls they wait for; the other part ties the baseline to the provider.  *)

\* The step a native call answers, and the steps that wait for one.
Matches(pc, kind) ==
  \/ kind = "stage" /\ pc \in {"stage", "restage", "probe"}
  \/ kind = "info" /\ pc = "info"
  \/ kind = "commit" /\ pc = "commit"

Heard == {"stage", "restage", "probe", "info", "commit"}

PageHolds(p, js) ==
  /\ p \in Pages /\ js \subseteq Jobs /\ ChainHolds(p)
  /\ \A j \in js : j.call # Nobody => Matches(p.call[j.call].pc, j.kind)
  /\ \A j, k \in js : j.call = k.call /\ j.call # Nobody => j = k
  /\ \A c \in Calls : p.call[c].pc \notin Early => p.call[c].uri \in Docs

WrittenHeld == \A c \in Calls : At(c) = "written" => app.outgoing \in provider.received \cup {Gone}

IInv ==
  /\ PageHolds(page, jobs) /\ app \in Apps /\ provider \in Providers
  /\ WrittenHeld /\ BaselineHeld

\* A step of call c, which leaves the others where they wait.
Moved(c) ==
  /\ page' \in Pages /\ ChainHolds(page') /\ OthersAs(c, page, page')
  /\ jobs' \subseteq Jobs
  /\ \A j \in jobs' : j.call # Nobody /\ j.call # c => j \in jobs
  /\ \A j, k \in jobs' : j.call = c /\ k.call = c => Matches(page'.call[c].pc, j.kind) /\ j = k
  /\ page'.call[c].pc \notin Early => page'.call[c].uri \in Docs

LEMMA NoJob ==
  ASSUME PageHolds(page, jobs), NEW c \in Calls, At(c) \notin Heard
  PROVE  \A j \in jobs : j.call # c
<1> SUFFICES ASSUME NEW j \in jobs, j.call = c PROVE FALSE OBVIOUS
<1>1. j.call # Nobody BY NobodyCalls
<1> QED BY <1>1 DEF PageHolds, Matches, Heard, At

LEMMA MovedHolds ==
  ASSUME PageHolds(page, jobs), NEW c \in Calls, Moved(c)
  PROVE  PageHolds(page', jobs')
<1>1. c # Nobody BY NobodyCalls
<1>2. ASSUME NEW j \in jobs', j.call # Nobody PROVE Matches(page'.call[j.call].pc, j.kind)
  <2>1. CASE j.call = c BY <2>1 DEF Moved
  <2>2. CASE j.call # c
    <3>1. j \in jobs /\ j.call \in Calls BY <1>2, <2>2 DEF Moved, PageHolds, Jobs
    <3>2. Matches(page.call[j.call].pc, j.kind) BY <1>2, <3>1 DEF PageHolds
    <3>3. page'.call[j.call].pc = page.call[j.call].pc
      BY <2>2, <3>1, <3>2 DEF Moved, OthersAs, Matches
    <3> QED BY <3>2, <3>3
  <2> QED BY <2>1, <2>2
<1>3. ASSUME NEW j \in jobs', NEW k \in jobs', j.call = k.call, j.call # Nobody PROVE j = k
  <2>1. CASE j.call = c BY <1>3, <2>1 DEF Moved
  <2>2. CASE j.call # c BY <1>3, <2>2 DEF Moved, PageHolds
  <2> QED BY <2>1, <2>2
<1>4. ASSUME NEW d \in Calls, page'.call[d].pc \notin Early PROVE page'.call[d].uri \in Docs
  <2>1. CASE d = c BY <1>4, <2>1 DEF Moved
  <2>2. CASE d # c
    <3>1. page'.call[d].uri = page.call[d].uri /\ page'.call[d].pc = page.call[d].pc
      BY <1>4, <2>2 DEF Moved, OthersAs, Early
    <3> QED BY <1>4, <3>1 DEF PageHolds
  <2> QED BY <2>1, <2>2
<1> QED BY <1>2, <1>3, <1>4 DEF PageHolds, Moved

\* Call c waits for no native call, and no other call waits for a new one.
Quiet(c) ==
  /\ jobs' \subseteq Jobs
  /\ \A j \in jobs' : j.call # c /\ (j.call # Nobody => j \in jobs)

LEMMA EndsMoves ==
  ASSUME PageHolds(page, jobs), NEW c \in Calls, NEW ok \in BOOLEAN, At(c) # "chained",
         Ends(c, ok), Quiet(c)
  PROVE  Moved(c) /\ page'.call[c].pc = "idle"
<1>1. /\ page' \in Pages /\ ChainHolds(page')
      /\ OthersAs(c, page, page') /\ page'.call[c].pc = "idle"
  BY EndsHolds DEF PageHolds, At
<1> QED BY <1>1 DEF Moved, Early, Quiet

\* A call goes on to x: the calls behind it see no difference.
LEMMA CallMoves ==
  ASSUME PageHolds(page, jobs), NEW c \in Calls, NEW x \in CallType,
         SamePlace(page.call[c], x), x.pc \notin Early => x.uri \in Docs,
         page' = [page EXCEPT !.call = [page.call EXCEPT ![c] = x]],
         jobs' \subseteq Jobs,
         \A j \in jobs' : j.call # Nobody /\ j.call # c => j \in jobs,
         \A j, k \in jobs' : j.call = c /\ k.call = c => Matches(x.pc, j.kind) /\ j = k
  PROVE  Moved(c) /\ page'.call[c] = x
<1>1. /\ page' \in Pages /\ page'.running = page.running /\ page'.call[c] = x
      /\ \A d \in Calls \ {c} : page'.call[d] = page.call[d]
  BY CallChange DEF PageHolds
<1>2. \A d \in Calls : SamePlace(page.call[d], page'.call[d]) BY <1>1 DEF SamePlace
<1>3. ChainHolds(page') BY <1>1, <1>2, PlaceKept DEF PageHolds
<1> QED BY <1>1, <1>3 DEF Moved, OthersAs

LEMMA AsksMoves ==
  ASSUME PageHolds(page, jobs), NEW c \in Calls, At(c) \in ActivePcs \ Heard,
         NEW kind \in {"stage", "info", "commit"}, NEW uri \in Docs, NEW pc \in ActivePcs,
         Matches(pc, kind), Asks(c, kind, uri, pc)
  PROVE  Moved(c) /\ page'.call[c].pc = pc
<1> DEFINE x == [page.call[c] EXCEPT !.pc = pc, !.uri = uri]
           j1 == [call |-> c, kind |-> kind, uri |-> uri]
<1>1. page.call[c] \in CallType BY DEF PageHolds, Pages
<1>2. x \in CallType /\ x.pc = pc /\ x.uri = uri BY <1>1 DEF CallType
<1>3. page' = [page EXCEPT !.call = [page.call EXCEPT ![c] = x]]
  BY <1>1 DEF Asks, CallType, PageHolds, Pages
<1>4. jobs' = jobs \cup {j1} /\ j1 \in Jobs BY DEF Asks, Jobs
<1>5. j1.call = c /\ j1.kind = kind OBVIOUS
<1> HIDE DEF x, j1
<1>6. \A j \in jobs : j.call # c BY NoJob
<1>7. SamePlace(page.call[c], x) BY <1>2 DEF SamePlace, At, ActivePcs
<1>8. \A j \in jobs' : j.call = c => j = j1 BY <1>4, <1>6
<1>9. \A j \in jobs' : j.call # c => j \in jobs BY <1>4, <1>5
<1>10. jobs' \subseteq Jobs BY <1>4 DEF PageHolds
<1> QED BY <1>2, <1>3, <1>5, <1>7, <1>8, <1>9, <1>10, CallMoves

LEMMA QueueMoves ==
  ASSUME PageHolds(page, jobs), NEW c \in Calls, NEW x \in CallType, NEW p \in Pages,
         At(c) \notin ActivePcs \cup Heard \cup {"chained"}, x.pc \notin ActivePcs \cup {"chained"},
         p.running = page.running, p.call = [page.call EXCEPT ![c] = x],
         page' = Queue(p, c) \/ page' = Manual(p, c), jobs' = jobs
  PROVE  Moved(c) /\ page'.call[c].pc \in {"begin", "chained", "wait"}
<1>1. p.call[c] = x /\ \A d \in Calls \ {c} : p.call[d] = page.call[d] BY DEF PageHolds, Pages
<1>2. ChainHolds(p)
  <2>1. \A d \in Calls : SamePlace(page.call[d], p.call[d]) BY <1>1 DEF SamePlace, At
  <2> QED BY <2>1, PlaceKept DEF PageHolds
<1>3. /\ page' \in Pages /\ ChainHolds(page')
      /\ \A d \in Calls \ {c} : page'.call[d] = p.call[d]
      /\ page'.call[c].pc \in {"begin", "chained", "wait"}
  <2>1. p.call[c].pc \notin ActivePcs \cup {"chained"} BY <1>1
  <2>2. CASE page' = Queue(p, c)
    <3>1. /\ Queue(p, c) \in Pages /\ ChainHolds(Queue(p, c))
          /\ \A d \in Calls \ {c} : Queue(p, c).call[d] = p.call[d]
          /\ Queue(p, c).call[c].pc \in {"begin", "chained"}
      BY <1>2, <2>1, QueueHolds
    <3> QED BY <2>2, <3>1
  <2>3. CASE page' = Manual(p, c)
    <3>1. /\ Manual(p, c) \in Pages /\ ChainHolds(Manual(p, c))
          /\ \A d \in Calls \ {c} : Manual(p, c).call[d] = p.call[d]
          /\ Manual(p, c).call[c].pc \in {"begin", "chained", "wait"}
      BY <1>2, <2>1, ManualHolds
    <3> QED BY <2>3, <3>1
  <2> QED BY <2>2, <2>3
<1>4. \A j \in jobs : j.call # c BY NoJob
<1>5. OthersAs(c, page, page') BY <1>1, <1>3 DEF OthersAs
<1>6. page'.call[c].pc \notin Early => page'.call[c].uri \in Docs BY <1>3 DEF Early
<1> QED BY <1>3, <1>4, <1>5, <1>6 DEF Moved, PageHolds

\* What a native call answers.
LEMMA AnswerMoves ==
  ASSUME PageHolds(page, jobs), NEW j \in jobs, j.call # Nobody, Quiet(j.call),
         NEW ok \in BOOLEAN, NEW stamp \in Nat, NEW a,
         \/ j.kind = "stage" /\ StageAnswered(j.call, ok, stamp, a)
         \/ j.kind = "info" /\ InfoAnswered(j.call, ok, stamp, a)
         \/ j.kind = "commit" /\ CommitAnswered(j.call, ok, a)
  PROVE  /\ j.call \in Calls /\ Moved(j.call)
         /\ app' \in {a, Troubled(a)}
         /\ page'.call[j.call].pc = "written" => j.kind = "commit" /\ ok /\ app' = a
<1> DEFINE c == j.call
<1>1. c \in Calls /\ Matches(At(c), j.kind) BY DEF PageHolds, Jobs, At
<1>2. At(c) \in Heard /\ At(c) # "chained" BY <1>1 DEF Matches, Heard
<1>3. page.call[c] \in CallType /\ page.call[c].uri \in Docs /\ At(c) \notin Early
  BY <1>1, <1>2 DEF PageHolds, Pages, Heard, Early, At
<1>4. Ends(c, ok) => Moved(c) /\ page'.call[c].pc = "idle" BY <1>1, <1>2, EndsMoves
<1>5. Ends(c, FALSE) => Moved(c) /\ page'.call[c].pc = "idle" BY <1>1, <1>2, EndsMoves
<1>6. Ends(c, TRUE) => Moved(c) /\ page'.call[c].pc = "idle" BY <1>1, <1>2, EndsMoves
<1>7. ASSUME NEW x \in CallType, SamePlace(page.call[c], x), x.uri = page.call[c].uri,
             page' = [page EXCEPT !.call = [page.call EXCEPT ![c] = x]]
      PROVE  Moved(c) /\ page'.call[c] = x
  <2>1. \A k, l \in jobs' : k.call = c /\ l.call = c => Matches(x.pc, k.kind) /\ k = l
    BY DEF Quiet
  <2>2. \A k \in jobs' : k.call # Nobody /\ k.call # c => k \in jobs BY DEF Quiet
  <2>3. jobs' \subseteq Jobs BY DEF Quiet
  <2>4. x.uri \in Docs BY <1>3, <1>7
  <2> HIDE DEF c
  <2> QED BY <1>1, <1>7, <2>1, <2>2, <2>3, <2>4, CallMoves
<1> HIDE DEF c
<1>8. ASSUME NEW pc \in {"unsettled", "written"}, page' = Goes(c, pc), At(c) \in {"info", "commit"}
      PROVE  Moved(c) /\ page'.call[c].pc = pc
  <2> DEFINE x == [page.call[c] EXCEPT !.pc = pc]
  <2>1. x \in CallType /\ x.pc = pc /\ x.uri = page.call[c].uri BY <1>3 DEF CallType, ActivePcs
  <2>2. page' = [page EXCEPT !.call = [page.call EXCEPT ![c] = x]]
    BY <1>8 DEF Goes, PageHolds, Pages
  <2> HIDE DEF x
  <2>3. SamePlace(page.call[c], x) BY <1>8, <2>1 DEF SamePlace, At, ActivePcs
  <2> QED BY <1>7, <2>1, <2>2, <2>3
<1>9. CASE j.kind = "stage" /\ StageAnswered(c, ok, stamp, a)
  <2>1. app' = a BY <1>9 DEF StageAnswered
  <2>2. CASE ~ok BY <1>5, <1>9, <2>1, <2>2, <1>1 DEF StageAnswered, c
  <2>3. CASE ok
    <3> DEFINE pc == CASE At(c) = "stage" /\ page.call[c].mode = "reload" -> "reload"
                       [] At(c) = "stage" -> "merge" [] At(c) = "restage" -> "again"
                       [] OTHER -> "picked"
               x == [page.call[c] EXCEPT !.stamp = stamp, !.pc = pc]
    <3>1. At(c) \in {"stage", "restage", "probe"} BY <1>1, <1>9 DEF Matches
    <3>2. /\ pc \in {"reload", "merge", "again", "picked"}
          /\ pc = "picked" <=> At(c) = "probe"
      BY <3>1
    <3>3. page' = [page EXCEPT !.call = [page.call EXCEPT ![c] = x]]
      <4>1. page' = [page EXCEPT !.call[c].stamp = stamp, !.call[c].pc = pc]
        BY <1>9, <2>3 DEF StageAnswered
      <4> HIDE DEF pc
      <4> QED BY <1>1, <1>3, <4>1 DEF PageHolds, Pages, CallType
    <3> HIDE DEF pc
    <3>4. x \in CallType /\ x.pc = pc /\ x.uri = page.call[c].uri
      BY <1>3, <3>2 DEF CallType, ActivePcs
    <3> HIDE DEF x
    <3>5. SamePlace(page.call[c], x) BY <3>1, <3>2, <3>4 DEF SamePlace, At, ActivePcs
    <3>6. Moved(c) /\ page'.call[c] = x BY <1>7, <3>3, <3>4, <3>5
    <3> QED BY <1>1, <2>1, <3>2, <3>4, <3>6 DEF c
  <2> QED BY <2>2, <2>3
<1>10. CASE j.kind = "info" /\ InfoAnswered(c, ok, stamp, a)
  <2>1. app' = a /\ At(c) = "info" BY <1>1, <1>10 DEF InfoAnswered, Matches
  <2>2. Ends(c, TRUE) \/ page' = Goes(c, "unsettled") BY <1>10 DEF InfoAnswered
  <2> QED BY <1>1, <1>6, <1>8, <2>1, <2>2 DEF c
<1>11. CASE j.kind = "commit" /\ CommitAnswered(c, ok, a)
  <2>1. At(c) = "commit" BY <1>1, <1>11 DEF Matches
  <2>2. CASE ok
    <3>1. page' = Goes(c, "written") /\ app' = a BY <1>11, <2>2 DEF CommitAnswered
    <3> QED BY <1>1, <1>8, <1>11, <2>1, <2>2, <3>1 DEF c
  <2>3. CASE ~ok
    <3>1. Ends(c, FALSE) /\ app' = Troubled(a) BY <1>11, <2>3 DEF CommitAnswered
    <3> QED BY <1>1, <1>5, <3>1 DEF c
  <2> QED BY <2>2, <2>3
<1> QED BY <1>9, <1>10, <1>11 DEF c

-----------------------------------------------------------------------------
(* The baseline.                                                           *)

\* A step that leaves the staged answer and the baseline alone, and takes nothing
\* back from the provider.
LEMMA BaselineKept ==
  ASSUME WrittenHeld, BaselineHeld, provider.received \subseteq provider'.received,
         app'.outgoing = app.outgoing, app'.status.hash = app.status.hash,
         \A d \in Calls : page'.call[d].pc = "written" => page.call[d].pc = "written"
  PROVE  WrittenHeld' /\ BaselineHeld'
BY DEF WrittenHeld, BaselineHeld, At

LEMMA OthersWritten ==
  ASSUME NEW c \in Calls, Moved(c), NEW d \in Calls \ {c}, page'.call[d].pc = "written"
  PROVE  page.call[d].pc = "written"
BY DEF Moved, OthersAs

LEMMA AppFields ==
  ASSUME NEW a \in Apps
  PROVE  /\ Troubled(a) \in Apps /\ Troubled(a).outgoing = a.outgoing
         /\ Troubled(a).status.hash = a.status.hash
<1>1. a.status \in StatusType BY DEF Apps
<1> DEFINE s == [a.status EXCEPT !.ran = TRUE, !.problem = TRUE]
<1>2. s \in StatusType /\ s.hash = a.status.hash BY <1>1 DEF StatusType
<1>3. Troubled(a) = [a EXCEPT !.status = s] BY <1>1 DEF Troubled, Apps, StatusType
<1> HIDE DEF s
<1> QED BY <1>2, <1>3 DEF Apps

-----------------------------------------------------------------------------
(* The steps.                                                              *)

\* A step of a call that leaves the staged answer, the baseline and the provider's
\* documents alone, or only adds to what the provider has received.
LEMMA CallStep ==
  ASSUME IInv, NEW c \in Calls, Moved(c), app' \in Apps, provider' \in Providers,
         provider.received \subseteq provider'.received,
         app'.outgoing = app.outgoing, app'.status.hash = app.status.hash,
         page'.call[c].pc # "written"
  PROVE  IInv'
<1>1. PageHolds(page', jobs') BY MovedHolds DEF IInv
<1>2. \A d \in Calls : page'.call[d].pc = "written" => page.call[d].pc = "written"
  BY OthersWritten
<1>3. WrittenHeld' /\ BaselineHeld' BY <1>2, BaselineKept DEF IInv
<1> QED BY <1>1, <1>3 DEF IInv

\* A step that leaves the page alone.
LEMMA QuietStep ==
  ASSUME IInv, PageHolds(page', jobs'), app' \in Apps, provider' \in Providers,
         page'.call = page.call, provider.received \subseteq provider'.received,
         app'.outgoing = app.outgoing, app'.status.hash = app.status.hash
  PROVE  IInv'
<1>1. WrittenHeld' /\ BaselineHeld' BY BaselineKept DEF IInv
<1> QED BY <1>1 DEF IInv

LEMMA QuietJobs ==
  ASSUME PageHolds(page, jobs), NEW c \in Calls, At(c) \notin Heard, jobs' = jobs
  PROVE  Quiet(c)
BY NoJob DEF Quiet, PageHolds

LEMMA BeginHolds == ASSUME IInv, NEW c \in Calls, Begin(c) PROVE IInv'
<1>1. /\ PageHolds(page, jobs) /\ app' = app /\ provider' = provider /\ app \in Apps
      /\ provider \in Providers
  BY DEF IInv, Begin
<1>2. At(c) = "begin" BY DEF Begin
<1>3. CASE app.folder = NoDoc /\ Ends(c, page.call[c].mode # "reload") /\ UNCHANGED jobs
  <2>1. Quiet(c) BY <1>1, <1>2, <1>3, QuietJobs DEF Heard
  <2> DEFINE ok == page.call[c].mode # "reload"
  <2>2. ok \in BOOLEAN /\ Ends(c, ok) BY <1>3
  <2> HIDE DEF ok
  <2>3. Moved(c) /\ page'.call[c].pc = "idle" BY <1>1, <1>2, <2>1, <2>2, EndsMoves
  <2> QED BY <1>1, <2>3, CallStep
<1>4. CASE app.folder # NoDoc /\ (\/ Asks(c, "info", app.folder, "info")
                                  \/ Asks(c, "stage", app.folder, "stage"))
  <2>1. app.folder \in Docs BY <1>1, <1>4 DEF Apps
  <2>2. At(c) \in ActivePcs \ Heard BY <1>2 DEF ActivePcs, Heard
  <2>3. {"info", "stage"} \subseteq ActivePcs /\ Matches("info", "info") /\ Matches("stage", "stage")
    BY DEF ActivePcs, Matches
  <2>4. Moved(c) /\ page'.call[c].pc # "written"
    <3>1. CASE Asks(c, "info", app.folder, "info")
      <4>1. Moved(c) /\ page'.call[c].pc = "info"
        BY <1>1, <2>1, <2>2, <2>3, <3>1, AsksMoves
      <4> QED BY <4>1
    <3>2. CASE Asks(c, "stage", app.folder, "stage")
      <4>1. Moved(c) /\ page'.call[c].pc = "stage"
        BY <1>1, <2>1, <2>2, <2>3, <3>2, AsksMoves
      <4> QED BY <4>1
    <3> QED BY <1>4, <3>1, <3>2
  <2> QED BY <1>1, <2>4, CallStep
<1> QED BY <1>3, <1>4 DEF Begin

LEMMA MergeHolds == ASSUME IInv, NEW c \in Calls, Merge(c) PROVE IInv'
<1> DEFINE call == page.call[c]
           data == app.incoming
           fresh == Fresh(data, call.stamp, call.mode = "manual" \/ call.force \/ call.pc = "again")
           merged == Read(data) \cup app.library
           read == [app EXCEPT
                      !.library = merged,
                      !.status = [@ EXCEPT !.ran = TRUE, !.uri = app.folder, !.aged = FALSE,
                                           !.readStamp = call.stamp, !.problem = FALSE,
                                           !.stale = ~fresh /\ merged # data],
                      !.dirty = @ /\ merged # data]
<1>1. /\ PageHolds(page, jobs) /\ provider' = provider /\ app \in Apps
      /\ provider \in Providers
  BY DEF IInv, Merge
<1>2. At(c) \in {"merge", "again"} BY DEF Merge
<1>3. /\ call \in CallType /\ call.uri \in Docs
      /\ At(c) \in ActivePcs \ Heard /\ At(c) # "chained"
  BY <1>1, <1>2 DEF PageHolds, Pages, Early, At, ActivePcs, Heard
<1>4. \/ data = Gone /\ app' = Troubled(app) /\ Ends(c, FALSE) /\ UNCHANGED jobs
      \/ data # Gone /\ app' = [read EXCEPT !.outgoing = merged] /\ Asks(c, "commit", call.uri, "commit")
      \/ /\ data # Gone /\ app' = [read EXCEPT !.incoming = Gone]
         /\ Asks(c, "stage", call.uri, "restage") \/ (Ends(c, TRUE) /\ UNCHANGED jobs)
  <2>1. IF data = Gone THEN app' = Troubled(app) /\ Ends(c, FALSE) /\ UNCHANGED jobs
        ELSE IF fresh /\ merged # data
        THEN app' = [read EXCEPT !.outgoing = merged] /\ Asks(c, "commit", call.uri, "commit")
        ELSE /\ app' = [read EXCEPT !.incoming = Gone]
             /\ IF read.status.stale THEN Asks(c, "stage", call.uri, "restage")
                ELSE Ends(c, TRUE) /\ UNCHANGED jobs
    BY DEF Merge
  <2> HIDE DEF data, merged, fresh, read, call
  <2> QED BY <2>1
<1>5. jobs' = jobs => Quiet(c) BY <1>1, <1>3, QuietJobs
<1>6. CASE data = Gone /\ app' = Troubled(app) /\ Ends(c, FALSE) /\ UNCHANGED jobs
  <2>1. Moved(c) /\ page'.call[c].pc = "idle" BY <1>1, <1>3, <1>5, <1>6, EndsMoves
  <2> QED BY <1>1, <1>6, <2>1, AppFields, CallStep
<1>7. data # Gone => /\ read \in Apps /\ read.outgoing = app.outgoing
                     /\ read.status.hash = app.status.hash
                     /\ merged \in SUBSET Records
  <2> HAVE data # Gone
  <2> DEFINE stale == ~fresh /\ merged # data
             dirty == app.dirty /\ merged # data
             s == [app.status EXCEPT !.ran = TRUE, !.uri = app.folder, !.aged = FALSE,
                                     !.readStamp = call.stamp, !.problem = FALSE, !.stale = stale]
  <2>1. merged \in SUBSET Records
    <3>1. data \in Documents /\ app.library \in SUBSET Records BY <1>1 DEF Apps, File
    <3>2. Read(data) \in SUBSET Records BY <3>1, ReadType
    <3> QED BY <3>1, <3>2
  <2>2. stale \in BOOLEAN /\ dirty \in BOOLEAN OBVIOUS
  <2>3. app.status \in StatusType /\ call.stamp \in Nat /\ app.folder \in Docs \cup {NoDoc}
    BY <1>1, <1>3 DEF Apps, CallType
  <2>4. read = [app EXCEPT !.library = merged, !.status = s, !.dirty = dirty]
    BY <1>1 DEF Apps
  <2> HIDE DEF merged, stale, dirty, call
  <2>5. s \in StatusType /\ s.hash = app.status.hash BY <2>2, <2>3 DEF StatusType
  <2> HIDE DEF s
  <2>6. [app EXCEPT !.library = merged, !.status = s, !.dirty = dirty] \in Apps
    BY <1>1, <2>1, <2>2, <2>5 DEF Apps
  <2>7. /\ [app EXCEPT !.library = merged, !.status = s, !.dirty = dirty].outgoing = app.outgoing
        /\ [app EXCEPT !.library = merged, !.status = s, !.dirty = dirty].status = s
    BY <1>1 DEF Apps
  <2> HIDE DEF read
  <2> QED BY <2>1, <2>4, <2>5, <2>6, <2>7
<1>8. Matches("commit", "commit") /\ Matches("restage", "stage") /\ {"commit", "restage"} \subseteq ActivePcs
  BY DEF Matches, ActivePcs
<1> HIDE DEF read, merged, data
<1>9. CASE data # Gone /\ app' = [read EXCEPT !.outgoing = merged] /\ Asks(c, "commit", call.uri, "commit")
  <2>1. Moved(c) /\ page'.call[c].pc = "commit" BY <1>1, <1>3, <1>8, <1>9, AsksMoves
  <2>2. app' \in Apps /\ app'.status.hash = app.status.hash BY <1>7, <1>9, ReadType DEF Apps
  <2>3. PageHolds(page', jobs') BY <1>1, <2>1, MovedHolds
  <2>4. \A d \in Calls : page'.call[d].pc # "written"
    <3> TAKE d \in Calls
    <3>1. CASE d = c BY <2>1, <3>1
    <3>2. CASE d # c
      <4>1. page.call[d].pc # "written"
        <5>1. page.call[c].pc \in ActivePcs /\ "written" \in ActivePcs BY <1>3 DEF At, ActivePcs
        <5> QED BY <1>1, <3>2, <5>1, OneActive DEF PageHolds
      <4> QED BY <2>1, <3>2, <4>1, OthersWritten
    <3> QED BY <3>1, <3>2
  <2>5. WrittenHeld' BY <2>4 DEF WrittenHeld, At
  <2>6. BaselineHeld' BY <1>1, <2>2 DEF IInv, BaselineHeld
  <2> QED BY <1>1, <2>2, <2>3, <2>5, <2>6 DEF IInv
<1>10. CASE /\ data # Gone /\ app' = [read EXCEPT !.incoming = Gone]
            /\ Asks(c, "stage", call.uri, "restage") \/ (Ends(c, TRUE) /\ UNCHANGED jobs)
  <2>3. app' \in Apps /\ app'.status.hash = app.status.hash /\ app'.outgoing = app.outgoing
    <3>1. Gone \in File BY DEF File
    <3>2. read \in Apps /\ app' = [read EXCEPT !.incoming = Gone] BY <1>7, <1>10
    <3>3. app' \in Apps /\ app'.status = read.status /\ app'.outgoing = read.outgoing
      BY <3>1, <3>2 DEF Apps
    <3> QED BY <1>7, <1>10, <3>3
  <2>4. Moved(c) /\ page'.call[c].pc # "written"
    <3>1. CASE Asks(c, "stage", call.uri, "restage")
      <4>1. Moved(c) /\ page'.call[c].pc = "restage" BY <1>1, <1>3, <1>8, <3>1, AsksMoves
      <4> QED BY <4>1
    <3>2. CASE Ends(c, TRUE) /\ UNCHANGED jobs
      <4>1. Moved(c) /\ page'.call[c].pc = "idle" BY <1>1, <1>3, <1>5, <3>2, EndsMoves
      <4> QED BY <4>1
    <3> QED BY <1>10, <3>1, <3>2
  <2> QED BY <1>1, <2>3, <2>4, CallStep
<1> QED BY <1>4, <1>6, <1>9, <1>10

LEMMA WrittenHolds == ASSUME IInv, NEW c \in Calls, Written(c) PROVE IInv'
<1>1. /\ PageHolds(page, jobs) /\ provider' = provider /\ app \in Apps
      /\ provider \in Providers /\ jobs' = jobs /\ At(c) = "written"
  BY DEF IInv, Written
<1>2. Quiet(c) /\ At(c) # "chained" BY <1>1, QuietJobs DEF Heard
<1>3. CASE app.outgoing = Gone
  <2>1. Ends(c, FALSE) /\ app' = app BY <1>3 DEF Written
  <2>2. Moved(c) /\ page'.call[c].pc = "idle" BY <1>1, <1>2, <2>1, EndsMoves
  <2> QED BY <1>1, <2>1, <2>2, CallStep
<1>4. CASE app.outgoing # Gone
  <2>1. Ends(c, TRUE) /\ app' = Confirmed(app) BY <1>4 DEF Written
  <2>2. Moved(c) /\ page'.call[c].pc = "idle" BY <1>1, <1>2, <2>1, EndsMoves
  <2>3. app.outgoing \in provider.received BY <1>1, <1>4 DEF IInv, WrittenHeld
  <2> DEFINE s == [app.status EXCEPT !.ran = TRUE, !.uri = app.folder, !.writeAt = provider.clock,
                                     !.hash = app.outgoing, !.stale = FALSE, !.problem = FALSE]
  <2>4. s \in StatusType /\ s.hash = app.outgoing
    <3>1. /\ app.status \in StatusType /\ provider.clock \in Nat /\ app.outgoing \in File
          /\ app.folder \in Docs \cup {NoDoc}
      BY <1>1 DEF Apps, Providers
    <3> QED BY <3>1 DEF StatusType
  <2>5. Confirmed(app) = [app EXCEPT !.outgoing = Gone, !.dirty = FALSE, !.status = s]
    BY <1>1 DEF Confirmed, Apps
  <2> HIDE DEF s
  <2>6. app' \in Apps /\ app'.status = s
    <3>1. Gone \in File BY DEF File
    <3> QED BY <1>1, <2>1, <2>4, <2>5, <3>1 DEF Apps
  <2>7. BaselineHeld' BY <1>1, <2>3, <2>4, <2>6 DEF BaselineHeld
  <2>8. \A d \in Calls : page'.call[d].pc # "written"
    <3> TAKE d \in Calls
    <3>1. CASE d = c BY <2>2, <3>1
    <3>2. CASE d # c
      <4>1. page.call[d].pc # "written"
        <5>1. page.call[c].pc = "written" /\ "written" \in ActivePcs BY <1>1 DEF At, ActivePcs
        <5> QED BY <1>1, <3>2, <5>1, OneActive DEF PageHolds
      <4> QED BY <2>2, <3>2, <4>1, OthersWritten
    <3> QED BY <3>1, <3>2
  <2>9. PageHolds(page', jobs') BY <1>1, <2>2, MovedHolds
  <2> QED BY <1>1, <2>6, <2>7, <2>8, <2>9 DEF IInv, WrittenHeld, At
<1> QED BY <1>3, <1>4

LEMMA ReloadHolds == ASSUME IInv, NEW c \in Calls, Reload(c) PROVE IInv'
<1>1. /\ PageHolds(page, jobs) /\ provider' = provider /\ app \in Apps
      /\ provider \in Providers /\ jobs' = jobs /\ At(c) = "reload"
  BY DEF IInv, Reload
<1>2. Quiet(c) /\ At(c) # "chained" BY <1>1, QuietJobs DEF Heard
<1>3. CASE app.incoming \in {Gone, Torn}
  <2>1. Ends(c, FALSE) /\ app' = Troubled(app) BY <1>3 DEF Reload
  <2>2. Moved(c) /\ page'.call[c].pc = "idle" BY <1>1, <1>2, <2>1, EndsMoves
  <2> QED BY <1>1, <2>1, <2>2, AppFields, CallStep
<1>4. CASE app.incoming \notin {Gone, Torn}
  <2> DEFINE library == app.library \cup app.incoming
  <2>1. /\ Ends(c, TRUE)
        /\ app' = [app EXCEPT !.library = library, !.incoming = Gone]
    BY <1>1, <1>4 DEF Reload, Apps
  <2>2. Moved(c) /\ page'.call[c].pc = "idle" BY <1>1, <1>2, <2>1, EndsMoves
  <2>3. library \in SUBSET Records /\ Gone \in File
    <3>1. app.incoming \in SUBSET Records /\ app.library \in SUBSET Records
      BY <1>1, <1>4 DEF Apps, File, Documents
    <3> QED BY <3>1 DEF File
  <2> HIDE DEF library
  <2>4. app' \in Apps /\ app'.status = app.status /\ app'.outgoing = app.outgoing
    BY <1>1, <2>1, <2>3 DEF Apps
  <2> QED BY <1>1, <2>2, <2>4, CallStep
<1> QED BY <1>3, <1>4

LEMMA UnsettledHolds == ASSUME IInv, NEW c \in Calls, Unsettled(c) PROVE IInv'
<1>1. /\ PageHolds(page, jobs) /\ provider' = provider /\ app' = app /\ app \in Apps
      /\ provider \in Providers /\ At(c) = "unsettled"
      /\ Asks(c, "stage", page.call[c].uri, "stage")
  BY DEF IInv, Unsettled
<1>2. page.call[c].uri \in Docs /\ At(c) \in ActivePcs \ Heard
  BY <1>1 DEF PageHolds, Early, At, ActivePcs, Heard
<1>3. "stage" \in ActivePcs /\ Matches("stage", "stage") BY DEF ActivePcs, Matches
<1>4. Moved(c) /\ page'.call[c].pc = "stage" BY <1>1, <1>2, <1>3, AsksMoves
<1> QED BY <1>1, <1>4, CallStep

LEMMA AdoptHolds == ASSUME IInv, NEW c \in Calls, Adopt(c) PROVE IInv'
<1>1. /\ PageHolds(page, jobs) /\ provider' = provider /\ app \in Apps /\ page \in Pages
      /\ provider \in Providers /\ At(c) = "picked" /\ jobs' = jobs
      /\ app' = [app EXCEPT !.folder = page.call[c].uri] /\ page' = Manual(page, c)
  BY DEF IInv, Adopt, PageHolds
<1>2. page.call[c].uri \in Docs BY <1>1 DEF PageHolds, Early, At
<1>3. app' \in Apps /\ app'.status = app.status /\ app'.outgoing = app.outgoing
  BY <1>1, <1>2 DEF Apps
<1>4. Moved(c) /\ page'.call[c].pc \in {"begin", "chained", "wait"}
  <2>1. page.call[c] \in CallType /\ page.call = [page.call EXCEPT ![c] = page.call[c]]
    BY <1>1 DEF Pages
  <2>2. page.call[c].pc \notin ActivePcs \cup {"chained"} /\ At(c) \notin ActivePcs \cup Heard \cup {"chained"}
    BY <1>1 DEF At, ActivePcs, Heard
  <2> QED BY <1>1, <2>1, <2>2, QueueMoves
<1> QED BY <1>1, <1>3, <1>4, CallStep

\* A call of the panel or of a signal takes a free place.
LEMMA StartHolds ==
  ASSUME IInv, NEW c \in Calls, NEW x \in CallType, NEW b \in Calls \cup {Nobody},
         c \in Free, x.pc = "idle", jobs' = jobs, app' = app, provider' = provider,
         LET p == [page EXCEPT !.busy = b, !.call[c] = x]
         IN  page' = Queue(p, c) \/ page' = Manual(p, c)
  PROVE  IInv'
<1> DEFINE p == [page EXCEPT !.busy = b, !.call[c] = x]
<1>1. PageHolds(page, jobs) /\ page \in Pages /\ At(c) = "idle" /\ app \in Apps /\ provider \in Providers
  BY DEF IInv, PageHolds, Free
<1>2. [page.call EXCEPT ![c] = x] \in [Calls -> CallType] BY <1>1 DEF Pages
<1>3. p \in Pages /\ p.running = page.running /\ p.call = [page.call EXCEPT ![c] = x]
  BY <1>1, <1>2 DEF Pages
<1>4. page' = Queue(p, c) \/ page' = Manual(p, c) OBVIOUS
<1> HIDE DEF p
<1>5. Moved(c) /\ page'.call[c].pc \in {"begin", "chained", "wait"}
  <2>1. x.pc \notin ActivePcs \cup {"chained"} /\ At(c) \notin ActivePcs \cup Heard \cup {"chained"}
    BY <1>1 DEF ActivePcs, Heard
  <2> QED BY <1>1, <1>3, <1>4, <2>1, QueueMoves
<1> QED BY <1>1, <1>5, CallStep

LEMMA SignalHolds == ASSUME IInv, NEW c \in Calls, Signal(c) PROVE IInv'
<1>1. page \in Pages /\ page' = Queue([page EXCEPT !.call[c] = IdleCall], c)
  BY DEF IInv, PageHolds, Signal
<1>2. [page EXCEPT !.call[c] = IdleCall] = [page EXCEPT !.busy = page.busy, !.call[c] = IdleCall]
  BY <1>1 DEF Pages
<1>3. page.busy \in Calls \cup {Nobody} /\ IdleCall.pc = "idle" BY <1>1 DEF Pages, IdleCall
<1> QED BY <1>1, <1>2, <1>3, IdleType, StartHolds DEF Signal

LEMMA SaveHolds == ASSUME IInv, NEW c \in Calls, NEW force \in BOOLEAN, Save(c, force) PROVE IInv'
<1> DEFINE x == [IdleCall EXCEPT !.mode = "manual", !.force = force]
<1>1. x \in CallType /\ x.pc = "idle" BY DEF IdleCall, CallType
<1>2. c \in Free /\ page' = Manual([page EXCEPT !.busy = c, !.call[c] = x], c)
  BY DEF Save, Ready
<1> HIDE DEF x
<1> QED BY <1>1, <1>2, StartHolds DEF Save

LEMMA ReloadPressHolds == ASSUME IInv, NEW c \in Calls, ReloadPress(c) PROVE IInv'
<1> DEFINE x == [IdleCall EXCEPT !.mode = "reload"]
<1>1. x \in CallType /\ x.pc = "idle" BY DEF IdleCall, CallType
<1>2. c \in Free /\ page' = Queue([page EXCEPT !.busy = c, !.call[c] = x], c)
  BY DEF ReloadPress, Ready
<1> HIDE DEF x
<1> QED BY <1>1, <1>2, StartHolds DEF ReloadPress

\* A pick opens the panel's own call outside the queue.
LEMMA PanelMoves ==
  ASSUME PageHolds(page, jobs), NEW c \in Free, NEW x \in CallType,
         x.pc \in {"probe", "picked"}, x.uri \in Docs,
         page' = [page EXCEPT !.busy = c, !.call[c] = x],
         jobs' = jobs \/ (x.pc = "probe" /\ jobs' = jobs \cup {[call |-> c, kind |-> "stage", uri |-> x.uri]})
  PROVE  Moved(c) /\ page'.call[c].pc # "written"
<1> DEFINE j1 == [call |-> c, kind |-> "stage", uri |-> x.uri]
<1>1. c \in Calls /\ At(c) = "idle" /\ page \in Pages BY DEF Free, PageHolds
<1>2. [page.call EXCEPT ![c] = x] \in [Calls -> CallType] BY <1>1 DEF Pages
<1>3. page' \in Pages /\ page'.running = page.running /\ page'.call = [page.call EXCEPT ![c] = x]
  BY <1>1, <1>2 DEF Pages
<1>4. page'.call[c] = x /\ \A d \in Calls \ {c} : page'.call[d] = page.call[d]
  BY <1>1, <1>3 DEF Pages
<1>5. ChainHolds(page')
  <2>1. \A d \in Calls : SamePlace(page.call[d], page'.call[d])
    BY <1>1, <1>4 DEF SamePlace, At, ActivePcs
  <2> QED BY <1>3, <2>1, PlaceKept DEF PageHolds
<1>6. \A j \in jobs : j.call # c BY <1>1, NoJob DEF Heard
<1>7. j1 \in Jobs /\ j1.call = c /\ j1.kind = "stage" BY <1>1 DEF Jobs
<1> HIDE DEF j1
<1>8. jobs' = jobs \/ (x.pc = "probe" /\ jobs' = jobs \cup {j1}) BY DEF j1
<1>9. /\ jobs' \subseteq Jobs
      /\ \A j \in jobs' : j.call # c => j \in jobs
      /\ \A j \in jobs' : j.call = c => j = j1 /\ x.pc = "probe"
  BY <1>6, <1>7, <1>8 DEF PageHolds
<1>10. \A j, k \in jobs' : j.call = c /\ k.call = c => Matches(page'.call[c].pc, j.kind) /\ j = k
  BY <1>4, <1>7, <1>9 DEF Matches
<1>11. OthersAs(c, page, page') BY <1>4 DEF OthersAs
<1> QED BY <1>3, <1>4, <1>5, <1>9, <1>10, <1>11 DEF Moved

LEMMA PickHolds == ASSUME IInv, NEW c \in Calls, NEW uri \in Docs, Pick(c, uri) PROVE IInv'
<1> DEFINE x == [IdleCall EXCEPT !.pc = "probe", !.mode = "manual", !.uri = uri]
<1>1. x \in CallType /\ x.pc = "probe" /\ x.uri = uri BY DEF IdleCall, CallType
<1>2. /\ c \in Free /\ page' = [page EXCEPT !.busy = c, !.call[c] = x]
      /\ jobs' = jobs \cup {[call |-> c, kind |-> "stage", uri |-> uri]}
      /\ app' = app /\ provider' = provider
  BY DEF Pick, Ready
<1> HIDE DEF x
<1>3. Moved(c) /\ page'.call[c].pc # "written" BY <1>1, <1>2, PanelMoves DEF IInv
<1> QED BY <1>2, <1>3, CallStep DEF IInv

LEMMA CreateHolds == ASSUME IInv, NEW c \in Calls, NEW uri \in Docs, Create(c, uri) PROVE IInv'
<1> DEFINE x == [IdleCall EXCEPT !.pc = "picked", !.mode = "manual", !.uri = uri]
<1>1. x \in CallType /\ x.pc = "picked" /\ x.uri = uri BY DEF IdleCall, CallType
<1>2. /\ c \in Free /\ page' = [page EXCEPT !.busy = c, !.call[c] = x] /\ jobs' = jobs
      /\ app' = app /\ provider' = provider
  BY DEF Create, Ready
<1> HIDE DEF x
<1>3. Moved(c) /\ page'.call[c].pc # "written" BY <1>1, <1>2, PanelMoves DEF IInv
<1> QED BY <1>2, <1>3, CallStep DEF IInv

\* What the native side answers, to a call that still listens or to nobody.
LEMMA AnswerHolds ==
  ASSUME IInv, NEW j \in jobs, j.call # Nobody, Quiet(j.call),
         NEW ok \in BOOLEAN, NEW stamp \in Nat, NEW a \in Apps,
         a.outgoing = app.outgoing, a.status.hash = app.status.hash,
         \/ j.kind = "stage" /\ StageAnswered(j.call, ok, stamp, a)
         \/ j.kind = "info" /\ InfoAnswered(j.call, ok, stamp, a)
         \/ j.kind = "commit" /\ CommitAnswered(j.call, ok, a),
         provider' \in Providers, provider.received \subseteq provider'.received,
         j.kind = "commit" /\ ok => app.outgoing \in provider'.received
  PROVE  IInv'
<1> DEFINE c == j.call
<1>1. /\ c \in Calls /\ Moved(c) /\ app' \in {a, Troubled(a)}
      /\ page'.call[c].pc = "written" => j.kind = "commit" /\ ok /\ app' = a
  BY AnswerMoves DEF IInv
<1>2. app' \in Apps /\ app'.outgoing = app.outgoing /\ app'.status.hash = app.status.hash
  BY <1>1, AppFields
<1> HIDE DEF c
<1>3. CASE page'.call[c].pc # "written" BY <1>1, <1>2, <1>3, CallStep
<1>4. CASE page'.call[c].pc = "written"
  <2>1. PageHolds(page', jobs') BY <1>1, MovedHolds DEF IInv
  <2>2. app.outgoing \in provider'.received BY <1>1, <1>4
  <2>3. WrittenHeld' BY <1>2, <2>2 DEF WrittenHeld
  <2>4. BaselineHeld' BY <1>2 DEF IInv, BaselineHeld
  <2> QED BY <1>2, <2>1, <2>3, <2>4 DEF IInv
<1> QED BY <1>3, <1>4

LEMMA JobStep ==
  ASSUME IInv, NEW j \in jobs, jobs' = jobs \ {j},
         NEW ok \in BOOLEAN, NEW stamp \in Nat, NEW a \in Apps,
         a.outgoing = app.outgoing, a.status.hash = app.status.hash, Answered(j, ok, stamp, a),
         provider' \in Providers, provider.received \subseteq provider'.received,
         j.kind = "commit" /\ ok => app.outgoing \in provider'.received
  PROVE  IInv'
<1>1. CASE j.call = Nobody
  <2>1. page' = page /\ app' = a BY <1>1 DEF Answered
  <2>2. PageHolds(page', jobs') BY <2>1 DEF IInv, PageHolds
  <2> QED BY <2>1, <2>2, QuietStep
<1>2. CASE j.call # Nobody
  <2>1. Quiet(j.call) BY <1>2 DEF IInv, PageHolds, Quiet
  <2>2. j.kind \in {"stage", "info", "commit"} BY DEF IInv, PageHolds, Jobs
  <2>3. \/ j.kind = "stage" /\ StageAnswered(j.call, ok, stamp, a)
        \/ j.kind = "info" /\ InfoAnswered(j.call, ok, stamp, a)
        \/ j.kind = "commit" /\ CommitAnswered(j.call, ok, a)
    BY <1>2, <2>2 DEF Answered
  <2> QED BY <1>2, <2>1, <2>3, AnswerHolds
<1> QED BY <1>1, <1>2

LEMMA StoresType ==
  ASSUME provider \in Providers, NEW uri \in Docs, NEW doc \in Documents
  PROVE  /\ Stores(uri, doc) \in Providers
         /\ Stores(uri, doc).received = provider.received \cup {doc}
<1> DEFINE docs == [provider.doc EXCEPT ![uri] = doc]
           stamps == [provider.stamp EXCEPT ![uri] = provider.clock + 1]
           copies == [provider.cached EXCEPT ![uri] = [doc |-> provider.doc[uri], stamp |-> provider.stamp[uri]]]
<1>1. docs \in [Docs -> Documents] /\ stamps \in [Docs -> Nat] BY DEF Providers
<1>2. copies \in [Docs -> Copies]
  <2>1. [doc |-> provider.doc[uri], stamp |-> provider.stamp[uri]] \in Copies
    BY DEF Providers, Copies
  <2> QED BY <2>1 DEF Providers
<1> DEFINE got == provider.received \cup {doc}
           now == provider.clock + 1
<1>3. got \in SUBSET Documents /\ now \in Nat BY DEF Providers
<1>4. Stores(uri, doc) = [provider EXCEPT !.clock = now, !.doc = docs, !.stamp = stamps,
                                          !.cached = copies, !.received = got]
  BY DEF Stores, Providers
<1> HIDE DEF docs, stamps, copies, now
<1>5. Stores(uri, doc).received = got BY <1>4 DEF Providers
<1> HIDE DEF got
<1>6. Stores(uri, doc) \in Providers BY <1>1, <1>2, <1>3, <1>4 DEF Providers
<1> QED BY <1>5, <1>6 DEF got

LEMMA TruncatedType ==
  ASSUME provider \in Providers, NEW uri \in Docs, NEW left \in CutShort
  PROVE  /\ Truncated(uri, left) \in Providers
         /\ Truncated(uri, left).received = provider.received
<1>1. left \in Documents BY ReadType
<1>2. Stores(uri, left) \in Providers BY <1>1, StoresType
<1>3. Truncated(uri, left) = [Stores(uri, left) EXCEPT !.received = provider.received]
  BY DEF Truncated
<1> DEFINE q == Stores(uri, left)
<1> HIDE DEF q
<1>4. q \in Providers /\ Truncated(uri, left) = [q EXCEPT !.received = provider.received]
  BY <1>2, <1>3 DEF q
<1> QED BY <1>4 DEF Providers

LEMMA JobHolds == ASSUME IInv, NEW j \in jobs, Job(j) PROVE IInv'
<1>1. /\ PageHolds(page, jobs) /\ app \in Apps /\ provider \in Providers
      /\ j.uri \in Docs /\ jobs' = jobs \ {j}
  BY DEF IInv, PageHolds, Jobs, Job
<1>2. /\ provider.doc[j.uri] \in Documents /\ provider.stamp[j.uri] \in Nat
      /\ provider.cached[j.uri] \in Copies
  BY <1>1 DEF Providers
<1>3. \A f \in Documents \cup {app.incoming} : [app EXCEPT !.incoming = f] \in Apps
                                /\ [app EXCEPT !.incoming = f].outgoing = app.outgoing
                                /\ [app EXCEPT !.incoming = f].status = app.status
  <2> TAKE f \in Documents \cup {app.incoming}
  <2>1. f \in File BY <1>1, ReadType DEF Apps
  <2> QED BY <1>1, <2>1 DEF Apps
<1>4. CASE StageJob(j)
  <2>1. provider' = provider /\ j.kind = "stage" BY <1>4 DEF StageJob
  <2>2. \E ok \in BOOLEAN, stamp \in Nat, a \in Apps :
          a.outgoing = app.outgoing /\ a.status.hash = app.status.hash /\ Answered(j, ok, stamp, a)
    <3>1. CASE Answered(j, TRUE, provider.stamp[j.uri], [app EXCEPT !.incoming = provider.doc[j.uri]])
      <4>1. /\ [app EXCEPT !.incoming = provider.doc[j.uri]] \in Apps
            /\ [app EXCEPT !.incoming = provider.doc[j.uri]].outgoing = app.outgoing
            /\ [app EXCEPT !.incoming = provider.doc[j.uri]].status = app.status
        BY <1>2, <1>3
      <4> QED BY <1>2, <3>1, <4>1
    <3>2. CASE Answered(j, TRUE, provider.cached[j.uri].stamp,
                        [app EXCEPT !.incoming = provider.cached[j.uri].doc])
      <4>1. provider.cached[j.uri].doc \in Documents /\ provider.cached[j.uri].stamp \in Nat
        BY <1>2 DEF Copies
      <4>2. /\ [app EXCEPT !.incoming = provider.cached[j.uri].doc] \in Apps
            /\ [app EXCEPT !.incoming = provider.cached[j.uri].doc].outgoing = app.outgoing
            /\ [app EXCEPT !.incoming = provider.cached[j.uri].doc].status = app.status
        BY <1>3, <4>1
      <4> QED BY <3>2, <4>1, <4>2
    <3>3. CASE \E left \in CutShort \cup {app.incoming} :
                 Answered(j, FALSE, 0, [app EXCEPT !.incoming = left])
      <4>1. PICK left \in CutShort \cup {app.incoming} :
              Answered(j, FALSE, 0, [app EXCEPT !.incoming = left])
        BY <3>3
      <4>2. left \in Documents \cup {app.incoming} BY ReadType
      <4>3. /\ [app EXCEPT !.incoming = left] \in Apps
            /\ [app EXCEPT !.incoming = left].outgoing = app.outgoing
            /\ [app EXCEPT !.incoming = left].status = app.status
        BY <1>3, <4>2
      <4> QED BY <4>1, <4>3
    <3> QED BY <1>4, <3>1, <3>2, <3>3 DEF StageJob
  <2> QED BY <1>1, <2>1, <2>2, JobStep
<1>5. CASE InfoJob(j)
  <2>1. provider' = provider /\ j.kind = "info" BY <1>5 DEF InfoJob
  <2>2. provider.cached[j.uri].stamp \in Nat BY <1>2 DEF Copies
  <2>3. \E stamp \in Nat : Answered(j, TRUE, stamp, app) BY <1>2, <1>5, <2>2 DEF InfoJob
  <2> QED BY <1>1, <2>1, <2>3, JobStep
<1>6. CASE CommitJob(j)
  <2>1. CASE /\ app.outgoing # Gone /\ provider' = Stores(j.uri, app.outgoing)
             /\ Answered(j, TRUE, 0, [app EXCEPT !.incoming = Gone])
    <3>1. app.outgoing \in Documents BY <1>1, <2>1 DEF Apps, File
    <3>2. provider' \in Providers /\ provider'.received = provider.received \cup {app.outgoing}
      BY <1>1, <2>1, <3>1, StoresType
    <3> DEFINE a == [app EXCEPT !.incoming = Gone]
    <3>3. a \in Apps /\ a.outgoing = app.outgoing /\ a.status = app.status
      <4>1. Gone \in File BY DEF File
      <4> QED BY <1>1, <4>1 DEF Apps
    <3>4. Answered(j, TRUE, 0, a) BY <2>1
    <3> HIDE DEF a
    <3> QED BY <1>1, <3>2, <3>3, <3>4, JobStep
  <2>2. CASE /\ \E left \in CutShort : provider' = Truncated(j.uri, left)
             /\ Answered(j, FALSE, 0, app)
    <3>1. provider' \in Providers /\ provider'.received = provider.received
      BY <1>1, <2>2, TruncatedType
    <3> QED BY <1>1, <2>2, <3>1, JobStep
  <2>3. CASE Answered(j, FALSE, 0, app) /\ provider' = provider
    BY <1>1, <2>3, JobStep
  <2>4. {} \in CutShort BY DEF CutShort
  <2> QED BY <1>6, <2>1, <2>2, <2>3, <2>4 DEF CommitJob
<1> QED BY <1>4, <1>5, <1>6 DEF Job

LEMMA TimeoutHolds == ASSUME IInv, NEW j \in jobs, Timeout(j) PROVE IInv'
<1> DEFINE late == [j EXCEPT !.call = Nobody]
<1>1. /\ PageHolds(page, jobs) /\ app \in Apps /\ provider \in Providers
      /\ j \in Jobs /\ j.call # Nobody /\ jobs' = (jobs \ {j}) \cup {late} /\ provider' = provider
  BY DEF IInv, PageHolds, Timeout
<1>2. late \in Jobs /\ late.call = Nobody BY <1>1 DEF Jobs
<1> HIDE DEF late
<1>3. Quiet(j.call)
  <2>1. jobs' \subseteq Jobs BY <1>1, <1>2 DEF PageHolds
  <2>2. \A k \in jobs' : k.call # j.call /\ (k.call # Nobody => k \in jobs)
    BY <1>1, <1>2 DEF PageHolds
  <2> QED BY <2>1, <2>2 DEF Quiet
<1>4. j.kind \in {"stage", "info", "commit"} BY <1>1 DEF Jobs
<1>5. \/ j.kind = "stage" /\ StageAnswered(j.call, FALSE, 0, app)
      \/ j.kind = "info" /\ InfoAnswered(j.call, FALSE, 0, app)
      \/ j.kind = "commit" /\ CommitAnswered(j.call, FALSE, app)
  BY <1>4 DEF Timeout
<1> QED BY <1>1, <1>3, <1>5, AnswerHolds

\* The page holds what it held when only its panel changes.
LEMMA SamePage ==
  ASSUME PageHolds(page, jobs), page' \in Pages, page'.call = page.call,
         page'.running = page.running, jobs' = jobs
  PROVE  PageHolds(page', jobs')
<1>1. \A d \in Calls : SamePlace(page.call[d], page'.call[d]) BY DEF SamePlace
<1>2. ChainHolds(page') BY <1>1, PlaceKept DEF PageHolds
<1> QED BY <1>2 DEF PageHolds

LEMMA LeaveHolds == ASSUME IInv, Leave PROVE IInv'
<1>1. page \in Pages /\ PageHolds(page, jobs) /\ app' = app /\ provider' = provider /\ jobs' = jobs
      /\ page' = [page EXCEPT !.busy = Nobody, !.failed = FALSE]
  BY DEF IInv, PageHolds, Leave
<1>2. page' \in Pages /\ page'.call = page.call /\ page'.running = page.running
  BY <1>1 DEF Pages
<1>3. PageHolds(page', jobs') BY <1>1, <1>2, SamePage
<1> QED BY <1>1, <1>2, <1>3, QuietStep DEF IInv

LEMMA WorldHolds ==
  ASSUME IInv, \/ \E e \in Edits : Edit(e)
               \/ \E f \in Foreign, uri \in Docs : OtherWrites(f, uri)
               \/ Age
  PROVE  IInv'
<1>1. /\ PageHolds(page, jobs) /\ app \in Apps /\ provider \in Providers /\ page' = page /\ jobs' = jobs
  BY DEF IInv, Edit, OtherWrites, Age
<1>2. ASSUME NEW e \in Edits, Edit(e) PROVE IInv'
  <2> DEFINE library == app.library \cup {e}
  <2>1. app' = [app EXCEPT !.library = library, !.dirty = TRUE] /\ provider' = provider
    BY <1>1, <1>2 DEF Edit, Apps
  <2>2. library \in SUBSET Records BY <1>1 DEF Apps, Records
  <2> HIDE DEF library
  <2>3. app' \in Apps /\ app'.outgoing = app.outgoing /\ app'.status = app.status
    BY <1>1, <2>1, <2>2 DEF Apps
  <2> QED BY <1>1, <2>1, <2>3, QuietStep
<1>3. ASSUME NEW f \in Foreign, NEW uri \in Docs, OtherWrites(f, uri) PROVE IInv'
  <2> DEFINE doc == Read(provider.doc[uri]) \cup {f}
  <2>1. provider' = Stores(uri, doc) /\ app' = app BY <1>3 DEF OtherWrites
  <2>2. provider.doc[uri] \in Documents BY <1>1 DEF Providers
  <2>3. doc \in SUBSET Records BY <2>2, ReadType DEF Records
  <2>4. doc \in Documents BY <2>3, ReadType
  <2> HIDE DEF doc
  <2>5. provider' \in Providers /\ provider'.received = provider.received \cup {doc}
    BY <1>1, <2>1, <2>4, StoresType
  <2> QED BY <1>1, <2>1, <2>5, QuietStep
<1>4. ASSUME Age PROVE IInv'
  <2> DEFINE s == [app.status EXCEPT !.aged = TRUE]
  <2>1. app' = [app EXCEPT !.status = s] /\ provider' = provider BY <1>1, <1>4 DEF Age, Apps
  <2>2. s \in StatusType /\ s.hash = app.status.hash BY <1>1 DEF Apps, StatusType
  <2> HIDE DEF s
  <2>3. app' \in Apps /\ app'.outgoing = app.outgoing /\ app'.status = s
    BY <1>1, <2>1, <2>2 DEF Apps
  <2> QED BY <1>1, <2>1, <2>2, <2>3, QuietStep
<1> QED BY <1>2, <1>3, <1>4

LEMMA FreshHolds == FreshPage \in Pages /\ PageHolds(FreshPage, {})
<1>1. \A c \in Calls : FreshPage.call[c] = IdleCall BY DEF FreshPage
<1>2. FreshPage \in Pages BY IdleType DEF FreshPage, Pages
<1>3. ChainHolds(FreshPage)
  <2> DEFINE rank == [c \in Calls |-> 0]
  <2>1. rank \in [Calls -> Nat] /\ \A c \in Calls : rank[c] = 0 OBVIOUS
  <2>2. FreshPage.running = Nobody /\ IdleCall.pc \notin ActivePcs \cup {"chained"}
    BY DEF FreshPage, IdleCall, ActivePcs
  <2> HIDE DEF rank
  <2> QED BY <1>1, <2>1, <2>2 DEF ChainHolds, Ranked
<1>4. IdleCall.pc \in Early BY DEF IdleCall, Early
<1> QED BY <1>1, <1>2, <1>3, <1>4 DEF PageHolds

LEMMA RestartHolds == ASSUME IInv, Restart PROVE IInv'
<1>1. /\ page' = FreshPage /\ jobs' = {} /\ app' = [app EXCEPT !.dirty = FALSE]
      /\ PageHolds(page, jobs) /\ app \in Apps /\ provider \in Providers
  BY DEF Restart, IInv
<1>2. \A c \in Calls : page'.call[c].pc = "idle" BY <1>1 DEF FreshPage, IdleCall
<1>3. PageHolds(page', jobs') BY <1>1, FreshHolds
<1>4. WrittenHeld' BY <1>2 DEF WrittenHeld, At
<1>5. app' \in Apps /\ app'.outgoing = app.outgoing /\ app'.status = app.status
  BY <1>1 DEF Apps
<1>6. provider' \in Providers /\ provider'.received = provider.received
  <2>1. \/ provider' = provider
        \/ \E j \in jobs, left \in CutShort : provider' = Truncated(j.uri, left)
    BY DEF Restart
  <2>2. \A j \in jobs : j.uri \in Docs BY <1>1 DEF PageHolds, Jobs
  <2> QED BY <1>1, <2>1, <2>2, TruncatedType
<1> QED BY <1>3, <1>4, <1>5, <1>6 DEF IInv, BaselineHeld

LEMMA InitHolds == Init => IInv
<1> HAVE Init
<1>1. PageHolds(page, jobs) BY FreshHolds DEF Init
<1>2. app \in Apps /\ app.status.hash = Gone
  <2>1. Gone \in File BY ReadType
  <2> DEFINE s == [ran |-> FALSE, uri |-> NoDoc, writeAt |-> 0, hash |-> Gone,
                   stale |-> FALSE, problem |-> FALSE, readStamp |-> 0, aged |-> FALSE]
  <2>2. s \in StatusType /\ s.hash = Gone BY <2>1 DEF StatusType
  <2>3. app \in [folder : Docs \cup {NoDoc}, library : {{}}, dirty : {FALSE},
                incoming : {Gone}, outgoing : {Gone}, status : {s}]
    BY DEF Init
  <2> HIDE DEF s
  <2> QED BY <2>1, <2>2, <2>3 DEF Apps
<1>3. provider \in Providers BY DEF Init, Providers, Copies, Documents
<1>4. \A c \in Calls : page.call[c].pc = "idle" BY DEF Init, FreshPage, IdleCall
<1> QED BY <1>1, <1>2, <1>3, <1>4 DEF IInv, WrittenHeld, BaselineHeld, At

LEMMA NextHolds == IInv /\ [Next]_vars => IInv'
<1> SUFFICES ASSUME IInv, [Next]_vars PROVE IInv' OBVIOUS
<1>1. CASE \E c \in Calls : Steps(c) \/ Signal(c) \/ ReloadPress(c)
  BY <1>1, BeginHolds, MergeHolds, WrittenHolds, ReloadHolds, UnsettledHolds, AdoptHolds,
     SignalHolds, ReloadPressHolds DEF Steps
<1>2. CASE \E c \in Calls, force \in BOOLEAN : Save(c, force) BY <1>2, SaveHolds
<1>3. CASE \E c \in Calls, uri \in Docs : Pick(c, uri) \/ Create(c, uri)
  BY <1>3, PickHolds, CreateHolds
<1>4. CASE \E j \in jobs : Job(j) \/ Timeout(j) BY <1>4, JobHolds, TimeoutHolds
<1>5. CASE \/ \E e \in Edits : Edit(e)
           \/ \E f \in Foreign, uri \in Docs : OtherWrites(f, uri)
           \/ Age
  BY <1>5, WorldHolds
<1>6. CASE Leave BY <1>6, LeaveHolds
<1>7. CASE Restart BY <1>7, RestartHolds
<1>8. CASE UNCHANGED vars
  BY <1>8 DEF vars, IInv, WrittenHeld, BaselineHeld, At
<1> QED BY <1>1, <1>2, <1>3, <1>4, <1>5, <1>6, <1>7, <1>8 DEF Next

\* The invariant holds: the chain of calls never forks or loses its head, every native
\* call that is heard answers the step that asked for it, and an answer confirmed to
\* Go has reached a provider.
THEOREM DocumentInvariant == Spec => []IInv
<1>1. Init => IInv BY InitHolds
<1>2. IInv /\ [Next]_vars => IInv' BY NextHolds
<1> QED BY <1>1, <1>2, PTL DEF Spec

\* Two calls of the page never touch the staged files at once, whatever signals, saves,
\* reloads, a panel left and opened again, timeouts and restarts overlap; and the write
\* baseline is always bytes a provider has received.
THEOREM DocumentSafety == Spec => []DocumentSafe
<1>1. IInv => DocumentSafe
  <2> SUFFICES ASSUME IInv PROVE DocumentSafe OBVIOUS
  <2>1. page \in Pages /\ ChainHolds(page) /\ app \in Apps BY DEF IInv, PageHolds
  <2>2. \A c \in Calls : Active(c) <=> page.call[c].pc \in ActivePcs BY DEF Active, At, ActivePcs
  <2>3. \A c, d \in Calls : Active(c) /\ Active(d) => c = d BY <2>1, <2>2, OneActive
  <2>4. page.running \in Calls \cup {Nobody} /\ page.busy \in Calls \cup {Nobody} /\ page.failed \in BOOLEAN
    BY <2>1 DEF Pages
  <2>5. app.folder \in Docs \cup {NoDoc} /\ app.library \subseteq Edits \cup Foreign /\ app.dirty \in BOOLEAN
    BY <2>1 DEF Apps, Records
  <2> QED BY <2>3, <2>4, <2>5 DEF DocumentSafe, TypeOK, IInv
<1> QED BY <1>1, DocumentInvariant, PTL

=============================================================================
