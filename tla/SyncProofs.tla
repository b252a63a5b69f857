------------------------------ MODULE SyncProofs ------------------------------
(***************************************************************************)
(* Theorems about the two halves of the library sync, the scheduler that   *)
(* decides when a pass runs and the folder pass itself.  Neither reads a   *)
(* variable of the other, so each has its own specification and invariant. *)
(*                                                                         *)
(* The scheduler, for every debounce, cap and number of asks: SchedulerInv *)
(* (in SyncScheduler) is inductive; the safety properties are parts of it, *)
(* the action property and the refinement follow from it.                  *)
(*                                                                         *)
(* The pass, for any devices and any bounds: the type invariant, that no   *)
(* pass takes an order back, and that a settled device is in step with the *)
(* document unless another device wrote inside the window between its own  *)
(* write and its own stat.                                                 *)
(***************************************************************************)
EXTENDS SyncScheduler, FolderSync, TLAPS

USE SchedulerAssumption, FolderAssumption

(***************************************************************************)
(* The scheduler: every part of its invariant, action by action            *)
(***************************************************************************)

\* The stores the callbacks are kept in stay functions under a Stop.
LEMMA StoppedType ==
  ASSUME NEW cb \in [Gens -> CallbackState], NEW g \in 0 .. MaxAsks
  PROVE  /\ Stopped(cb, g) \in [Gens -> CallbackState]
         /\ \A h \in Gens : h # g => Stopped(cb, g)[h] = cb[h]
         /\ g \in Gens /\ cb[g] = "armed" => Stopped(cb, g)[g] = "stopped"
         /\ g \in Gens /\ cb[g] # "armed" => Stopped(cb, g)[g] = cb[g]
  BY DEF Stopped, CallbackState, Gens

LEMMA InitSchedulerInv == SchedulerInit => SchedulerInv
<1> SUFFICES ASSUME SchedulerInit PROVE SchedulerInv
  OBVIOUS
<1>1. SchedulerTypeOK
  <2>1. left \in [Gens -> 0 .. Debounce] /\ syncFirst \in 0 .. MaxWait
    BY DEF SchedulerInit
  <2>2. callback \in [Gens -> CallbackState] /\ loop \in [Gens -> LoopState]
    BY DEF SchedulerInit, CallbackState, LoopState
  <2>3. burst \in [open : BOOLEAN, first : Nat, last : Nat]
    BY DEF SchedulerInit, NoBurst
  <2>4. syncQueued \in BOOLEAN /\ syncRunning \in BOOLEAN /\ waiting \subseteq Gens
    BY Zenon DEF SchedulerInit
  <2>5. syncGen \in 0 .. MaxAsks /\ syncTimer \in 0 .. MaxAsks
    BY DEF SchedulerInit
  <2> QED
    BY <2>1, <2>2, <2>3, <2>4, <2>5, Zenon DEF SchedulerTypeOK
<1>2. TimerInv
  BY DEF SchedulerInit, TimerInv, NoBurst, Gens
<1>3. BurstInv
  BY DEF SchedulerInit, BurstInv, NoBurst, Gens
<1>4. FlagInv
  BY DEF SchedulerInit, FlagInv, OneLoop, Owner, AskCarried, Gens
<1> QED
  BY <1>1, <1>2, <1>3, <1>4 DEF SchedulerInv

\* One ask.
LEMMA ScheduleSchedulerInv == SchedulerInv /\ SyncSchedule => SchedulerInv'
<1> SUFFICES ASSUME SchedulerInv, SyncSchedule PROVE SchedulerInv'
  OBVIOUS
<1> DEFINE gen == syncGen + 1
           age == IF syncTimer = 0 THEN 0 ELSE syncFirst
           cb == Stopped(callback, syncTimer)
<1>1. /\ gen \in Gens
      /\ age \in 0 .. MaxWait
      /\ Wait(age) \in 0 .. Debounce
      /\ age + Wait(age) <= MaxWait
      /\ Wait(age) = Debounce \/ age + Wait(age) = MaxWait
  BY DEF SchedulerInv, SchedulerTypeOK, SyncSchedule, Wait, Gens
<1>2. /\ cb \in [Gens -> CallbackState]
      /\ \A h \in Gens : h # syncTimer => cb[h] = callback[h]
      /\ syncTimer \in Gens => cb[syncTimer] \in {"stopped", "woken"}
  <2>1. callback \in [Gens -> CallbackState] /\ syncTimer \in 0 .. MaxAsks
    BY DEF SchedulerInv, SchedulerTypeOK
  <2>2. syncTimer \in Gens => callback[syncTimer] \in {"armed", "woken"}
    BY DEF SchedulerInv, TimerInv
  <2> QED
    BY <2>1, <2>2, StoppedType
<1>3. /\ syncGen' = gen /\ syncTimer' = gen /\ syncFirst' = age
      /\ left' = [left EXCEPT ![gen] = Wait(age)]
      /\ callback' = [cb EXCEPT ![gen] = "armed"]
      /\ waiting' = waiting \union {gen}
      /\ burst' = [open |-> TRUE, first |-> IF burst.open THEN burst.first ELSE 0,
                   last |-> 0]
      /\ UNCHANGED <<syncQueued, syncRunning, loop>>
  BY DEF SyncSchedule
<1>4. SchedulerTypeOK'
  BY <1>1, <1>2, <1>3 DEF SchedulerInv, SchedulerTypeOK, CallbackState, Gens
<1>5. \A h \in Gens : h # gen => callback'[h] # "armed" /\ callback'[h] = cb[h]
  BY <1>1, <1>2, <1>3 DEF SchedulerInv, SchedulerTypeOK, TimerInv, Gens, CallbackState
<1>6. callback'[gen] = "armed"
  BY <1>1, <1>2, <1>3
<1>7. TimerInv'
  <2>1. burst'.open /\ syncTimer' # 0 /\ syncTimer' = syncGen'
    BY <1>1, <1>3 DEF Gens
  <2>2. waiting' \subseteq 1 .. syncGen'
    BY <1>1, <1>3 DEF SchedulerInv, SchedulerTypeOK, TimerInv, Gens
  <2>3. ASSUME NEW g \in Gens
        PROVE  /\ g > syncGen' => callback'[g] = "none"
               /\ callback'[g] = "armed" => syncTimer' = g
               /\ callback'[g] = "woken" /\ g = syncGen' => syncTimer' = g
               /\ syncTimer' = g => callback'[g] \in {"armed", "woken"}
    BY <1>1, <1>2, <1>3, <1>5, <1>6 DEF SchedulerInv, SchedulerTypeOK, TimerInv, Gens
  <2> QED
    BY <2>1, <2>2, <2>3 DEF TimerInv
<1>8. BurstInv'
  <2>1. burst'.first = age /\ burst'.last = 0
    BY <1>3 DEF SchedulerInv, SchedulerTypeOK, TimerInv, BurstInv, Gens
  <2>2. left'[gen] = Wait(age)
    BY <1>1, <1>3 DEF SchedulerInv, SchedulerTypeOK
  <2> QED
    BY <1>1, <1>3, <1>6, <2>1, <2>2 DEF BurstInv
<1>9. FlagInv'
  <2>1. ASSUME NEW g \in Gens, callback[g] = "start" PROVE callback'[g] = "start"
    <3>1. g # gen
      BY <1>1, <2>1 DEF SchedulerInv, SchedulerTypeOK, TimerInv
    <3>2. g # syncTimer
      BY <2>1 DEF SchedulerInv, TimerInv
    <3> QED
      BY <1>2, <1>5, <2>1, <3>1, <3>2
  <2>2. AskCarried'
    BY <1>1, <1>3, <1>6 DEF AskCarried
  <2> QED
    BY <1>3, <2>1, <2>2 DEF SchedulerInv, FlagInv, OneLoop, Owner
<1> QED
  BY <1>4, <1>7, <1>8, <1>9 DEF SchedulerInv

\* A timer wakes up.
LEMMA WakeSchedulerInv == ASSUME SchedulerInv, NEW g \in Gens, Wake(g) PROVE SchedulerInv'
<1>1. /\ callback' = [callback EXCEPT ![g] = "woken"]
      /\ callback[g] = "armed" /\ left[g] = 0 /\ syncTimer = g
      /\ UNCHANGED <<syncGen, syncTimer, syncFirst, left, syncQueued, syncRunning,
                     loop, waiting, burst>>
  BY DEF Wake, timerVars, SchedulerInv, TimerInv
<1>2. SchedulerTypeOK'
  BY <1>1 DEF SchedulerInv, SchedulerTypeOK, CallbackState
<1>3. TimerInv'
  BY <1>1 DEF SchedulerInv, SchedulerTypeOK, TimerInv, Gens
<1>4. BurstInv'
  BY <1>1 DEF SchedulerInv, SchedulerTypeOK, BurstInv
<1>5. FlagInv'
  <2>1. \A h \in Gens : callback[h] \in {"queue", "start"} => callback'[h] = callback[h]
    BY <1>1 DEF SchedulerInv, SchedulerTypeOK
  <2>2. callback'[g] = "woken" /\ g = syncGen'
    BY <1>1 DEF SchedulerInv, SchedulerTypeOK, TimerInv, Gens
  <2>3. AskCarried'
    BY <1>1, <2>1, <2>2 DEF SchedulerInv, FlagInv, AskCarried, Owner
  <2> QED
    BY <1>1, <2>1, <2>3 DEF SchedulerInv, FlagInv, OneLoop, Owner
<1> QED
  BY <1>2, <1>3, <1>4, <1>5 DEF SchedulerInv

\* A callback compares generations.
LEMMA FireSchedulerInv == ASSUME SchedulerInv, NEW g \in Gens, SyncFire(g) PROVE SchedulerInv'
<1>1. /\ callback[g] = "woken"
      /\ UNCHANGED <<syncGen, left, syncQueued, syncRunning, loop, waiting>>
  BY DEF SyncFire
<1>2. CASE syncGen # g
  <2>1. /\ callback' = [callback EXCEPT ![g] = "done"]
        /\ UNCHANGED <<syncTimer, syncFirst, burst>>
        /\ syncTimer # g
    BY <1>2 DEF SyncFire, Current, SchedulerInv, SchedulerTypeOK, TimerInv, Gens
  <2>2. \A h \in Gens : h # g => callback'[h] = callback[h]
    BY <2>1 DEF SchedulerInv, SchedulerTypeOK
  <2>3. callback'[g] = "done"
    BY <2>1 DEF SchedulerInv, SchedulerTypeOK
  <2>4. SchedulerTypeOK'
    BY <1>1, <2>1 DEF SchedulerInv, SchedulerTypeOK, CallbackState
  <2>5. TimerInv'
    BY <1>1, <2>1, <2>2, <2>3 DEF SchedulerInv, SchedulerTypeOK, TimerInv, Gens
  <2>6. BurstInv'
    BY <1>1, <2>1, <2>2 DEF SchedulerInv, SchedulerTypeOK, BurstInv
  <2>7. FlagInv'
    <3>1. AskCarried'
      BY <1>1, <1>2, <2>1, <2>2 DEF SchedulerInv, FlagInv, AskCarried, Owner
    <3> QED
      BY <1>1, <2>1, <2>2, <3>1 DEF SchedulerInv, FlagInv, OneLoop, Owner
  <2> QED
    BY <2>4, <2>5, <2>6, <2>7 DEF SchedulerInv
<1>3. CASE syncGen = g
  <2>1. /\ callback' = [callback EXCEPT ![g] = "queue"]
        /\ syncTimer' = 0 /\ syncFirst' = 0 /\ burst' = NoBurst
        /\ syncTimer = g
    BY <1>1, <1>3 DEF SyncFire, Current, SchedulerInv, TimerInv
  <2>2. \A h \in Gens : h # g => callback'[h] = callback[h]
    BY <2>1 DEF SchedulerInv, SchedulerTypeOK
  <2>3. callback'[g] = "queue"
    BY <2>1 DEF SchedulerInv, SchedulerTypeOK
  <2>4. SchedulerTypeOK'
    <3>1. burst' \in [open : BOOLEAN, first : Nat, last : Nat]
      BY <2>1 DEF NoBurst
    <3>2. callback' \in [Gens -> CallbackState]
      BY <2>1 DEF SchedulerInv, SchedulerTypeOK, CallbackState
    <3> QED
      BY <1>1, <2>1, <3>1, <3>2 DEF SchedulerInv, SchedulerTypeOK
  <2>5. TimerInv'
    BY <1>1, <2>1, <2>2, <2>3 DEF SchedulerInv, SchedulerTypeOK, TimerInv, NoBurst, Gens
  <2>6. BurstInv'
    BY <1>1, <2>1 DEF BurstInv, Gens
  <2>7. FlagInv'
    <3>1. AskCarried'
      BY <2>3 DEF AskCarried
    <3> QED
      BY <1>1, <2>1, <2>2, <3>1 DEF SchedulerInv, FlagInv, OneLoop, Owner
  <2> QED
    BY <2>4, <2>5, <2>6, <2>7 DEF SchedulerInv
<1> QED
  BY <1>2, <1>3

\* A pass is marked.
LEMMA QueueSchedulerInv == ASSUME SchedulerInv, NEW g \in Gens, SyncQueue(g) PROVE SchedulerInv'
<1>1. /\ callback[g] = "queue"
      /\ callback' = [callback EXCEPT ![g] = "start"]
      /\ syncQueued' = TRUE
      /\ UNCHANGED <<syncGen, syncTimer, syncFirst, left, syncRunning, loop,
                     waiting, burst>>
  BY DEF SyncQueue, timerVars
<1>2. /\ \A h \in Gens : h # g => callback'[h] = callback[h]
      /\ callback'[g] = "start"
  BY <1>1 DEF SchedulerInv, SchedulerTypeOK
<1>3. SchedulerTypeOK'
  BY <1>1 DEF SchedulerInv, SchedulerTypeOK, CallbackState
<1>4. TimerInv' /\ BurstInv'
  BY <1>1, <1>2 DEF SchedulerInv, SchedulerTypeOK, TimerInv, BurstInv, Gens
<1>5. FlagInv'
  BY <1>1, <1>2 DEF SchedulerInv, FlagInv, OneLoop, Owner, AskCarried
<1> QED
  BY <1>3, <1>4, <1>5 DEF SchedulerInv

\* The first CompareAndSwap.
LEMMA StartSchedulerInv == ASSUME SchedulerInv, NEW g \in Gens, StartLoop(g) PROVE SchedulerInv'
<1>1. /\ callback[g] = "start"
      /\ callback' = [callback EXCEPT ![g] = "done"]
      /\ syncRunning' = TRUE
      /\ loop' = IF ~syncRunning THEN [loop EXCEPT ![g] = "swap"] ELSE loop
      /\ UNCHANGED <<syncGen, syncTimer, syncFirst, left, syncQueued, waiting, burst>>
  BY DEF StartLoop, Wins, timerVars
<1>2. /\ \A h \in Gens : h # g => callback'[h] = callback[h]
      /\ callback'[g] = "done"
  BY <1>1 DEF SchedulerInv, SchedulerTypeOK
<1>3. SchedulerTypeOK'
  BY <1>1 DEF SchedulerInv, SchedulerTypeOK, CallbackState, LoopState
<1>4. TimerInv' /\ BurstInv'
  BY <1>1, <1>2 DEF SchedulerInv, SchedulerTypeOK, TimerInv, BurstInv, Gens
<1>5. PICK h \in Gens : Owner(h)'
  BY <1>1 DEF SchedulerInv, FlagInv, SchedulerTypeOK, Owner
<1>6. OneLoop'
  BY <1>1 DEF SchedulerInv, FlagInv, SchedulerTypeOK, OneLoop, Owner
<1>7. AskCarried'
  BY <1>1, <1>2, <1>5 DEF SchedulerInv, FlagInv, AskCarried
<1> QED
  BY <1>1, <1>3, <1>4, <1>5, <1>6, <1>7 DEF SchedulerInv, FlagInv

\* One step of a loop.
LEMMA LoopSchedulerInv == ASSUME SchedulerInv, NEW g \in Gens, LoopStep(g) PROVE SchedulerInv'
<1>1. UNCHANGED <<syncGen, syncTimer, syncFirst, left, callback, burst>>
  BY DEF LoopStep, Swap, EndPass, ClearRunning, Check, Retake, timerVars
<1>2. waiting' \subseteq waiting
  BY DEF LoopStep, Swap, EndPass, ClearRunning, Check, Retake
<1>3. TimerInv' /\ BurstInv'
  BY <1>1, <1>2 DEF SchedulerInv, TimerInv, BurstInv
<1> USE DEF MarkedAgain, NothingLeft, Wins
<1>4. CASE Swap(g)
  <2>1. SchedulerTypeOK'
    BY <1>1, <1>2, <1>4 DEF SchedulerInv, SchedulerTypeOK, Swap, LoopState
  <2>2. /\ \A h \in Gens : h # g => loop'[h] = loop[h]
        /\ Owner(g) /\ Owner(g)'
    BY <1>4 DEF SchedulerInv, SchedulerTypeOK, Swap, Owner
  <2>3. FlagInv'
    BY <1>1, <1>4, <2>2 DEF SchedulerInv, FlagInv, OneLoop, AskCarried, Owner, Swap
  <2> QED
    BY <1>3, <2>1, <2>3 DEF SchedulerInv
<1>5. CASE EndPass(g)
  <2>1. SchedulerTypeOK'
    BY <1>1, <1>5 DEF SchedulerInv, SchedulerTypeOK, EndPass, LoopState
  <2>2. /\ \A h \in Gens : h # g => loop'[h] = loop[h]
        /\ Owner(g) /\ Owner(g)'
    BY <1>5 DEF SchedulerInv, SchedulerTypeOK, EndPass, Owner
  <2>3. FlagInv'
    BY <1>1, <1>5, <2>2 DEF SchedulerInv, FlagInv, OneLoop, AskCarried, Owner, EndPass
  <2> QED
    BY <1>3, <2>1, <2>3 DEF SchedulerInv
<1>6. CASE ClearRunning(g)
  <2>1. SchedulerTypeOK'
    BY <1>1, <1>6 DEF SchedulerInv, SchedulerTypeOK, ClearRunning, LoopState
  <2>2. /\ \A h \in Gens : h # g => loop'[h] = loop[h]
        /\ Owner(g) /\ loop'[g] = "check"
    BY <1>6 DEF SchedulerInv, SchedulerTypeOK, ClearRunning, Owner
  <2>3. \A h \in Gens : ~Owner(h)'
    BY <2>2 DEF SchedulerInv, FlagInv, OneLoop, Owner
  <2>4. FlagInv'
    BY <1>1, <1>6, <2>2, <2>3 DEF SchedulerInv, FlagInv, OneLoop, AskCarried, ClearRunning
  <2> QED
    BY <1>3, <2>1, <2>4 DEF SchedulerInv
<1>7. CASE Check(g)
  <2>1. SchedulerTypeOK'
    BY <1>1, <1>7 DEF SchedulerInv, SchedulerTypeOK, Check, LoopState
  <2>2. /\ \A h \in Gens : h # g => loop'[h] = loop[h]
        /\ ~Owner(g) /\ ~Owner(g)'
        /\ syncQueued => loop'[g] = "retake"
    BY <1>7 DEF SchedulerInv, SchedulerTypeOK, Check, Owner
  <2>3. \A h \in Gens : Owner(h)' <=> Owner(h)
    BY <2>2 DEF Owner
  <2>4. FlagInv'
    BY <1>1, <1>7, <2>2, <2>3 DEF SchedulerInv, FlagInv, OneLoop, AskCarried, Check
  <2> QED
    BY <1>3, <2>1, <2>4 DEF SchedulerInv
<1>8. CASE Retake(g)
  <2>1. SchedulerTypeOK'
    BY <1>1, <1>8 DEF SchedulerInv, SchedulerTypeOK, Retake, LoopState
  <2>2. /\ \A h \in Gens : h # g => loop'[h] = loop[h]
        /\ ~Owner(g)
        /\ Owner(g)' <=> ~syncRunning
    BY <1>8 DEF SchedulerInv, SchedulerTypeOK, Retake, Owner
  <2>3. \A h \in Gens : h # g => (Owner(h)' <=> Owner(h))
    BY <2>2 DEF Owner
  <2>4. PICK h \in Gens : Owner(h)'
    BY <2>2, <2>3 DEF SchedulerInv, FlagInv
  <2>5. OneLoop' /\ AskCarried'
    BY <1>1, <1>8, <2>2, <2>3, <2>4 DEF SchedulerInv, FlagInv, OneLoop, AskCarried, Retake
  <2> QED
    BY <1>3, <1>8, <2>1, <2>4, <2>5 DEF SchedulerInv, FlagInv, Retake
<1> QED
  BY <1>4, <1>5, <1>6, <1>7, <1>8 DEF LoopStep

\* The clock ticks.
LEMMA TickSchedulerInv == SchedulerInv /\ Tick => SchedulerInv'
<1> SUFFICES ASSUME SchedulerInv, Tick PROVE SchedulerInv'
  OBVIOUS
<1>1. /\ UNCHANGED <<syncGen, syncTimer, callback, syncQueued, syncRunning, loop, waiting>>
      /\ \A g \in Gens : callback[g] # "woken" /\ ~(callback[g] = "armed" /\ left[g] = 0)
      /\ left' = [g \in Gens |-> IF callback[g] = "armed" THEN left[g] - 1 ELSE left[g]]
  BY DEF Tick
<1>2. left' \in [Gens -> 0 .. Debounce]
  BY <1>1 DEF SchedulerInv, SchedulerTypeOK
<1>3. syncFirst' \in 0 .. MaxWait
  BY DEF Tick, SchedulerInv, SchedulerTypeOK
<1>4. burst' \in [open : BOOLEAN, first : Nat, last : Nat] /\ burst'.open = burst.open
  <2>1. burst \in [open : BOOLEAN, first : Nat, last : Nat]
    BY DEF SchedulerInv, SchedulerTypeOK
  <2>2. CASE burst.open
    <3>1. burst' = [burst EXCEPT !.first = burst.first + 1, !.last = burst.last + 1]
      BY <2>2 DEF Tick
    <3>2. burst.open \in BOOLEAN /\ burst.first + 1 \in Nat /\ burst.last + 1 \in Nat
      BY <2>1
    <3>3. burst' = [open |-> burst.open, first |-> burst.first + 1, last |-> burst.last + 1]
      BY <2>1, <3>1
    <3> QED
      BY <3>2, <3>3, Zenon
  <2>3. CASE ~burst.open
    BY <2>1, <2>3 DEF Tick
  <2> QED
    BY <2>2, <2>3
<1>5. SchedulerTypeOK'
  BY <1>1, <1>2, <1>3, <1>4 DEF SchedulerInv, SchedulerTypeOK
<1>6. TimerInv'
  BY <1>1, <1>4 DEF SchedulerInv, TimerInv
<1>7. BurstInv'
  <2> SUFFICES ASSUME NEW g \in Gens, syncTimer' = g
               PROVE  /\ callback'[g] = "woken" => left'[g] = 0
                      /\ syncFirst' = burst'.first
                      /\ burst'.first + left'[g] <= MaxWait
                      /\ \/ burst'.last + left'[g] >= Debounce
                         \/ burst'.first + left'[g] >= MaxWait
    BY DEF BurstInv
  <2>1. callback[g] = "armed" /\ burst.open /\ syncTimer = g /\ g # 0
    BY <1>1 DEF SchedulerInv, TimerInv, Gens
  <2>2. left'[g] = left[g] - 1 /\ left[g] \in 1 .. Debounce
    BY <1>1, <2>1 DEF SchedulerInv, SchedulerTypeOK
  <2>3. burst'.first = burst.first + 1 /\ burst'.last = burst.last + 1
    BY <2>1 DEF Tick, SchedulerInv, SchedulerTypeOK
  <2>4. /\ syncFirst = burst.first
        /\ burst.first + left[g] <= MaxWait
        /\ burst.last + left[g] >= Debounce \/ burst.first + left[g] >= MaxWait
    BY <2>1 DEF SchedulerInv, BurstInv
  <2>5. burst.first \in Nat /\ burst.last \in Nat
    BY DEF SchedulerInv, SchedulerTypeOK
  <2>6. syncFirst' = syncFirst + 1
    BY <2>1, <2>2, <2>4, <2>5 DEF Tick
  <2> QED
    BY <1>1, <2>1, <2>2, <2>3, <2>4, <2>5, <2>6
<1>8. FlagInv'
  BY <1>1 DEF SchedulerInv, FlagInv, OneLoop, Owner, AskCarried
<1> QED
  BY <1>5, <1>6, <1>7, <1>8 DEF SchedulerInv

LEMMA NextSchedulerInv == SchedulerInv /\ [SchedulerNext]_schedulerVars => SchedulerInv'
<1> SUFFICES ASSUME SchedulerInv, [SchedulerNext]_schedulerVars PROVE SchedulerInv'
  OBVIOUS
<1>1. CASE SyncSchedule
  BY <1>1, ScheduleSchedulerInv
<1>2. ASSUME NEW g \in Gens, CallbackStep(g) PROVE SchedulerInv'
  BY <1>2, WakeSchedulerInv, FireSchedulerInv, QueueSchedulerInv, StartSchedulerInv
     DEF CallbackStep
<1>3. ASSUME NEW g \in Gens, LoopStep(g) PROVE SchedulerInv'
  BY <1>3, LoopSchedulerInv
<1>4. CASE Tick
  BY <1>4, TickSchedulerInv
<1>5. CASE UNCHANGED schedulerVars
  BY <1>5 DEF schedulerVars, SchedulerInv, SchedulerTypeOK, TimerInv, BurstInv, FlagInv,
              OneLoop, Owner, AskCarried
<1> QED
  BY <1>1, <1>2, <1>3, <1>4, <1>5 DEF SchedulerNext

\* The invariant holds in every reachable state, whatever the constants.
THEOREM SchedulerInvariant == SchedulerSpec => []SchedulerInv
  BY InitSchedulerInv, NextSchedulerInv, PTL DEF SchedulerSpec

\* The state of the scheduler is always well formed.
THEOREM SchedulerType == SchedulerSpec => []SchedulerTypeOK
<1>1. SchedulerInv => SchedulerTypeOK
  BY DEF SchedulerInv
<1> QED
  BY <1>1, SchedulerInvariant, PTL

\* At most one loop takes passes, for any number of asks (syncLoop).
THEOREM SchedulerOneLoop == SchedulerSpec => []OneLoop
<1>1. SchedulerInv => OneLoop
  BY DEF SchedulerInv, FlagInv
<1> QED
  BY <1>1, SchedulerInvariant, PTL

\* No ask is ever left without something that will serve it (syncLoop's
\* re-check after clearing the running flag).
THEOREM SchedulerAskCarried == SchedulerSpec => []AskCarried
<1>1. SchedulerInv => AskCarried
  BY DEF SchedulerInv, FlagInv
<1> QED
  BY <1>1, SchedulerInvariant, PTL

\* A storm of asks does not postpone the pass past the cap (syncSchedule).
THEOREM SchedulerStormBounded == SchedulerSpec => []StormBounded
<1>1. SchedulerInv => StormBounded
  <2> SUFFICES ASSUME SchedulerInv, burst.open PROVE burst.first <= MaxWait
    BY DEF StormBounded
  <2>1. syncTimer \in Gens
    BY DEF SchedulerInv, TimerInv, SchedulerTypeOK, Gens
  <2>2. burst.first + left[syncTimer] <= MaxWait /\ left[syncTimer] \in Nat
    BY <2>1 DEF SchedulerInv, BurstInv, SchedulerTypeOK
  <2> QED
    BY <2>2 DEF SchedulerInv, SchedulerTypeOK
<1> QED
  BY <1>1, SchedulerInvariant, PTL

\* A burst is only taken once it settled or reached the cap: the generation
\* check keeps an overtaken callback from cutting it short (syncFire).
THEOREM SchedulerBurstSettled == SchedulerSpec => BurstSettled
<1>1. SchedulerInv /\ [SchedulerNext]_schedulerVars =>
        [(burst.open /\ ~burst'.open)
           => (burst.last >= Debounce \/ burst.first >= MaxWait)]_schedulerVars
  <2> SUFFICES ASSUME SchedulerInv, SchedulerNext, burst.open, ~burst'.open
               PROVE  burst.last >= Debounce \/ burst.first >= MaxWait
    OBVIOUS
  <2>1. PICK g \in Gens : callback[g] = "woken" /\ Current(g) /\ SyncFire(g)
    <3>1. ~SyncSchedule
      BY DEF SyncSchedule
    <3>2. ~Tick
      BY DEF Tick, SchedulerInv, SchedulerTypeOK
    <3>3. ASSUME NEW g \in Gens PROVE ~(Wake(g) \/ SyncQueue(g) \/ StartLoop(g) \/ LoopStep(g))
      BY DEF Wake, SyncQueue, StartLoop, LoopStep, Swap, EndPass, ClearRunning, Check, Retake
    <3>4. PICK g \in Gens : SyncFire(g)
      BY <3>1, <3>2, <3>3 DEF SchedulerNext, CallbackStep
    <3> QED
      BY <3>4 DEF SyncFire
  <2>2. syncTimer = g
    BY <2>1 DEF Current, SchedulerInv, TimerInv
  <2>3. left[g] = 0 /\ (burst.last + left[g] >= Debounce \/ burst.first + left[g] >= MaxWait)
    BY <2>1, <2>2 DEF SchedulerInv, BurstInv
  <2> QED
    BY <2>3 DEF SchedulerInv, SchedulerTypeOK
<1> QED
  BY <1>1, SchedulerInvariant, PTL DEF SchedulerSpec, BurstSettled

\* What the scheduler keeps at every step, for every debounce, cap and number
\* of asks.
THEOREM SchedulerSafety == SchedulerSpec => []SchedulerSafe
  BY SchedulerType, SchedulerOneLoop, SchedulerAskCarried, SchedulerStormBounded,
     PTL DEF SchedulerSafe

\* The safety half of the refinement: every step of the timers, callbacks and
\* loops is a step of BackgroundPass or leaves its view unchanged.
THEOREM SchedulerRefines == SchedulerSpec => Promise!Spec
<1>1. SchedulerInit => Promise!Init
  BY DEF SchedulerInit, Promise!Init, Passing
<1>2. SchedulerInv /\ [SchedulerNext]_schedulerVars => [Promise!Next]_(Promise!vars)
  <2> SUFFICES ASSUME SchedulerInv, SchedulerNext PROVE [Promise!Next]_(Promise!vars)
    BY DEF schedulerVars, Promise!vars, Passing
  <2>1. CASE SyncSchedule
    <3>1. /\ syncGen + 1 \in Gens /\ waiting' = waiting \union {syncGen + 1}
          /\ syncGen + 1 \notin waiting /\ loop' = loop
      BY <2>1 DEF SyncSchedule, SchedulerInv, SchedulerTypeOK, TimerInv, Gens
    <3>2. Passing' <=> Passing
      BY <3>1 DEF Passing
    <3>3. Promise!Ask(syncGen + 1)
      BY <3>1, <3>2 DEF Promise!Ask
    <3> QED
      BY <3>1, <3>3 DEF Promise!Next
  <2>2. ASSUME NEW g \in Gens, CallbackStep(g) PROVE UNCHANGED Promise!vars
    <3>1. waiting' = waiting
      BY <2>2 DEF CallbackStep, Wake, SyncFire, SyncQueue, StartLoop
    <3>2. \A h \in Gens : loop'[h] = "pass" <=> loop[h] = "pass"
      BY <2>2 DEF CallbackStep, Wake, SyncFire, SyncQueue, StartLoop, Wins,
                  SchedulerInv, SchedulerTypeOK, FlagInv, Owner
    <3> QED
      BY <3>1, <3>2 DEF Promise!vars, Passing
  <2>3. ASSUME NEW g \in Gens, LoopStep(g) PROVE [Promise!Next]_(Promise!vars)
    <3>1. CASE Swap(g) /\ syncQueued
      <4>1. waiting' = {} /\ loop'[g] = "pass" /\ loop[g] = "swap"
        BY <3>1 DEF Swap, SchedulerInv, SchedulerTypeOK
      <4>2. ~Passing /\ Passing'
        BY <4>1 DEF Passing, SchedulerInv, FlagInv, OneLoop, Owner
      <4> QED
        BY <4>1, <4>2 DEF Promise!Next, Promise!Start
    <3>2. CASE EndPass(g)
      <4>1. waiting' = waiting /\ loop[g] = "pass" /\ loop' = [loop EXCEPT ![g] = "swap"]
        BY <3>2 DEF EndPass
      <4>2. Passing /\ ~Passing'
        BY <4>1 DEF Passing, SchedulerInv, FlagInv, OneLoop, Owner, SchedulerTypeOK
      <4> QED
        BY <4>1, <4>2 DEF Promise!Next, Promise!End
    <3>3. CASE (Swap(g) /\ ~syncQueued) \/ ClearRunning(g) \/ Check(g) \/ Retake(g)
      <4>1. waiting' = waiting
        BY <3>3 DEF Swap, ClearRunning, Check, Retake
      <4>2. \A h \in Gens : loop'[h] = "pass" <=> loop[h] = "pass"
        BY <3>3 DEF Swap, ClearRunning, Check, Retake, NothingLeft, SchedulerInv, SchedulerTypeOK
      <4> QED
        BY <4>1, <4>2 DEF Promise!vars, Passing
    <3> QED
      BY <2>3, <3>1, <3>2, <3>3 DEF LoopStep
  <2>4. CASE Tick
    BY <2>4 DEF Tick, Promise!vars, Passing
  <2> QED
    BY <2>1, <2>2, <2>3, <2>4 DEF SchedulerNext
<1> QED
  BY <1>1, <1>2, SchedulerInvariant, PTL DEF SchedulerSpec, Promise!Spec

(***************************************************************************)
(* The folder pass                                                         *)
(***************************************************************************)

(***************************************************************************)
(* Type correctness                                                        *)
(***************************************************************************)

\* The value key is there wherever its moment is about to be written.
ValueInv ==
  \A d \in Devices :
    /\ writer[d] = "touch" => setting[d].value # 0
    /\ pass[d].at \in {"apply", "applied"} => pass[d].doc.setting.value # 0
    /\ pass[d].at = "applied" => setting[d].value # 0

TInv == TypeOK /\ ValueInv

LEMMA EmptyTypes ==
  /\ NoSetting \in Setting
  /\ EmptyDocument \in Document
  /\ NoFile \in File
  /\ Garbled \in File
  /\ \A document \in Document : Holding(document) \in File
<1>1. NoSetting \in Setting
  BY DEF NoSetting, Setting, Keys, Stamp
<1>2. EmptyDocument \in Document
  BY <1>1 DEF EmptyDocument, Document, Stamp
<1> QED
  BY <1>1, <1>2 DEF NoFile, Garbled, Holding, File

LEMMA IdleType == Idle \in Passes
BY EmptyTypes DEF Idle, Passes, PassStep, Setting

LEMMA UsedType ==
  ASSUME used \in Uses
  PROVE  /\ used.orders < MaxOrders => [used EXCEPT !.orders = @ + 1] \in Uses
         /\ used.settings < MaxSettings => [used EXCEPT !.settings = @ + 1] \in Uses
         /\ used.restores < MaxRestores => [used EXCEPT !.restores = @ + 1] \in Uses
         /\ used.crashes < MaxCrashes => [used EXCEPT !.crashes = @ + 1] \in Uses
         /\ used.faults < MaxFaults => [used EXCEPT !.faults = @ + 1] \in Uses
BY DEF Uses

LEMMA EditType ==
  ASSUME TInv, NEW d \in Devices, Edit(d)
  PROVE  TInv'
<1>1. CASE SaveOrder(d)
  <2>1. used' \in Uses
    BY <1>1, UsedType DEF SaveOrder, TInv, TypeOK
  <2> QED
    BY <1>1, <2>1 DEF SaveOrder, TInv, TypeOK, ValueInv, Stamp
<1>2. CASE WriteValue(d)
  <2>1. setting' \in [Devices -> Setting]
    BY <1>2 DEF WriteValue, TInv, TypeOK, Setting, Keys, Stamp
  <2>2. ValueInv'
    BY <1>2 DEF WriteValue, TInv, TypeOK, ValueInv, Setting, Keys, Stamp
  <2>3. used' \in Uses
    BY <1>2, UsedType DEF WriteValue, TInv, TypeOK
  <2> QED
    BY <1>2, <2>1, <2>2, <2>3 DEF WriteValue, TInv, TypeOK, Stamp
<1>3. CASE Touch(d)
  <2>1. setting' \in [Devices -> Setting]
    BY <1>3 DEF Touch, TInv, TypeOK, ValueInv, Setting, Keys, Stamp
  <2>2. ValueInv'
    BY <1>3 DEF Touch, TInv, TypeOK, ValueInv, Setting, Keys, Stamp
  <2> QED
    BY <1>3, <2>1, <2>2 DEF Touch, TInv, TypeOK, Stamp
<1> QED
  BY <1>1, <1>2, <1>3 DEF Edit

LEMMA FailType ==
  ASSUME TInv, NEW d \in Devices, Fail(d)
  PROVE  /\ pass' \in [Devices -> Passes]
         /\ status' \in [Devices -> Statuses]
         /\ pass' = [pass EXCEPT ![d] = Idle]
<1>1. Idle \in Passes
  BY IdleType
<1>2. Failed(status[d]) \in Statuses
  BY DEF Failed, Statuses, TInv, TypeOK
<1> QED
  BY <1>1, <1>2 DEF Fail, TInv, TypeOK

LEMMA IdleKeepsValueInv ==
  ASSUME TInv, NEW d \in Devices, pass' = [pass EXCEPT ![d] = Idle],
         UNCHANGED <<setting, writer>>
  PROVE  ValueInv'
BY DEF TInv, TypeOK, ValueInv, Idle

LEMMA FaultType ==
  ASSUME TInv, NEW d \in Devices, Fault(d)
  PROVE  TInv'
<1>1. used' \in Uses
  BY UsedType DEF Fault, ReadFails, ReadForced, WriteFails, TInv, TypeOK
<1>2. CASE ReadFails(d) \/ WriteFails(d)
  <2>1. Fail(d) /\ UNCHANGED <<stores, file, tmp, exported, now, exposed>>
    BY <1>2 DEF ReadFails, WriteFails
  <2>2. ValueInv'
    BY <2>1, FailType, IdleKeepsValueInv DEF stores
  <2> QED
    BY <1>1, <2>1, <2>2, FailType DEF stores, TInv, TypeOK
<1>3. CASE ReadForced(d)
  <2>1. pass' \in [Devices -> Passes]
    BY <1>3, IdleType DEF ReadForced, Passes, PassStep, TInv, TypeOK
  <2>2. ValueInv'
    BY <1>3 DEF ReadForced, Idle, TInv, TypeOK, ValueInv, stores
  <2> QED
    BY <1>1, <1>3, <2>1, <2>2 DEF ReadForced, stores, TInv, TypeOK
<1> QED
  BY <1>2, <1>3 DEF Fault

LEMMA RestoreType ==
  ASSUME TInv, NEW d \in Devices, NEW doc \in Document, Restore(d, doc)
  PROVE  TInv'
<1>1. used' \in Uses
  BY UsedType DEF Restore, TInv, TypeOK
<1>2. order' \in [Devices -> Stamp]
  BY DEF Restore, TInv, TypeOK, Document
<1>3. orderDirty' \in [Devices -> BOOLEAN] /\ settingDirty' \in [Devices -> BOOLEAN]
  BY DEF Restore, TInv, TypeOK
<1>4. setting' \in [Devices -> Setting]
  BY DEF Restore, TInv, TypeOK, Document
<1>5. ValueInv'
  BY DEF Restore, TInv, TypeOK, ValueInv
<1> QED
  BY <1>1, <1>2, <1>3, <1>4, <1>5 DEF Restore, TInv, TypeOK

LEMMA OtherType ==
  ASSUME TInv, NEW d \in Devices,
         SyncReload(d) \/ ImportBackup(d) \/ ExportBackup(d) \/ Crash(d)
  PROVE  TInv'
<1>1. CASE SyncReload(d) \/ ImportBackup(d)
  <2>1. file.doc \in Document /\ exported \in Document
    BY DEF TInv, TypeOK, File
  <2> QED
    BY <1>1, <2>1, RestoreType DEF SyncReload, ImportBackup
<1>2. CASE ExportBackup(d)
  <2>1. exported' \in Document
    BY <1>2, EmptyTypes DEF ExportBackup, Stamped, Document, Setting, Keys, Stamp, TInv, TypeOK
  <2> QED
    BY <1>2, <2>1 DEF ExportBackup, stores, TInv, TypeOK, ValueInv
<1>3. CASE Crash(d)
  <2>1. used' \in Uses /\ Idle \in Passes
    BY <1>3, UsedType, IdleType DEF Crash, TInv, TypeOK
  <2>2. ValueInv'
    BY <1>3 DEF Crash, Idle, TInv, TypeOK, ValueInv
  <2>3. exposed' \subseteq Devices
    BY <1>3 DEF Crash, TInv, TypeOK
  <2> QED
    BY <1>3, <2>1, <2>2, <2>3 DEF Crash, TInv, TypeOK
<1> QED
  BY <1>1, <1>2, <1>3

\* Moving the pass of d on to a step that writes no setting.
LEMMA GotoType ==
  ASSUME TInv, NEW d \in Devices, NEW step \in PassStep \ {"apply", "applied"},
         Goto(d, step), UNCHANGED <<setting, writer>>
  PROVE  pass' \in [Devices -> Passes] /\ ValueInv'
<1>1. pass' \in [Devices -> Passes]
  BY DEF Goto, Passes, TInv, TypeOK
<1>2. ValueInv'
  BY DEF Goto, Passes, TInv, TypeOK, ValueInv
<1> QED
  BY <1>1, <1>2

LEMMA BeginType ==
  ASSUME TInv, NEW d \in Devices, Begin(d)
  PROVE  TInv'
<1>1. pass' \in [Devices -> Passes] /\ ValueInv'
  BY GotoType DEF Begin, PassStep, stores
<1> QED
  BY <1>1 DEF Begin, stores, TInv, TypeOK

\* The steps that change nothing but where the pass is and what it holds.
LEMMA ReadingType ==
  ASSUME TInv, NEW d \in Devices, Read(d) \/ ReadValue(d) \/ ReadStamp(d)
  PROVE  TInv'
<1>1. UNCHANGED <<stores, status, file, tmp, exported, now, used, exposed>>
  BY DEF Read, ReadValue, ReadStamp
<1>2. pass[d] \in Passes /\ setting[d] \in Setting /\ file \in File
  BY DEF TInv, TypeOK
<1> SUFFICES pass' \in [Devices -> Passes] /\ ValueInv'
  BY <1>1 DEF stores, TInv, TypeOK
<1>3. CASE Read(d)
  <2>1. pass' \in [Devices -> Passes]
    BY <1>2, <1>3, EmptyTypes DEF Read, Passes, PassStep, File, Setting, TInv, TypeOK
  <2>2. ValueInv'
    BY <1>1, <1>3 DEF Read, stores, TInv, TypeOK, ValueInv
  <2> QED
    BY <2>1, <2>2
<1>4. CASE ReadValue(d)
  <2>1. pass' \in [Devices -> Passes]
    BY <1>2, <1>4 DEF ReadValue, Passes, PassStep, Setting, Keys, TInv, TypeOK
  <2>2. ValueInv'
    BY <1>1, <1>4 DEF ReadValue, Passes, stores, TInv, TypeOK, ValueInv
  <2> QED
    BY <2>1, <2>2
<1>5. CASE ReadStamp(d)
  <2> DEFINE local == Stamped(pass[d].local.value, setting[d].at)
             out == Union(pass[d].doc.setting, local)
             next == IF d \notin Importing THEN "compare"
                     ELSE IF out # local THEN "apply" ELSE "synced"
  <2>1. local \in Setting
    BY <1>2 DEF Stamped, NoSetting, Passes, Setting, Keys, Stamp
  <2>2. out \in Setting /\ (out # local => out.value # 0)
    BY <1>2, <2>1 DEF Union, Passes, Document, Setting, Keys, Stamp
  <2>3. next \in PassStep /\ next # "applied" /\ (next = "apply" => out.value # 0)
    BY <2>2 DEF PassStep
  <2>4. pass' = [pass EXCEPT ![d].local = NoSetting, ![d].doc.setting = out, ![d].at = next]
    BY <1>5 DEF ReadStamp
  <2> HIDE DEF local, out, next
  <2>5. pass' \in [Devices -> Passes]
    <3>1. NoSetting \in Keys
      BY DEF NoSetting, Keys, Stamp
    <3> QED
      BY <1>2, <2>2, <2>3, <2>4, <3>1 DEF Passes, Document, TInv, TypeOK
  <2>6. ValueInv'
    BY <1>1, <2>3, <2>4 DEF Passes, Document, stores, TInv, TypeOK, ValueInv
  <2> QED
    BY <2>5, <2>6
<1> QED
  BY <1>3, <1>4, <1>5

LEMMA MergeOrderType ==
  ASSUME TInv, NEW d \in Devices, MergeOrder(d)
  PROVE  TInv'
<1> DEFINE out == MergedOrder(pass[d].doc.order, order[d])
<1>1. pass[d] \in Passes /\ out \in Stamp
  BY DEF MergedOrder, Later, Passes, Document, TInv, TypeOK
<1>2. /\ order' = IF d \in Importing THEN [order EXCEPT ![d] = out] ELSE order
      /\ pass' = [pass EXCEPT ![d].doc.order = out, ![d].at = "value"]
      /\ orderDirty' = [orderDirty EXCEPT ![d] = FALSE]
      /\ UNCHANGED <<setting, settingDirty, writer, status, file, tmp,
                     exported, now, used, exposed>>
  BY DEF MergeOrder
<1> HIDE DEF out
<1>3. pass' \in [Devices -> Passes]
  BY <1>1, <1>2 DEF Passes, Document, PassStep, TInv, TypeOK
<1>4. ValueInv'
  BY <1>1, <1>2 DEF Passes, Document, TInv, TypeOK, ValueInv
<1>5. order' \in [Devices -> Stamp] /\ orderDirty' \in [Devices -> BOOLEAN]
  BY <1>1, <1>2 DEF TInv, TypeOK
<1> QED
  BY <1>2, <1>3, <1>4, <1>5 DEF TInv, TypeOK

\* The steps that write the setting or its mark.
LEMMA SettingStepType ==
  ASSUME TInv, NEW d \in Devices,
         ApplyValue(d) \/ ApplyStamp(d) \/ SectionSynced(d) \/ Clear(d)
  PROVE  TInv'
<1>1. pass[d] \in Passes /\ pass[d].doc.setting \in Setting /\ setting[d] \in Setting
  BY DEF Passes, Document, TInv, TypeOK
<1>2. CASE ApplyValue(d)
  <2>1. setting' \in [Devices -> Setting]
    BY <1>1, <1>2 DEF ApplyValue, Setting, Keys, Stamp, TInv, TypeOK, ValueInv
  <2>2. pass' \in [Devices -> Passes]
    BY <1>2 DEF ApplyValue, Goto, Passes, PassStep, TInv, TypeOK
  <2>3. ValueInv'
    BY <1>1, <1>2 DEF ApplyValue, Goto, Passes, Setting, Keys, TInv, TypeOK, ValueInv
  <2> QED
    BY <1>2, <2>1, <2>2, <2>3 DEF ApplyValue, TInv, TypeOK
<1>3. CASE ApplyStamp(d)
  <2>1. setting' \in [Devices -> Setting]
    BY <1>1, <1>3 DEF ApplyStamp, Setting, Keys, Stamp, TInv, TypeOK, ValueInv
  <2>2. pass' \in [Devices -> Passes]
    BY <1>3 DEF ApplyStamp, Goto, Passes, PassStep, TInv, TypeOK
  <2>3. ValueInv'
    BY <1>1, <1>3 DEF ApplyStamp, Goto, Passes, Setting, Keys, TInv, TypeOK, ValueInv
  <2> QED
    BY <1>3, <2>1, <2>2, <2>3 DEF ApplyStamp, TInv, TypeOK
<1>4. CASE SectionSynced(d)
  <2>1. pass' \in [Devices -> Passes] /\ ValueInv'
    BY <1>4, GotoType DEF SectionSynced, PassStep
  <2> QED
    BY <1>4, <2>1 DEF SectionSynced, TInv, TypeOK
<1>5. CASE Clear(d)
  <2>1. pass' \in [Devices -> Passes] /\ ValueInv'
    BY <1>5, IdleType, IdleKeepsValueInv DEF Clear, TInv, TypeOK
  <2> QED
    BY <1>5, <2>1 DEF Clear, MarksAtEnd, TInv, TypeOK
<1> QED
  BY <1>2, <1>3, <1>4, <1>5

LEMMA ReplacedType == TInv => Replaced \in [Devices -> Statuses]
BY DEF Replaced, Statuses, TInv, TypeOK

\* The steps that look at the file, write it, or record what is there.
LEMMA FileStepType ==
  ASSUME TInv, NEW d \in Devices,
         Compare(d) \/ WriteTmp(d) \/ Rename(d) \/ Record(d)
  PROVE  TInv'
<1>1. pass[d] \in Passes /\ pass[d].doc \in Document
  BY DEF Passes, TInv, TypeOK
<1>2. UNCHANGED <<stores, exported, now, used>>
  BY DEF Compare, WriteTmp, Rename, Record
<1> SUFFICES /\ pass' \in [Devices -> Passes] /\ ValueInv'
             /\ status' \in [Devices -> Statuses]
             /\ file' \in File /\ tmp' \in File
             /\ exposed' \subseteq Devices
  BY <1>2 DEF stores, TInv, TypeOK
<1>3. ASSUME Fail(d)
      PROVE  /\ pass' \in [Devices -> Passes] /\ ValueInv'
             /\ status' \in [Devices -> Statuses]
  BY <1>2, <1>3, FailType, IdleKeepsValueInv DEF stores
<1>4. ASSUME NEW step \in {"record", "write", "rename", "clear"}, Goto(d, step)
      PROVE  pass' \in [Devices -> Passes] /\ ValueInv'
  <2>1. step \in PassStep \ {"apply", "applied"}
    BY <1>4 DEF PassStep
  <2> QED
    BY <1>2, <1>4, <2>1, GotoType DEF stores
<1>5. CASE Compare(d)
  BY <1>3, <1>4, <1>5 DEF Compare, TInv, TypeOK
<1>6. CASE WriteTmp(d)
  BY <1>1, <1>4, <1>6, EmptyTypes DEF WriteTmp, RacedBy, TInv, TypeOK
<1>7. CASE Rename(d)
  BY <1>3, <1>4, <1>7, EmptyTypes, ReplacedType DEF Rename, RacedBy, TInv, TypeOK
<1>8. CASE Record(d)
  <2>1. status' \in [Devices -> Statuses]
    BY <1>8 DEF Record, Statuses, TInv, TypeOK
  <2>2. pass' \in [Devices -> Passes]
    BY <1>8, IdleType DEF Record, Passes, PassStep, TInv, TypeOK
  <2>3. ValueInv'
    BY <1>8 DEF Record, Idle, stores, TInv, TypeOK, ValueInv
  <2> QED
    BY <1>8, <2>1, <2>2, <2>3 DEF Record, stores, TInv, TypeOK
<1> QED
  BY <1>5, <1>6, <1>7, <1>8

LEMMA TypeStep == TInv /\ [Next]_vars => TInv'
<1> SUFFICES ASSUME TInv, [Next]_vars PROVE TInv'
  OBVIOUS
<1>1. CASE \E d \in Devices : Edit(d)
  BY <1>1, EditType
<1>2. CASE \E d \in Devices : AutomaticPass(d) \/ AskedPass(d)
  BY <1>2, BeginType DEF AutomaticPass, AskedPass
<1>3. CASE \E d \in Devices : PassStepOf(d)
  BY <1>3, ReadingType, MergeOrderType, SettingStepType, FileStepType DEF PassStepOf
<1>4. CASE \E d \in Devices : Fault(d)
  BY <1>4, FaultType
<1>5. CASE \E d \in Devices : \/ SyncReload(d) \/ ImportBackup(d) \/ ExportBackup(d)
                              \/ Crash(d)
  BY <1>5, OtherType
<1>6. CASE Spoil
  <2>1. used' \in Uses /\ file' \in File /\ status' \in [Devices -> Statuses]
    BY <1>6, UsedType, EmptyTypes, ReplacedType DEF Spoil, TInv, TypeOK
  <2> QED
    BY <1>6, <2>1 DEF Spoil, stores, TInv, TypeOK, ValueInv
<1>7. CASE UNCHANGED vars
  BY <1>7 DEF vars, TInv, TypeOK, ValueInv
<1> QED
  BY <1>1, <1>2, <1>3, <1>4, <1>5, <1>6, <1>7 DEF Next

LEMMA TypeInit == Init => TInv
<1>1. NeverSynced \in Statuses
  BY DEF NeverSynced, Statuses
<1>2. [orders |-> 0, settings |-> 0, restores |-> 0, crashes |-> 0, faults |-> 0] \in Uses
  BY DEF Uses
<1> QED
  BY <1>1, <1>2, EmptyTypes, IdleType DEF Init, TInv, TypeOK, ValueInv, Stamp, Idle

\* The type invariant, for any number of devices: no document, stored, staged
\* or merged, carries the moment of a setting without its value.
THEOREM FolderType == Spec => []TypeOK
<1>1. TInv => TypeOK
  BY DEF TInv
<1> QED
  BY <1>1, TypeInit, TypeStep, PTL DEF Spec

(***************************************************************************)
(* No pass takes an order back                                             *)
(***************************************************************************)

\* Reading the setting leaves the merged order alone.
LEMMA ReadingKeepsOrder ==
  ASSUME TypeOK, NEW d \in Devices, ReadValue(d) \/ ReadStamp(d)
  PROVE  \A e \in Devices : pass'[e].doc.order = pass[e].doc.order
<1>1. CASE ReadValue(d)
  BY <1>1 DEF ReadValue, TypeOK, Passes, Document
<1>2. CASE ReadStamp(d)
  <2>1. PICK out, next :
          pass' = [pass EXCEPT ![d].local = NoSetting, ![d].doc.setting = out, ![d].at = next]
    BY <1>2 DEF ReadStamp
  <2> QED
    BY <2>1 DEF TypeOK, Passes, Document
<1> QED
  BY <1>1, <1>2

\* Orders and documents only ever hold moments that have passed.
LEMMA PastStep ==
  ASSUME TypeOK, TypeOK', PastInv, [Next]_vars
  PROVE  PastInv'
<1>1. /\ now \in Nat
      /\ \A d \in Devices : order[d] \in Nat /\ pass[d].doc.order \in Nat
      /\ file.doc.order \in Nat /\ tmp.doc.order \in Nat /\ exported.order \in Nat
  BY DEF TypeOK, Passes, File, Document, Stamp
<1>2. ASSUME NEW d \in Devices, Fail(d), UNCHANGED <<order, file, tmp, exported, now>>
      PROVE  PastInv'
  BY <1>1, <1>2 DEF Fail, Idle, EmptyDocument, PastInv, TypeOK
<1>3. ASSUME NEW d \in Devices, NEW step, Goto(d, step),
             UNCHANGED <<order, exported, now>>,
             file' = file \/ file' = tmp,
             tmp' = tmp \/ tmp' = NoFile \/ tmp' = Holding(pass[d].doc)
      PROVE  PastInv'
  <2>1. \A e \in Devices : pass'[e].doc = pass[e].doc
    BY <1>3 DEF Goto, TypeOK, Passes
  <2>2. file'.doc.order <= now
    BY <1>3 DEF PastInv
  <2>3. tmp'.doc.order <= now
    BY <1>1, <1>3 DEF PastInv, NoFile, EmptyDocument, Holding
  <2> QED
    BY <1>3, <2>1, <2>2, <2>3 DEF PastInv
<1>4. CASE \E d \in Devices : Edit(d)
  BY <1>1, <1>4 DEF Edit, SaveOrder, WriteValue, Touch, PastInv, TypeOK
<1>5. CASE \E d \in Devices : AutomaticPass(d) \/ AskedPass(d)
  BY <1>3, <1>5 DEF AutomaticPass, AskedPass, Begin, stores
<1>6. ASSUME NEW d \in Devices, Read(d) PROVE PastInv'
  BY <1>1, <1>6 DEF Read, stores, PastInv, TypeOK
<1>7. ASSUME NEW d \in Devices, MergeOrder(d) PROVE PastInv'
  <2> DEFINE out == MergedOrder(pass[d].doc.order, order[d])
  <2>1. out \in Nat /\ out <= now
    BY <1>1 DEF MergedOrder, Later, PastInv
  <2>2. /\ order' = IF d \in Importing THEN [order EXCEPT ![d] = out] ELSE order
        /\ pass' = [pass EXCEPT ![d].doc.order = out, ![d].at = "value"]
        /\ UNCHANGED <<file, tmp, exported, now>>
    BY <1>7 DEF MergeOrder
  <2> HIDE DEF out
  <2>3. \A e \in Devices : pass'[e].doc.order <= now
    BY <2>1, <2>2 DEF PastInv, TypeOK, Passes, Document
  <2> QED
    BY <2>1, <2>2, <2>3 DEF PastInv, TypeOK
<1>8. ASSUME NEW d \in Devices, ReadValue(d) \/ ReadStamp(d) PROVE PastInv'
  <2>1. \A e \in Devices : pass'[e].doc.order = pass[e].doc.order
    BY <1>8, ReadingKeepsOrder
  <2> QED
    BY <1>8, <2>1 DEF ReadValue, ReadStamp, stores, PastInv
<1>9. ASSUME NEW d \in Devices, ApplyValue(d) \/ ApplyStamp(d) \/ SectionSynced(d)
      PROVE  PastInv'
  BY <1>3, <1>9 DEF ApplyValue, ApplyStamp, SectionSynced
<1>10. ASSUME NEW d \in Devices, Compare(d) \/ WriteTmp(d) \/ Rename(d)
       PROVE  PastInv'
  BY <1>2, <1>3, <1>10 DEF Compare, WriteTmp, Rename, stores
<1>11. ASSUME NEW d \in Devices, Record(d) \/ Clear(d) PROVE PastInv'
  BY <1>1, <1>11 DEF Record, Clear, Idle, EmptyDocument, stores, PastInv, TypeOK
<1>12. CASE \E d \in Devices : Fault(d)
  <2>1. ASSUME NEW d \in Devices, ReadForced(d) PROVE PastInv'
    BY <1>1, <2>1 DEF ReadForced, Idle, EmptyDocument, stores, PastInv, TypeOK
  <2> QED
    BY <1>2, <1>12, <2>1 DEF Fault, ReadFails, WriteFails, stores
<1>13. CASE \E d \in Devices : SyncReload(d) \/ ImportBackup(d)
  BY <1>1, <1>13 DEF SyncReload, ImportBackup, Restore, PastInv, TypeOK
<1>14. CASE \E d \in Devices : ExportBackup(d)
  BY <1>1, <1>14 DEF ExportBackup, stores, PastInv
<1>15. CASE \E d \in Devices : Crash(d)
  BY <1>1, <1>15 DEF Crash, Idle, EmptyDocument, PastInv, TypeOK
<1>16. CASE Spoil
  BY <1>1, <1>16 DEF Spoil, Garbled, EmptyDocument, stores, PastInv
<1>17. CASE UNCHANGED vars
  BY <1>17 DEF vars, PastInv
<1>18. CASE \E d \in Devices : PassStepOf(d)
  BY <1>6, <1>7, <1>8, <1>9, <1>10, <1>11, <1>18 DEF PassStepOf
<1> QED
  BY <1>4, <1>5, <1>12, <1>13, <1>14, <1>15, <1>16, <1>17, <1>18 DEF Next

\* Whatever is read, merged, written, lost and edited meanwhile, on however
\* many devices: the order of a shelf only goes back by an explicit restore.
THEOREM FolderOrderMonotone == Spec => OrderMonotone
<1> DEFINE Kept == \A d \in Devices : order'[d] < order[d] => used'.restores # used.restores
<1>1. ASSUME TypeOK, PastInv, Next PROVE Kept
  <2>1. now \in Nat /\ \A d \in Devices : order[d] \in Nat /\ pass[d].doc.order \in Nat
    BY <1>1 DEF TypeOK, Passes, Document, Stamp
  <2>2. CASE UNCHANGED order
    BY <2>1, <2>2
  <2>3. CASE \E d \in Devices : SaveOrder(d)
    BY <1>1, <2>1, <2>3 DEF SaveOrder, PastInv, TypeOK
  <2>4. CASE \E d \in Devices : MergeOrder(d)
    BY <1>1, <2>1, <2>4 DEF MergeOrder, MergedOrder, Later, TypeOK
  <2>5. CASE \E d \in Devices : SyncReload(d) \/ ImportBackup(d)
    <3>1. used.restores \in Nat /\ used'.restores = used.restores + 1
      BY <1>1, <2>5 DEF SyncReload, ImportBackup, Restore, TypeOK, Uses
    <3> QED
      BY <3>1
  <2> QED
    BY <1>1, <2>2, <2>3, <2>4, <2>5
       DEF Next, Edit, WriteValue, Touch, AutomaticPass, AskedPass, Begin, PassStepOf,
           Read, ReadValue, ReadStamp, ApplyValue, ApplyStamp, SectionSynced, Compare,
           WriteTmp, Rename, Record, Clear, Fault, ReadFails, ReadForced, WriteFails,
           ExportBackup, Crash, Spoil, stores
<1>2. ASSUME TypeOK, UNCHANGED vars PROVE Kept
  <2>1. \A d \in Devices : order[d] \in Nat
    BY <1>2 DEF TypeOK, Stamp
  <2> QED
    BY <1>2, <2>1 DEF vars
<1> DEFINE Inv == TInv /\ PastInv
<1>3. Init => Inv
  <2>1. Init => PastInv
    BY DEF Init, PastInv, Idle, NoFile, EmptyDocument
  <2> QED
    BY <2>1, TypeInit
<1>4. Inv /\ [Next]_vars => Inv'
  BY TypeStep, PastStep DEF TInv
<1>5. Inv /\ [Next]_vars => [Kept]_vars
  BY <1>1, <1>2 DEF TInv
<1> QED
  BY <1>3, <1>4, <1>5, PTL DEF Spec, OrderMonotone

(***************************************************************************)
(* Settled means in step                                                   *)
(***************************************************************************)

\* A step of one device that leaves file, tmp, order and marks of the others
\* alone can only disturb what is said of that device.
OthersKept(d) ==
  /\ UNCHANGED <<file, tmp, exposed>>
  /\ \A e \in Devices \ {d} : /\ pass'[e] = pass[e]
                            /\ order'[e] = order[e]
                            /\ orderDirty'[e] = orderDirty[e]
                            /\ status'[e] = status[e]

StepOf(d) ==
  /\ pass[d].at \in Merged /\ ~orderDirty[d] => Covered(d, pass[d].doc.order)
  /\ d \notin exposed =>
       /\ pass[d].at = "rename" => tmp.doc = pass[d].doc
       /\ pass[d].at = "record" /\ file.kind = "doc" => file.doc = pass[d].doc
       /\ (/\ pass[d].at \in {"idle", "clear"}
           /\ ~orderDirty[d]
           /\ status[d].ran /\ ~status[d].problem /\ status[d].seen
           /\ file.kind = "doc") => Covered(d, file.doc.order)

LEMMA StepInvSplits == StepInv <=> TypeOK /\ \A d \in Devices : StepOf(d)
BY DEF StepInv, CarriesInv, WritesInv, SeenInv, StepOf, TypeOK

LEMMA OthersStay ==
  ASSUME NEW d \in Devices, NEW e \in Devices \ {d}, OthersKept(d), StepOf(e)
  PROVE  StepOf(e)'
BY DEF OthersKept, StepOf, Covered

\* The user's writes and explicit restores: an order that changes is marked.
LEMMA EditSteps ==
  ASSUME StepInv, NEW d \in Devices,
         Edit(d) \/ SyncReload(d) \/ ImportBackup(d) \/ ExportBackup(d)
  PROVE  \A e \in Devices : StepOf(e)'
<1>1. OthersKept(d) /\ UNCHANGED <<pass, status, file, tmp, exposed>>
  BY DEF Edit, SaveOrder, WriteValue, Touch, SyncReload, ImportBackup, ExportBackup,
         Restore, OthersKept, stores, StepInv, TypeOK
<1>2. orderDirty'[d] \/ (order'[d] = order[d] /\ orderDirty'[d] = orderDirty[d])
  <2>1. CASE SaveOrder(d)
    BY <2>1 DEF SaveOrder, StepInv, TypeOK
  <2>2. CASE WriteValue(d) \/ Touch(d) \/ ExportBackup(d)
    BY <2>2 DEF WriteValue, Touch, ExportBackup, stores
  <2>3. ASSUME NEW doc, Restore(d, doc)
        PROVE  orderDirty'[d] \/ (order'[d] = order[d] /\ orderDirty'[d] = orderDirty[d])
    <3> DEFINE list == IF doc.order = 0 THEN order[d] ELSE doc.order
    <3>1. /\ order' = [order EXCEPT ![d] = list]
          /\ orderDirty' = [orderDirty EXCEPT ![d] = @ \/ list # order[d]]
      BY <2>3 DEF Restore
    <3> HIDE DEF list
    <3>2. order'[d] = list /\ orderDirty'[d] = (orderDirty[d] \/ list # order[d])
      BY <3>1 DEF StepInv, TypeOK
    <3>3. orderDirty[d] \in BOOLEAN
      BY DEF StepInv, TypeOK
    <3> QED
      BY <3>2, <3>3, Zenon
  <2> QED
    BY <2>1, <2>2, <2>3 DEF Edit, SyncReload, ImportBackup
<1>3. StepOf(d)
  BY StepInvSplits
<1>4. StepOf(d)'
  BY <1>1, <1>2, <1>3 DEF StepOf, Covered
<1> QED
  BY <1>1, <1>4, OthersStay, StepInvSplits

\* A pass that fails leaves its problem in the status, so nothing is claimed.
LEMMA FailSteps ==
  ASSUME StepInv, NEW d \in Devices, Fail(d),
         UNCHANGED <<order, orderDirty, file, tmp, exposed>>
  PROVE  \A e \in Devices : StepOf(e)'
<1>1. OthersKept(d)
  BY DEF Fail, OthersKept, StepInv, TypeOK
<1>2. pass'[d] = Idle /\ status'[d].problem
  BY DEF Fail, Failed, StepInv, TypeOK, Statuses
<1>3. StepOf(d)'
  BY <1>2 DEF StepOf, Idle, Merged
<1> QED
  BY <1>1, <1>3, OthersStay, StepInvSplits

LEMMA FaultSteps ==
  ASSUME StepInv, NEW d \in Devices, Fault(d)
  PROVE  \A e \in Devices : StepOf(e)'
<1>1. CASE ReadFails(d) \/ WriteFails(d)
  BY <1>1, FailSteps DEF ReadFails, WriteFails, stores
<1>2. CASE ReadForced(d)
  <2>1. OthersKept(d) /\ pass'[d].at = "order"
    BY <1>2 DEF ReadForced, Idle, OthersKept, stores, StepInv, TypeOK
  <2>2. StepOf(d)'
    BY <2>1 DEF StepOf, Merged
  <2> QED
    BY <2>1, <2>2, OthersStay, StepInvSplits
<1> QED
  BY <1>1, <1>2 DEF Fault

\* A restart drops the marks and the pass: with neither about nothing changes,
\* and otherwise nothing is claimed of the device until its next pass.
LEMMA CrashSteps ==
  ASSUME StepInv, NEW d \in Devices, Crash(d)
  PROVE  \A e \in Devices : StepOf(e)'
<1>1. /\ UNCHANGED <<order, status, file, tmp>>
      /\ pass'[d].at = "idle"
      /\ \A e \in Devices \ {d} : /\ pass'[e] = pass[e]
                                  /\ ~orderDirty'[e] => ~orderDirty[e]
                                  /\ e \notin exposed' => e \notin exposed
  BY DEF Crash, Idle, StepInv, TypeOK
<1>2. \/ d \in exposed'
      \/ ~orderDirty[d] /\ pass[d].at = "idle" /\ exposed' = exposed
  BY DEF Crash
<1>3. StepOf(d)'
  <2>1. CASE d \in exposed'
    BY <1>1, <2>1 DEF StepOf, Merged
  <2>2. CASE ~orderDirty[d] /\ pass[d].at = "idle" /\ exposed' = exposed
    BY <1>1, <2>2, StepInvSplits DEF StepOf, Covered, Merged
  <2> QED
    BY <1>2, <2>1, <2>2
<1>4. ASSUME NEW e \in Devices \ {d} PROVE StepOf(e)'
  BY <1>1, StepInvSplits DEF StepOf, Covered
<1> QED
  BY <1>3, <1>4

\* Until the order is merged nothing is claimed of a running pass.
LEMMA BeginSteps ==
  ASSUME StepInv, NEW d \in Devices, Begin(d) \/ Read(d)
  PROVE  \A e \in Devices : StepOf(e)'
<1>1. /\ UNCHANGED <<order, orderDirty, status, file, tmp>>
      /\ \A e \in Devices \ {d} : pass'[e] = pass[e] /\ (e \in exposed' <=> e \in exposed)
      /\ pass'[d].at \in {"read", "order"}
  BY DEF Begin, Read, Goto, stores, StepInv, TypeOK, Passes
<1>2. StepOf(d)'
  BY <1>1 DEF StepOf, Merged
<1>3. ASSUME NEW e \in Devices \ {d} PROVE StepOf(e)'
  BY <1>1, StepInvSplits DEF StepOf, Covered
<1> QED
  BY <1>2, <1>3

\* The merge leaves the store covered by what the pass carries.
LEMMA MergeSteps ==
  ASSUME StepInv, NEW d \in Devices, MergeOrder(d)
  PROVE  \A e \in Devices : StepOf(e)'
<1> DEFINE out == MergedOrder(pass[d].doc.order, order[d])
<1>1. order[d] \in Nat /\ pass[d].doc.order \in Nat
  BY DEF StepInv, TypeOK, Passes, Document, Stamp
<1>2. order[d] <= out
  BY <1>1 DEF MergedOrder, Later
<1>3. /\ order' = IF d \in Importing THEN [order EXCEPT ![d] = out] ELSE order
      /\ pass' = [pass EXCEPT ![d].doc.order = out, ![d].at = "value"]
      /\ OthersKept(d)
  BY DEF MergeOrder, OthersKept, StepInv, TypeOK
<1>4. out \in Nat
  BY <1>1 DEF MergedOrder, Later
<1> HIDE DEF out
<1>5. pass'[d].doc.order = out /\ pass'[d].at = "value"
  BY <1>3 DEF StepInv, TypeOK, Passes, Document
<1>6. order'[d] <= out /\ (d \in Importing => order'[d] = out)
  BY <1>1, <1>2, <1>3, <1>4 DEF StepInv, TypeOK
<1>7. StepOf(d)'
  BY <1>5, <1>6 DEF StepOf, Covered, Merged
<1> QED
  BY <1>3, <1>7, OthersStay, StepInvSplits

\* The settings' steps carry the merged order along.
LEMMA SettingSteps ==
  ASSUME StepInv, NEW d \in Devices,
         \/ ReadValue(d) \/ ReadStamp(d) \/ ApplyValue(d)
         \/ ApplyStamp(d) \/ SectionSynced(d)
  PROVE  \A e \in Devices : StepOf(e)'
<1>1. OthersKept(d) /\ UNCHANGED <<order, orderDirty>>
  BY DEF ReadValue, ReadStamp, ApplyValue, ApplyStamp, SectionSynced, Goto,
         OthersKept, stores, StepInv, TypeOK
<1>2. pass'[d].doc.order = pass[d].doc.order
  BY ReadingKeepsOrder
     DEF ApplyValue, ApplyStamp, SectionSynced, Goto, StepInv, TypeOK, Passes
<1>3. pass[d].at \in Merged /\ pass'[d].at \notin {"rename", "record", "idle", "clear"}
  BY DEF ReadValue, ReadStamp, ApplyValue, ApplyStamp, SectionSynced, Goto,
         Merged, StepInv, TypeOK, Passes
<1>4. StepOf(d)'
  BY <1>1, <1>2, <1>3, StepInvSplits DEF StepOf, Covered
<1> QED
  BY <1>1, <1>4, OthersStay, StepInvSplits

\* Comparing, writing and renaming: whoever else is between writing and its
\* stat is exposed from now on.
LEMMA WriteSteps ==
  ASSUME StepInv, NEW d \in Devices, Compare(d) \/ WriteTmp(d) \/ Rename(d)
  PROVE  \A e \in Devices : StepOf(e)'
<1>1. StepOf(d) /\ \A e \in Devices : StepOf(e)
  BY StepInvSplits
<1>2. UNCHANGED <<order, orderDirty>> /\ file \in File /\ tmp \in File
  BY DEF Compare, WriteTmp, Rename, stores, StepInv, TypeOK
<1>3. CASE Compare(d)
  <2>1. CASE Fail(d)
    BY <1>3, <2>1, FailSteps DEF Compare, stores
  <2>2. CASE ~Fail(d)
    <3>1. /\ OthersKept(d) /\ UNCHANGED status
          /\ pass[d].at = "compare" /\ pass'[d].doc = pass[d].doc
          /\ pass'[d].at = IF file = Holding(pass[d].doc) THEN "record" ELSE "write"
      BY <1>3, <2>2 DEF Compare, Goto, OthersKept, stores, StepInv, TypeOK, Passes
    <3>2. StepOf(d)'
      BY <1>1, <1>2, <3>1 DEF StepOf, OthersKept, Covered, Merged, Holding
    <3> QED
      BY <3>1, <3>2, OthersStay, <1>1
  <2> QED
    BY <2>1, <2>2
<1>4. CASE WriteTmp(d)
  <2>1. /\ UNCHANGED <<file, status>> /\ tmp'.doc = pass[d].doc
        /\ pass[d].at = "write" /\ pass'[d].doc = pass[d].doc /\ pass'[d].at = "rename"
        /\ \A e \in Devices \ {d} : pass'[e] = pass[e]
        /\ exposed' = exposed \union RacedBy(d)
    BY <1>4 DEF WriteTmp, Goto, Holding, stores, StepInv, TypeOK, Passes
  <2>2. StepOf(d)'
    BY <1>1, <1>2, <2>1 DEF StepOf, Covered, Merged
  <2>3. ASSUME NEW e \in Devices \ {d} PROVE StepOf(e)'
    BY <1>1, <1>2, <2>1 DEF StepOf, Covered, Merged, RacedBy
  <2> QED
    BY <2>2, <2>3
<1>5. CASE Rename(d)
  <2>1. CASE Fail(d)
    <3>1. UNCHANGED <<file, tmp, exposed>> \/ (tmp.kind = "doc" /\ Goto(d, "record"))
      BY <1>5 DEF Rename
    <3>2. ~Goto(d, "record")
      BY <2>1 DEF Fail, Goto, Idle, StepInv, TypeOK, Passes
    <3> QED
      BY <1>2, <2>1, <3>1, <3>2, FailSteps
  <2>2. CASE ~Fail(d)
    <3>1. /\ file' = tmp /\ status' = Replaced
          /\ pass[d].at = "rename" /\ pass'[d].doc = pass[d].doc /\ pass'[d].at = "record"
          /\ \A e \in Devices \ {d} : pass'[e] = pass[e]
          /\ exposed' = exposed \union RacedBy(d)
      BY <1>5, <2>2 DEF Rename, Goto, StepInv, TypeOK, Passes
    <3>2. StepOf(d)'
      BY <1>1, <1>2, <3>1 DEF StepOf, Covered, Merged, RacedBy
    <3>3. ASSUME NEW e \in Devices \ {d} PROVE StepOf(e)'
      <4>1. ~status'[e].seen
        BY <3>1 DEF Replaced, StepInv, TypeOK, Statuses
      <4> QED
        BY <1>1, <1>2, <3>1, <4>1 DEF StepOf, Covered, Merged, RacedBy
    <3> QED
      BY <3>2, <3>3
  <2> QED
    BY <2>1, <2>2
<1> QED
  BY <1>3, <1>4, <1>5

\* The stat is of the file as it is, which is the pass's own unless exposed.
LEMMA RecordSteps ==
  ASSUME StepInv, NEW d \in Devices, Record(d) \/ Clear(d)
  PROVE  \A e \in Devices : StepOf(e)'
<1>1. OthersKept(d) /\ UNCHANGED order
  BY DEF Record, Clear, MarksAtEnd, OthersKept, stores, StepInv, TypeOK
<1>2. CASE Record(d)
  <2>1. /\ pass[d].at = "record" /\ pass'[d].at = "clear"
        /\ UNCHANGED orderDirty
    BY <1>2 DEF Record, Idle, stores, StepInv, TypeOK
  <2>2. StepOf(d)'
    BY <1>1, <2>1, StepInvSplits DEF StepOf, OthersKept, Covered, Merged
  <2> QED
    BY <1>1, <2>2, OthersStay, StepInvSplits
<1>3. CASE Clear(d)
  <2>1. /\ pass[d].at = "clear" /\ pass'[d].at = "idle"
        /\ UNCHANGED <<orderDirty, status>>
    BY <1>3 DEF Clear, MarksAtEnd, Idle, StepInv, TypeOK, Passes
  <2>2. StepOf(d)'
    BY <1>1, <2>1, StepInvSplits DEF StepOf, OthersKept, Covered, Merged
  <2> QED
    BY <1>1, <2>2, OthersStay, StepInvSplits
<1> QED
  BY <1>2, <1>3

LEMMA StepInvStep ==
  ASSUME StepInv, TypeOK', [Next]_vars
  PROVE  StepInv'
<1> SUFFICES \A e \in Devices : StepOf(e)'
  BY DEF StepInv, CarriesInv, WritesInv, SeenInv, StepOf, TypeOK
<1>1. CASE \E d \in Devices : Edit(d) \/ SyncReload(d) \/ ImportBackup(d) \/ ExportBackup(d)
  BY <1>1, EditSteps
<1>2. CASE \E d \in Devices : AutomaticPass(d) \/ AskedPass(d)
  BY <1>2, BeginSteps DEF AutomaticPass, AskedPass
<1>3. CASE \E d \in Devices : PassStepOf(d)
  BY <1>3, BeginSteps, MergeSteps, SettingSteps, WriteSteps, RecordSteps DEF PassStepOf
<1>4. CASE \E d \in Devices : Fault(d)
  BY <1>4, FaultSteps
<1>5. CASE \E d \in Devices : Crash(d)
  BY <1>5, CrashSteps
<1>6. CASE Spoil
  <2>1. /\ UNCHANGED <<order, orderDirty, pass, tmp, exposed>> /\ file'.kind = "garbled"
        /\ \A e \in Devices : ~status'[e].seen
    BY <1>6 DEF Spoil, Garbled, Replaced, stores, StepInv, TypeOK, Statuses
  <2> QED
    BY <2>1, StepInvSplits DEF StepOf, Covered
<1>7. CASE UNCHANGED vars
  BY <1>7, StepInvSplits DEF vars, StepOf, Covered
<1> QED
  BY <1>1, <1>2, <1>3, <1>4, <1>5, <1>6, <1>7 DEF Next

LEMMA StepInvInit == Init => StepInv
<1> SUFFICES ASSUME Init PROVE StepInv
  OBVIOUS
<1>1. TypeOK
  BY TypeInit DEF TInv
<1>2. \A d \in Devices : StepOf(d)
  BY DEF Init, StepOf, Idle, NeverSynced, Merged
<1> QED
  BY <1>1, <1>2, StepInvSplits

\* However many devices share the folder, edit, restore, fail and restart: a
\* settled device is in step with the document unless another device wrote
\* between its own writing and its own stat, or a restart made it forget an
\* edit or a pass that was under way.
THEOREM FolderSettledUnlessExposed == Spec => []SettledUnlessExposed
<1>1. TInv /\ StepInv /\ [Next]_vars => (TInv /\ StepInv)'
  BY TypeStep, StepInvStep DEF TInv
<1>2. StepInv => SettledUnlessExposed
  BY StepInvSplits DEF SettledUnlessExposed, StepOf, AtRest, Settled, SyncPending, InStep
<1> QED
  BY <1>1, <1>2, TypeInit, StepInvInit, PTL DEF Spec

(***************************************************************************)
(* Without overlapping passes there is nobody to race                      *)
(***************************************************************************)

OneAtATime ==
  /\ exposed = {}
  /\ \A d, e \in Devices : pass[d].at # "idle" /\ pass[e].at # "idle" => d = e

LEMMA OneAtATimeStep ==
  ASSUME MaxCrashes = 0, ~Overlap, TypeOK, OneAtATime, [Next]_vars
  PROVE  OneAtATime'
<1>0. \A d \in Devices : ~Crash(d)
  BY DEF Crash, TypeOK, Uses
<1>1. \A d \in Devices : RacedBy(d) = {} \/ pass[d].at = "idle"
  BY DEF RacedBy, OneAtATime
<1>2. exposed' = {}
  <2>1. exposed' = exposed \/ \E d \in Devices : \/ exposed' = exposed \ {d}
                                          \/ /\ exposed' = exposed \union RacedBy(d)
                                             /\ pass[d].at # "idle"
    BY <1>0 DEF Next, vars, Edit, SaveOrder, WriteValue, Touch, AutomaticPass, AskedPass, Begin,
           PassStepOf, Read, MergeOrder, ReadValue, ReadStamp, ApplyValue, ApplyStamp,
           SectionSynced, Compare, WriteTmp, Rename, Record, Clear, Fault, ReadFails,
           ReadForced, WriteFails, SyncReload, ImportBackup, Restore, ExportBackup, Spoil
  <2> QED
    BY <1>1, <2>1 DEF OneAtATime
<1>3. ASSUME NEW d \in Devices,
             \A e \in Devices \ {d} : pass'[e] = pass[e],
             pass[d].at # "idle" \/ pass'[d].at = "idle"
                \/ \A e \in Devices : pass[e].at = "idle"
      PROVE  \A f, e \in Devices : pass'[f].at # "idle" /\ pass'[e].at # "idle" => f = e
  BY <1>3 DEF OneAtATime
<1>4. \/ pass' = pass
      \/ \E d \in Devices : /\ \A e \in Devices \ {d} : pass'[e] = pass[e]
                           /\ \/ pass[d].at # "idle" \/ pass'[d].at = "idle"
                              \/ \A e \in Devices : pass[e].at = "idle"
  <2>1. CASE \E d \in Devices : AutomaticPass(d) \/ AskedPass(d)
    BY <2>1 DEF AutomaticPass, AskedPass, Begin, Goto, TypeOK
  <2>2. CASE \E d \in Devices : PassStepOf(d)
    <3>1. PICK d \in Devices : PassStepOf(d)
      BY <2>2
    <3>2. pass[d].at # "idle"
      BY <3>1 DEF PassStepOf, Read, MergeOrder, ReadValue, ReadStamp, ApplyValue, ApplyStamp,
                  SectionSynced, Compare, WriteTmp, Rename, Record, Clear
    <3>3. \A e \in Devices \ {d} : pass'[e] = pass[e]
      BY <3>1 DEF PassStepOf, Read, MergeOrder, ReadValue, ReadStamp, ApplyValue, ApplyStamp,
                  SectionSynced, Compare, WriteTmp, Rename, Record, Clear, Goto, Fail, TypeOK
    <3> QED
      BY <3>2, <3>3
  <2>3. CASE \E d \in Devices : Fault(d)
    BY <2>3 DEF Fault, ReadFails, ReadForced, WriteFails, Fail, TypeOK
  <2>4. CASE \E d \in Devices : Crash(d)
    BY <1>0, <2>4
  <2>5. CASE \/ \E d \in Devices : Edit(d) \/ SyncReload(d) \/ ImportBackup(d) \/ ExportBackup(d)
             \/ Spoil
             \/ UNCHANGED vars
    BY <2>5 DEF Edit, SaveOrder, WriteValue, Touch, SyncReload, ImportBackup, Restore,
                ExportBackup, Spoil, vars
  <2> QED
    BY <2>1, <2>2, <2>3, <2>4, <2>5 DEF Next
<1>5. \A f, e \in Devices : pass'[f].at # "idle" /\ pass'[e].at # "idle" => f = e
  BY <1>3, <1>4 DEF OneAtATime
<1> QED
  BY <1>2, <1>5 DEF OneAtATime

\* What passes, edits, restarts and faults keep at every step, for every number
\* of devices and every bound.
THEOREM FolderSafety == Spec => []FolderSafe
  BY FolderType, FolderSettledUnlessExposed, PTL DEF FolderSafe

\* Where passes do not overlap and no device restarts, settled means in step:
\* skipping the read and the merge then loses nothing, which is what lets an
\* automatic pass be a stat (syncFolder).
THEOREM FolderSettledOrder ==
  ASSUME MaxCrashes = 0, ~Overlap
  PROVE  Spec => []SettledOrder
<1>1. Init => OneAtATime
  BY DEF Init, OneAtATime, Idle
<1>2. TInv /\ OneAtATime /\ [Next]_vars => (TInv /\ OneAtATime)'
  BY TypeStep, OneAtATimeStep DEF TInv
<1>3. SettledUnlessExposed /\ OneAtATime => SettledOrder
  BY DEF SettledUnlessExposed, OneAtATime, SettledOrder
<1> QED
  BY <1>1, <1>2, <1>3, TypeInit, FolderSettledUnlessExposed, PTL DEF Spec
===============================================================================
