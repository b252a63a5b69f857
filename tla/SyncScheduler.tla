---------------------------- MODULE SyncScheduler ----------------------------
(***************************************************************************)
(* How an ask for a background pass becomes a pass (internal/app/          *)
(* sync_folder.go, syncInBackground .. syncLoop).  Mutations of the        *)
(* library arrive in bursts; every one arms the same timer again, a timer  *)
(* that wakes up starts a callback, the callback marks a pass as queued    *)
(* and tries to start the one loop that runs passes.                       *)
(*                                                                         *)
(* An ask is identified by the generation syncSchedule gives it.  The      *)
(* callback of a timer and the loop its callback may start are goroutines  *)
(* of their own, so each has a program counter indexed by that generation. *)
(* Time is counted in ticks and kept as distances (how long a timer still  *)
(* has to run, how old the burst is), so it needs no bound.                *)
(***************************************************************************)
EXTENDS Integers, FiniteSets

CONSTANTS Debounce,   \* syncDebounce, in ticks
          MaxWait,    \* syncMaxWait, in ticks
          MaxAsks     \* bound on the number of asks of one behaviour

ASSUME SchedulerAssumption ==
  /\ Debounce \in Nat \ {0}
  /\ MaxWait \in Nat
  /\ Debounce <= MaxWait
  /\ MaxAsks \in Nat

Gens == 1 .. MaxAsks

VARIABLES
  syncGen,      \* generation of the latest ask, 0 before the first
  syncTimer,    \* generation of the timer the App holds, 0 for nil
  syncFirst,    \* ticks since the first ask of the burst, at most MaxWait
  left,         \* left[g]: ticks until the timer of generation g wakes up
  callback,     \* where the timer of generation g and its callback are
  syncQueued,   \* the atomic flag: a pass is asked for
  syncRunning,  \* the atomic flag: a loop is taking passes
  loop,         \* where the loop the callback of g started is
  waiting,      \* history: the asks no pass has started after
  burst         \* history: ages of the first and last ask not yet taken

timerVars == <<syncGen, syncTimer, syncFirst, left>>
schedulerVars == <<syncGen, syncTimer, syncFirst, left, callback,
                  syncQueued, syncRunning, loop, waiting, burst>>

CallbackState == {"none", "armed", "stopped", "woken", "queue", "start", "done"}
LoopState == {"none", "swap", "pass", "clear", "check", "retake", "done"}

NoBurst == [open |-> FALSE, first |-> 0, last |-> 0]

SchedulerTypeOK ==
  /\ syncGen \in 0 .. MaxAsks
  /\ syncTimer \in 0 .. MaxAsks
  /\ syncFirst \in 0 .. MaxWait
  /\ left \in [Gens -> 0 .. Debounce]
  /\ callback \in [Gens -> CallbackState]
  /\ syncQueued \in BOOLEAN
  /\ syncRunning \in BOOLEAN
  /\ loop \in [Gens -> LoopState]
  /\ waiting \subseteq Gens
  /\ burst \in [open : BOOLEAN, first : Nat, last : Nat]

SchedulerInit ==
  /\ syncGen = 0
  /\ syncTimer = 0
  /\ syncFirst = 0
  /\ left = [g \in Gens |-> 0]
  /\ callback = [g \in Gens |-> "none"]
  /\ syncQueued = FALSE
  /\ syncRunning = FALSE
  /\ loop = [g \in Gens |-> "none"]
  /\ waiting = {}
  /\ burst = NoBurst

-----------------------------------------------------------------------------
(* Asking and the timer                                                    *)

\* The burst is left to settle for Debounce ticks, but never past MaxWait
\* ticks after its first ask.  age is the age of the burst at this ask.
Wait(age) == IF MaxWait - age < Debounce THEN MaxWait - age ELSE Debounce

\* time.Timer.Stop: a timer that has not woken up never will; the callback
\* of one that has is past the reach of Stop.
Stopped(cb, g) ==
  IF g \in Gens /\ cb[g] = "armed" THEN [cb EXCEPT ![g] = "stopped"] ELSE cb

\* One ask: stop the timer in place, arm a new one under a new generation.
\* The whole body runs under syncTimerMu.
SyncSchedule ==
  /\ syncGen < MaxAsks
  /\ LET gen == syncGen + 1
         age == IF syncTimer = 0 THEN 0 ELSE syncFirst
     IN  /\ syncGen' = gen
         /\ syncTimer' = gen
         /\ syncFirst' = age
         /\ left' = [left EXCEPT ![gen] = Wait(age)]
         /\ callback' = [Stopped(callback, syncTimer) EXCEPT ![gen] = "armed"]
         /\ waiting' = waiting \union {gen}
         /\ burst' = [open |-> TRUE,
                      first |-> IF burst.open THEN burst.first ELSE 0,
                      last |-> 0]
  /\ UNCHANGED <<syncQueued, syncRunning, loop>>

\* The runtime wakes a timer up and starts its callback in a goroutine.
Wake(g) ==
  /\ callback[g] = "armed"
  /\ left[g] = 0
  /\ callback' = [callback EXCEPT ![g] = "woken"]
  /\ UNCHANGED <<timerVars, syncQueued, syncRunning, loop, waiting, burst>>

\* The generation check of the callback.
AnyGeneration(g) == TRUE                 \* mutated: no check
Current(g) == syncGen = g

\* The callback's critical section: a callback that a later ask overtook
\* returns, the current one takes the burst.
SyncFire(g) ==
  /\ callback[g] = "woken"
  /\ \/ /\ ~Current(g)
        /\ callback' = [callback EXCEPT ![g] = "done"]
        /\ UNCHANGED <<syncTimer, syncFirst, burst>>
     \/ /\ Current(g)
        /\ callback' = [callback EXCEPT ![g] = "queue"]
        /\ syncTimer' = 0
        /\ syncFirst' = 0
        /\ burst' = NoBurst
  /\ UNCHANGED <<syncGen, left, syncQueued, syncRunning, loop, waiting>>

-----------------------------------------------------------------------------
(* Starting the loop                                                       *)

\* syncQueued.Store(true)
SyncQueue(g) ==
  /\ callback[g] = "queue"
  /\ callback' = [callback EXCEPT ![g] = "start"]
  /\ syncQueued' = TRUE
  /\ UNCHANGED <<timerVars, syncRunning, loop, waiting, burst>>

\* Whether CompareAndSwap(false, true) on syncRunning succeeds.
WinsAlways == TRUE                       \* mutated: a plain Store
Wins == ~syncRunning

\* The CompareAndSwap of syncQueue, and the loop if it was won.
StartLoop(g) ==
  /\ callback[g] = "start"
  /\ callback' = [callback EXCEPT ![g] = "done"]
  /\ syncRunning' = TRUE
  /\ loop' = IF Wins THEN [loop EXCEPT ![g] = "swap"] ELSE loop
  /\ UNCHANGED <<timerVars, syncQueued, waiting, burst>>

-----------------------------------------------------------------------------
(* The loop                                                                *)

\* Where the loop goes once the swap found nothing.
NothingLeftKept == "done"                \* mutated: returns with the flag set
NothingLeft == "clear"

\* for a.syncQueued.Swap(false): a taken mark starts a pass, and the pass
\* sees what every ask so far was about.
Swap(g) ==
  /\ loop[g] = "swap"
  /\ syncQueued' = FALSE
  /\ loop' = [loop EXCEPT ![g] = IF syncQueued THEN "pass" ELSE NothingLeft]
  /\ waiting' = IF syncQueued THEN {} ELSE waiting
  /\ UNCHANGED <<timerVars, callback, syncRunning, burst>>

\* The pass returns; its error is logged and changes nothing here.
EndPass(g) ==
  /\ loop[g] = "pass"
  /\ loop' = [loop EXCEPT ![g] = "swap"]
  /\ UNCHANGED <<timerVars, callback, syncQueued, syncRunning, waiting, burst>>

\* syncRunning.Store(false)
ClearRunning(g) ==
  /\ loop[g] = "clear"
  /\ syncRunning' = FALSE
  /\ loop' = [loop EXCEPT ![g] = "check"]
  /\ UNCHANGED <<timerVars, callback, syncQueued, waiting, burst>>

\* What the re-check after clearing the flag sees.
NoRecheck == FALSE                       \* mutated: no re-check
MarkedAgain == syncQueued

\* !syncQueued.Load() returns.
Check(g) ==
  /\ loop[g] = "check"
  /\ loop' = [loop EXCEPT ![g] = IF MarkedAgain THEN "retake" ELSE "done"]
  /\ UNCHANGED <<timerVars, callback, syncQueued, syncRunning, waiting, burst>>

\* The second CompareAndSwap: whoever loses it leaves the mark to the winner.
Retake(g) ==
  /\ loop[g] = "retake"
  /\ syncRunning' = TRUE
  /\ loop' = [loop EXCEPT ![g] = IF Wins THEN "swap" ELSE "done"]
  /\ UNCHANGED <<timerVars, callback, syncQueued, waiting, burst>>

-----------------------------------------------------------------------------
(* Time                                                                    *)

\* A tick passes.  Timers are punctual: none that is due, and no callback
\* that is awake, is left behind by the clock, so the distances below are
\* exact up to the scheduling latency of one callback.
Tick ==
  /\ \A g \in Gens : ~(callback[g] = "armed" /\ left[g] = 0)
  /\ \A g \in Gens : callback[g] # "woken"
  /\ \E g \in Gens : callback[g] = "armed"
  /\ left' = [g \in Gens |-> IF callback[g] = "armed" THEN left[g] - 1 ELSE left[g]]
  /\ syncFirst' = IF syncTimer # 0 /\ syncFirst < MaxWait THEN syncFirst + 1 ELSE syncFirst
  /\ burst' = IF burst.open
              THEN [burst EXCEPT !.first = @ + 1, !.last = @ + 1]
              ELSE burst
  /\ UNCHANGED <<syncGen, syncTimer, callback, syncQueued, syncRunning, loop, waiting>>

-----------------------------------------------------------------------------

LoopStep(g) == Swap(g) \/ EndPass(g) \/ ClearRunning(g) \/ Check(g) \/ Retake(g)
CallbackStep(g) == Wake(g) \/ SyncFire(g) \/ SyncQueue(g) \/ StartLoop(g)

SchedulerNext ==
  \/ SyncSchedule
  \/ \E g \in Gens : CallbackStep(g) \/ LoopStep(g)
  \/ Tick

\* Asking is the user's and the ticker's choice; the goroutines, the timers
\* and the clock go on, and a pass returns.
Fairness ==
  /\ WF_schedulerVars(Tick)
  /\ \A g \in Gens : WF_schedulerVars(CallbackStep(g)) /\ WF_schedulerVars(LoopStep(g))

SchedulerSpec == SchedulerInit /\ [][SchedulerNext]_schedulerVars
SchedulerFairSpec == SchedulerSpec /\ Fairness

-----------------------------------------------------------------------------
(* Properties                                                              *)

\* A loop that holds the running flag.
Owner(g) == loop[g] \in {"swap", "pass", "clear"}

\* Two loops never take passes at once: the flag admits one at a time, even
\* while an old loop is between clearing it and trying to take it back
\* (syncQueue and syncLoop).
OneLoop == \A g, h \in Gens : Owner(g) /\ Owner(h) => g = h

\* No ask is lost: as long as some ask has had no pass after it, there is
\* a timer, a callback, or a queued mark with somebody about to take it
\* (the re-check syncLoop makes after clearing the running flag).
AskCarried ==
  waiting # {} =>
    \/ \E g \in Gens : callback[g] \in {"armed", "woken"} /\ g = syncGen
    \/ \E g \in Gens : callback[g] = "queue"
    \/ /\ syncQueued
       /\ \/ \E g \in Gens : callback[g] = "start"
          \/ \E g \in Gens : Owner(g) \/ loop[g] \in {"check", "retake"}

\* A storm of asks cannot postpone the pass: the burst is taken at most
\* MaxWait ticks after its first ask ("a storm cannot postpone the pass past
\* syncMaxWait counted from its first mutation", syncSchedule).
StormBounded == burst.open => burst.first <= MaxWait

\* What the scheduler keeps at every step: one loop, no ask without somebody
\* to carry it, no pass postponed past the cap, whichever goroutine runs next.
SchedulerSafe == SchedulerTypeOK /\ OneLoop /\ AskCarried /\ StormBounded

\* A burst is only cut short by its age: it is taken once no ask came for
\* Debounce ticks or its first ask is MaxWait old, so a callback overtaken by
\* a later ask takes nothing (the generation syncFire compares).
BurstSettled ==
  [][(burst.open /\ ~burst'.open)
       => (burst.last >= Debounce \/ burst.first >= MaxWait)]_schedulerVars

\* The scheduler implements what BackgroundPass promises: passes one at a
\* time, and every ask followed by a pass that starts after it, however the
\* timers, the callbacks and the loops interleave.
Passing == \E g \in Gens : loop[g] = "pass"
Promise == INSTANCE BackgroundPass WITH Asks <- Gens, passing <- Passing
ImplementsBackgroundPass == Promise!FairSpec

\* The flags come to rest: once nothing is queued the loop goes away, so the
\* running flag never stays set with nobody to clear it (syncLoop).
LoopRests == syncRunning ~> ~syncRunning

-----------------------------------------------------------------------------
(* The inductive strengthening the theorems of SyncProofs use     *)

\* The App holds a timer exactly while the burst is open; it is the one of
\* the latest ask, and only it can still be armed.
TimerInv ==
  /\ syncTimer # 0 => syncTimer = syncGen
  /\ burst.open <=> syncTimer # 0
  /\ \A g \in Gens :
       /\ g > syncGen => callback[g] = "none"
       /\ callback[g] = "armed" => syncTimer = g
       /\ callback[g] = "woken" /\ g = syncGen => syncTimer = g
       /\ syncTimer = g => callback[g] \in {"armed", "woken"}
  /\ waiting \subseteq 1 .. syncGen

\* While the burst is open its timer has no more left than the cap allows
\* and no less than the debounce or the cap asks for.
BurstInv ==
  \A g \in Gens :
    syncTimer = g =>
      /\ callback[g] = "woken" => left[g] = 0
      /\ syncFirst = burst.first
      /\ burst.first + left[g] <= MaxWait
      /\ burst.last + left[g] >= Debounce \/ burst.first + left[g] >= MaxWait

\* The running flag is set exactly while a loop owns it, a queued mark has
\* somebody about to look at it, and every ask is carried.
FlagInv ==
  /\ OneLoop
  /\ syncRunning <=> \E g \in Gens : Owner(g)
  /\ syncQueued =>
       \/ \E g \in Gens : callback[g] = "start"
       \/ \E g \in Gens : Owner(g) \/ loop[g] \in {"check", "retake"}
  /\ AskCarried

SchedulerInv == SchedulerTypeOK /\ TimerInv /\ BurstInv /\ FlagInv
=============================================================================
