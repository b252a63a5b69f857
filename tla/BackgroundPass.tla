---------------------------- MODULE BackgroundPass ----------------------------
(***************************************************************************)
(* What the background scheduler promises to the code that mutates the     *)
(* library, without timers, flags or goroutines: passes run one at a time, *)
(* and every ask is followed by a pass that starts after it.               *)
(***************************************************************************)
CONSTANT Asks

VARIABLES waiting,  \* the asks no pass has started after
          passing   \* a pass is running

vars == <<waiting, passing>>

Init ==
  /\ waiting = {}
  /\ passing = FALSE

Ask(a) ==
  /\ a \notin waiting
  /\ waiting' = waiting \union {a}
  /\ UNCHANGED passing

\* A pass reads the stores once it runs, so it covers every ask before it.
\* A pass nobody waits for is harmless and allowed.
Start ==
  /\ ~passing
  /\ passing' = TRUE
  /\ waiting' = {}

End ==
  /\ passing
  /\ passing' = FALSE
  /\ UNCHANGED waiting

Next ==
  \/ \E a \in Asks : Ask(a)
  \/ Start
  \/ End

Spec == Init /\ [][Next]_vars

FairSpec ==
  /\ Spec
  /\ WF_vars(waiting # {} /\ Start)
  /\ WF_vars(End)
=============================================================================
