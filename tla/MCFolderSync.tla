----------------------------- MODULE MCFolderSync -----------------------------
(* Two instances of FolderSync for TLC, as two scenes of one run, each within *)
(* the constants of the cfg: two devices whose passes overlap step by step,   *)
(* with a setting and a restart; and two whose passes take turns, both        *)
(* importing, with a fault and a restore as well.                             *)
EXTENDS FolderSync

CONSTANT FewerOrders   \* of the first scene

VARIABLE scene

Pair == INSTANCE FolderSync WITH MaxOrders <- FewerOrders, MaxRestores <- 0, MaxFaults <- 0
Turns == INSTANCE FolderSync WITH Importing <- Devices, Overlap <- FALSE, MaxSettings <- 0

MCInit == \/ scene = "pair" /\ Pair!Init
          \/ scene = "turns" /\ Turns!Init
MCNext == /\ \/ scene = "pair" /\ Pair!Next
             \/ scene = "turns" /\ Turns!Next
          /\ UNCHANGED scene
MCVars == <<vars, scene>>

\* The fairness of RefreshSpec, in the scene whose passes take turns.
InTurns(A) == scene = "turns" /\ A /\ UNCHANGED scene
MCSpec ==
  /\ MCInit /\ [][MCNext]_MCVars
  /\ \A d \in Devices : /\ WF_MCVars(InTurns(Turns!PassStepOf(d)))
                        /\ SF_MCVars(InTurns(Turns!AutomaticPass(d)))
                        /\ WF_MCVars(InTurns(Turns!Touch(d)))
                        /\ SF_MCVars(InTurns(Turns!AskedPass(d)))

\* With passes that do not overlap, every device and the document end up with one
\* order ("the newest list wins", ordering.mergeNewer), restarts or not.
TurnsConverge == scene = "turns" => OrderConverges
=============================================================================
