----------------------------- MODULE MCPlaylists -----------------------------
(* Two instances of Playlists for TLC, as two scenes of one run, each within *)
(* the constants of the cfg: edits, deletions, cut operations and imports of *)
(* a few songs; and edits without deletions over a document from before      *)
(* stamps, whose devices keep syncing.                                       *)
EXTENDS Playlists

CONSTANTS FewRefs,               \* of the first scene
          OlderIds, FewerEdits   \* of the second

VARIABLE scene

Editing == INSTANCE Playlists WITH Refs <- FewRefs
Syncing == INSTANCE Playlists WITH
             Legacy <- OlderIds, MaxEdits <- FewerEdits,
             Deleting <- FALSE, Ties <- FALSE, MaxCuts <- 0, MaxRestores <- 0

MCInit == \/ scene = "editing" /\ Editing!Init
          \/ scene = "syncing" /\ Syncing!Init
MCNext == /\ \/ scene = "editing" /\ Editing!Next
             \/ scene = "syncing" /\ Syncing!Next
          /\ UNCHANGED scene
MCVars == <<vars, scene>>
MCSpec ==
  /\ MCInit /\ [][MCNext]_MCVars
  /\ \A d \in Devices : WF_MCVars(scene = "syncing" /\ Syncing!Sync(d, TRUE) /\ UNCHANGED scene)

\* "the document both sides agree on" (merge): without deletions, once edits
\* stop, every device ends up with the playlists of the document.
ConvergesSyncing == scene = "syncing" => Converges
=============================================================================
