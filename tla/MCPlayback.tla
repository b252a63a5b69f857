------------------------------ MODULE MCPlayback ------------------------------
(* One window on a queue of two tracks: Playback.tla as it stands. *)
EXTENDS Playback
=============================================================================
