-------------------------- MODULE MCSyncScheduler --------------------------
(* Instance of SyncScheduler for TLC: a burst of up to four asks, a         *)
(* debounce of two ticks and a cap of three, so that a third ask inside the *)
(* burst is shortened by the cap and a fourth lands after the pass started. *)
EXTENDS SyncScheduler
=============================================================================
