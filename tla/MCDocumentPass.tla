---------------------------- MODULE MCDocumentPass ----------------------------
(* One document or two, one record of this device and one of another. *)
EXTENDS DocumentPass
MCEdits == {"mine"}
MCForeign == {"theirs"}
MCCalls == 1..2
=============================================================================
