----------------------------- MODULE MCRoomSession -----------------------------
(* One page in a room that knows two tracks, one of them with a YouTube id. *)
EXTENDS RoomSession
MCSongs == {0, 1}
MCLinked == {1}
MCOpening == {-1, 0}
=============================================================================
