-------------------------- MODULE MCRoomTransport --------------------------
(* Instance of RoomTransport for TLC: two rooms, so that a dial, a link or a *)
(* frame of one room can come late into the other; two joins and a leave;   *)
(* two faults, so that a room is lost and its first retry fails as well.    *)
EXTENDS RoomTransport
=============================================================================
