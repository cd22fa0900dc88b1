------------------------------- MODULE MCRooms -------------------------------
(* Rooms with two rooms, so that one can be searched before the other, and   *)
(* three players, so that a list has a front, a middle and an end.           *)
EXTENDS Rooms
=============================================================================
