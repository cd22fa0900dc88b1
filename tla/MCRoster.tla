------------------------------ MODULE MCRoster ------------------------------
(* Roster with one other player.                                           *)
EXTENDS Roster
=============================================================================
