------------------------------- MODULE MCGame -------------------------------
(* Game with few hit points and few updates: a charged shot kills the first *)
(* boss, which comes in the second update.                                 *)
EXTENDS Game
=============================================================================
