---------------------------- MODULE MCPlayerSync ----------------------------
(* PlayerSync with a few ticks.                                            *)
EXTENDS PlayerSync
=============================================================================
