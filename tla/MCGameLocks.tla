----------------------------- MODULE MCGameLocks -----------------------------
(* GameLocks with a few clients, which are interchangeable.                  *)
EXTENDS GameLocks, TLC

Symmetry == Permutations(Sessions)
=============================================================================
