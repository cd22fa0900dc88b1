---------------------------- MODULE MCEntityView ----------------------------
(* EntityView with a few entities, some of which may stay for ever.        *)
EXTENDS EntityView
=============================================================================
