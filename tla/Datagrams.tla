------------------------------ MODULE Datagrams ------------------------------
(***************************************************************************)
(* What the three modules of a running game share: the network that takes  *)
(* UDP datagrams from the server's outgoing ring buffer to a client, or    *)
(* from a client to the server. It is of one kind for a whole behaviour.   *)
(***************************************************************************)
EXTENDS Integers, Sequences, FiniteSetsExt, SequencesExt

CONSTANTS
    Networks        \* "perfect" loses and reorders nothing, "lossy" does both

ASSUME NetworksAssumption == Networks \subseteq {"perfect", "lossy"}

VARIABLE network    \* which of the Networks this is
=============================================================================
