---------------------------- MODULE MCRingBuffer ----------------------------
(* RingBuffer on a capacity of three, so that head and tail wrap at          *)
(* different times, and three items.                                        *)
EXTENDS RingBuffer
=============================================================================
