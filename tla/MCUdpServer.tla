----------------------------- MODULE MCUdpServer -----------------------------
(* UdpServer with ring buffers of two packets and a kernel queue of one, and *)
(* three datagrams and messages, so that every buffer fills and overflows.   *)
EXTENDS UdpServer
=============================================================================
