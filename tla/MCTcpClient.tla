----------------------------- MODULE MCTcpClient -----------------------------
(* TcpClient with two clients and their server.                              *)
EXTENDS TcpClient
=============================================================================
