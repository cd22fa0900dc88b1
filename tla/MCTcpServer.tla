---------------------------- MODULE MCTcpServer ----------------------------
(* TcpServer on a few connections. Connections are interchangeable.          *)
EXTENDS TcpServer, TLC

Symmetry == Permutations(Conns)
=============================================================================
