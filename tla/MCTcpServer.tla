---------------------------- MODULE MCTcpServer -----------------------------
(* The instances of TcpServer that TLC checks.                              *)
EXTENDS TcpServer

CONSTANTS s0, s1

\* One session on the server's io_context and one on another.
TwoHomes == (s0 :> 0) @@ (s1 :> 1)
=============================================================================
