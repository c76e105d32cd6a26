--------------------------- MODULE MCTcpServer ---------------------------
(* Instances of TcpServer for TLC.                                          *)
EXTENDS TcpServer, TLC
CONSTANTS c1, c2
TwoAndOne == (c1 :> 2) @@ (c2 :> 1)
=============================================================================
