-------------------------- MODULE MCSessionServer --------------------------
(* A small instance of SessionServer for TLC.                              *)
EXTENDS SessionServer, TLC

CONSTANTS p1, p2   \* POSTs
=============================================================================
