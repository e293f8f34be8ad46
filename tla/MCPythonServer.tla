--------------------------- MODULE MCPythonServer ---------------------------
(* PythonServer with two ports.                                              *)
EXTENDS PythonServer

CONSTANTS p1, p2

TwoPorts == <<p1, p2>>
=============================================================================
