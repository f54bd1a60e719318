--------------------------- MODULE MCControlServer ---------------------------
(* Values for the constants of ControlServer.                               *)
EXTENDS ControlServer

CONSTANTS m1, l1
=============================================================================
