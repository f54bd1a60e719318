----------------------------- MODULE MCPureLog ------------------------------
(* Values for the constants of PureLog.                                     *)
EXTENDS PureLog

CONSTANTS t1, t2
=============================================================================
