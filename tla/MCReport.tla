------------------------------ MODULE MCReport ------------------------------
(* Values for the constants of Report.                                      *)
EXTENDS Report, TLC

CONSTANTS m1, l1
=============================================================================
