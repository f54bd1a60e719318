----------------------------- MODULE MCCutRound -----------------------------
(* Values for the constants of CutRound.                                    *)
EXTENDS CutRound

CONSTANTS m1, m2
=============================================================================
