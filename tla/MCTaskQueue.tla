---------------------------- MODULE MCTaskQueue -----------------------------
(* Values for the constants of TaskQueue.                                   *)
EXTENDS TaskQueue

CONSTANTS t1, t2, garbage
=============================================================================
