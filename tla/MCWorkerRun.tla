---------------------------- MODULE MCWorkerRun ----------------------------
(***************************************************************************)
(* WorkerRun for TLC.  Two types, so that one loop can be done while the   *)
(* other waits; timeouts of zero, below the default and beyond it; and a   *)
(* clock that runs past the longest wait for the token and for handlers.   *)
(***************************************************************************)
EXTENDS WorkerRun

CONSTANTS t1, t2    \* model values

MCTaskTypes == {t1, t2}
MCTimeouts  == {0, 1, 3}
=============================================================================
