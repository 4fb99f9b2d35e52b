----------------------------- MODULE MCTaskLoop -----------------------------
(***************************************************************************)
(* TaskLoop for TLC.  One delivery more than slots: a poll may fill none,  *)
(* some or all of the slots it asks for, and a slot is used again while    *)
(* others are still in use.                                                *)
(***************************************************************************)
EXTENDS TaskLoop

CONSTANTS j1, j2, j3, j4    \* model values

MCJobs    == {j1, j2, j3, j4}
MCMaxJobs == 3
=============================================================================
