---------------------------- MODULE MCLockTiming ----------------------------
(***************************************************************************)
(* LockTiming for TLC.  The shortest lock is as long as the timeout of a   *)
(* heartbeat, as it is by the server's defaults.                           *)
(***************************************************************************)
EXTENDS LockTiming

\* Below the server's bounds, the shortest lock, a forgiving one, and above.
MCRequests == {2, 8, 22, 60}
\* A clock behind, right, ahead by almost the shortest lock, and by more than
\* the longest.
MCSkews == {-40, 0, 7, 30}
=============================================================================
