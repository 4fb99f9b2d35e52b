--------------------------- MODULE MCJobDispatch ---------------------------
(***************************************************************************)
(* JobDispatch for TLC.  Deliveries share only jobsCtx and the process, so *)
(* two of them show every way they can meet; the handler may return in     *)
(* every way the code tells apart.                                         *)
(***************************************************************************)
EXTENDS JobDispatch

CONSTANTS j1, j2    \* model values

MCJobs     == {j1, j2}
MCOutcomes == {"vars", "badVars", "bpmn", "error", "panic", "nilBpmn",
               "badError", "panicVars"}
=============================================================================
