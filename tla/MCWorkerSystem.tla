--------------------------- MODULE MCWorkerSystem ---------------------------
(***************************************************************************)
(* WorkerSystem for TLC.  One job with one retry is handed out at most     *)
(* twice: enough for a late request of the first delivery to meet the      *)
(* second, in the worker or in another client.  Other clients fail the job *)
(* or let its lock run out.                                                *)
(***************************************************************************)
EXTENDS WorkerSystem

CONSTANT k1    \* a model value

MCWorkJobs     == {k1}
SuccessOrPanic == {"vars", "panic"}
OnlyErrors     == {"error"}
Failures       == {"workerError"}
=============================================================================
