---------------------------- MODULE GracefulPool ----------------------------
(***************************************************************************)
(* What Run promises for one task type (the comments of WithMaxJobs,       *)
(* Config.ShutdownTimeout and Run in workers/worker.go, and the section on *)
(* shutdown in README.md): at most Size handlers run at once; once the     *)
(* pool is told to stop it takes no further jobs, waits for the running    *)
(* ones, and leaves them only when the shutdown timeout has passed; and it *)
(* does stop.  TaskLoop implements this specification.                     *)
(***************************************************************************)
EXTENDS Naturals, FiniteSets

CONSTANTS
    Jobs,       \* the jobs that may be handed out
    Size        \* how many may run at once

VARIABLES
    stage,      \* "serving", "draining" or "stopped"
    stopping,   \* the pool has been told to stop
    overdue,    \* the shutdown timeout has passed
    active,     \* the jobs being run
    finished    \* the jobs that were run

pvars == <<stage, stopping, overdue, active, finished>>

Init ==
    /\ stage    = "serving"
    /\ stopping = FALSE
    /\ overdue  = FALSE
    /\ active   = {}
    /\ finished = {}

Begin(j) ==
    /\ stage = "serving"
    /\ j \notin active \union finished
    /\ Cardinality(active) < Size
    /\ active' = active \union {j}
    /\ UNCHANGED <<stage, stopping, overdue, finished>>

Finish(j) ==
    /\ j \in active
    /\ active' = active \ {j}
    /\ finished' = finished \union {j}
    /\ UNCHANGED <<stage, stopping, overdue>>

Shutdown ==
    /\ ~stopping
    /\ stopping' = TRUE
    /\ UNCHANGED <<stage, overdue, active, finished>>

Drain ==
    /\ stage = "serving"
    /\ stopping
    /\ stage' = "draining"
    /\ UNCHANGED <<stopping, overdue, active, finished>>

Expire ==
    /\ stage = "draining"
    /\ ~overdue
    /\ overdue' = TRUE
    /\ UNCHANGED <<stage, stopping, active, finished>>

Stop ==
    /\ stage = "draining"
    /\ overdue \/ active = {}
    /\ stage' = "stopped"
    /\ UNCHANGED <<stopping, overdue, active, finished>>

Next ==
    \/ \E j \in Jobs : Begin(j) \/ Finish(j)
    \/ Shutdown
    \/ Drain
    \/ Expire
    \/ Stop

Spec == Init /\ [][Next]_pvars

\* Told to stop, the pool drains; the timeout passes; and it stops.
FairSpec ==
    Spec /\ WF_pvars(Drain) /\ WF_pvars(Expire) /\ WF_pvars(Stop)
=============================================================================
