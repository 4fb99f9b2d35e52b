------------------------------ MODULE JobLease ------------------------------
(***************************************************************************)
(* External: the jobs on the server, as openapi.yaml describes the poll,   *)
(* heartbeat, complete and error operations and as workers/worker.go uses  *)
(* them.  A pending job is free, or locked by a client, which the server   *)
(* knows by its clientID alone: "me" is the modelled worker, "other" is    *)
(* any other client.  attempt counts how often the job was handed out; the *)
(* server keeps no such number with the lock, and no report carries one.   *)
(* Time is left out: a lock may run out at any moment.                     *)
(***************************************************************************)
EXTENDS Naturals

CONSTANTS
    Jobs,       \* the jobs
    Retries     \* the retry budget of a job

VARIABLES
    status,     \* status[k]: PENDING, or how the job ended
    holder,     \* holder[k]: who holds the lock
    attempt,    \* attempt[k]: how often the job was handed out
    retries     \* retries[k]: what is left of the retry budget

lvars == <<status, holder, attempt, retries>>

Statuses == {"PENDING", "COMPLETED", "BPMN_ERROR", "FAILED", "CANCELED"}
Holders  == {"none", "me", "other"}

LeaseTypeOK ==
    /\ status  \in [Jobs -> Statuses]
    /\ holder  \in [Jobs -> Holders]
    /\ attempt \in [Jobs -> 0..Retries + 1]
    /\ retries \in [Jobs -> 0..Retries]

LeaseInit ==
    /\ status  = [k \in Jobs |-> "PENDING"]
    /\ holder  = [k \in Jobs |-> "none"]
    /\ attempt = [k \in Jobs |-> 0]
    /\ retries = [k \in Jobs |-> Retries]

Free(k) == status[k] = "PENDING" /\ holder[k] = "none"

\* The poll of client c is answered with the jobs of S, now locked by c.
HandOut(S, c) ==
    /\ \A k \in S : Free(k)
    /\ holder'  = [k \in Jobs |-> IF k \in S THEN c ELSE holder[k]]
    /\ attempt' = [k \in Jobs |-> attempt[k] + (IF k \in S THEN 1 ELSE 0)]
    /\ UNCHANGED <<status, retries>>

End(k, s) ==
    /\ status' = [status EXCEPT ![k] = s]
    /\ holder' = [holder EXCEPT ![k] = "none"]
    /\ UNCHANGED <<attempt, retries>>

\* A lock that runs out, or a technical failure, costs a retry; with none
\* left the job fails.
ChargeRetry(k) ==
    IF retries[k] = 0
    THEN End(k, "FAILED")
    ELSE /\ retries' = [retries EXCEPT ![k] = @ - 1]
         /\ holder'  = [holder EXCEPT ![k] = "none"]
         /\ UNCHANGED <<status, attempt>>

RunOut(k) ==
    /\ holder[k] # "none"
    /\ ChargeRetry(k)

Cancelled(k) ==
    /\ status[k] = "PENDING"
    /\ End(k, "CANCELED")

\* A report of client c: discarded unless c holds the lock.
Report(k, c, r) ==
    IF holder[k] # c
    THEN UNCHANGED lvars
    ELSE CASE r = "complete"    -> End(k, "COMPLETED")
           [] r = "bpmnError"   -> End(k, "BPMN_ERROR")
           [] r = "workerError" -> ChargeRetry(k)

\* What a heartbeat of client c is answered.
HeartbeatAnswer(k, c) == IF holder[k] = c THEN "ok" ELSE "gone"
=============================================================================
