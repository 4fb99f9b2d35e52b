------------------------------ MODULE Delivery ------------------------------
(***************************************************************************)
(* What a worker promises about one delivery of a job, as the doc comments *)
(* of Handler, Config.ShutdownTimeout and dispatch state it (workers/      *)
(* worker.go): the handler runs once, its result is reported once and in   *)
(* the form the Handler comment gives, and a result is dropped only when   *)
(* the delivery was revoked before it was reported - its lock was lost, or *)
(* the shutdown timeout passed -, when it cannot be put into a request, or *)
(* when the request is not given a token.  A revoked delivery is never     *)
(* reported.                                                               *)
(* Heartbeats, contexts and the order of the steps are left to             *)
(* JobDispatch, which implements this specification.                       *)
(***************************************************************************)

CONSTANTS
    Jobs,       \* the deliveries handed to the worker
    Outcomes    \* the ways a handler may return

VARIABLES
    phase,      \* phase[j]: how far the delivery j is
    result,     \* result[j]: how the handler of j returned
    verdict,    \* verdict[j]: what became of the result
    revoked,    \* the deliveries whose result may no longer be reported
    unauthorized    \* the deliveries whose report was not given a token

dvars == <<phase, result, verdict, revoked, unauthorized>>

Phases   == {"waiting", "running", "returned", "settled"}
Verdicts == {"none", "dropped", "complete", "bpmnError", "workerError"}

\* The return value semantics of the Handler comment.
Contract(o) ==
    CASE o = "vars" -> "complete"
      [] o = "bpmn" -> "bpmnError"
      [] OTHER      -> "workerError"

Init ==
    /\ phase   = [j \in Jobs |-> "waiting"]
    /\ result  = [j \in Jobs |-> "none"]
    /\ verdict = [j \in Jobs |-> "none"]
    /\ revoked = {}
    /\ unauthorized = {}

Begin(j) ==
    /\ phase[j] = "waiting"
    /\ phase' = [phase EXCEPT ![j] = "running"]
    /\ UNCHANGED <<result, verdict, revoked, unauthorized>>

Return(j, o) ==
    /\ phase[j] = "running"
    /\ phase' = [phase EXCEPT ![j] = "returned"]
    /\ result' = [result EXCEPT ![j] = o]
    /\ UNCHANGED <<verdict, revoked, unauthorized>>

Report(j) ==
    /\ phase[j] = "returned"
    /\ j \notin revoked
    /\ result[j] # "badVars"
    /\ phase' = [phase EXCEPT ![j] = "settled"]
    /\ verdict' = [verdict EXCEPT ![j] = Contract(result[j])]
    /\ UNCHANGED <<result, revoked, unauthorized>>

Drop(j) ==
    /\ phase[j] = "returned"
    /\ j \in revoked \/ result[j] = "badVars"
    /\ phase' = [phase EXCEPT ![j] = "settled"]
    /\ verdict' = [verdict EXCEPT ![j] = "dropped"]
    /\ UNCHANGED <<result, revoked, unauthorized>>

\* Whatever else is true of it: the token is asked for last.
Deny(j) ==
    /\ phase[j] = "returned"
    /\ result[j] # "badVars"
    /\ phase' = [phase EXCEPT ![j] = "settled"]
    /\ verdict' = [verdict EXCEPT ![j] = "dropped"]
    /\ unauthorized' = unauthorized \union {j}
    /\ UNCHANGED <<result, revoked>>

Revoke(S) ==
    /\ revoked' = revoked \union S
    /\ UNCHANGED <<phase, result, verdict, unauthorized>>

Next ==
    \/ \E j \in Jobs : \/ Begin(j)
                       \/ \E o \in Outcomes : Return(j, o)
                       \/ Report(j)
                       \/ Drop(j)
                       \/ Deny(j)
    \/ \E S \in SUBSET Jobs : Revoke(S)

Spec == Init /\ [][Next]_dvars
=============================================================================
