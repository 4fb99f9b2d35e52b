---------------------------- MODULE WorkerSystem ----------------------------
(***************************************************************************)
(* One task type of a worker and the server: TaskLoop polls and spawns,    *)
(* JobDispatch runs and reports each delivery, and JobLease grants, locks  *)
(* and settles the jobs.  A delivery <<k, n>> is the n-th handing out of   *)
(* job k.  A request may be acted on by the server long after the worker   *)
(* gave up waiting for its answer, or never.                               *)
(***************************************************************************)
EXTENDS Naturals, FiniteSets

CONSTANTS
    WorkJobs,       \* the jobs of the task type
    Retries,        \* their retry budget
    MaxJobs,        \* WithMaxJobs
    Outcomes,       \* the ways the handler may return
    OthersReport    \* the reports of other clients of the task type; they
                    \* poll only if there are any

\* The components' own assumptions, see TaskLoop and JobDispatch.
ASSUME SystemAssumption ==
    /\ IsFiniteSet(WorkJobs)
    /\ Retries \in Nat
    /\ MaxJobs \in Nat \ {0}
    /\ Outcomes \subseteq {"vars", "badVars", "bpmn", "error", "panic",
                            "nilBpmn", "badError", "panicVars"}
    /\ OthersReport \subseteq {"complete", "bpmnError", "workerError"}

Deliveries == WorkJobs \X (1..Retries + 1)
JobOf(d)     == d[1]
AttemptOf(d) == d[2]

VARIABLES
    ctxDone, loop, sem, held, failed, job, inflight, timerFired,  \* TaskLoop
    jobsDone,                                \* TaskLoop and JobDispatch
    crashed, pc, outcome, sent, noToken, hb, hbAnswer, hbStopped,
    lockLost,                                \* JobDispatch
    status, holder, attempt, retries,        \* JobLease
    arrived     \* the deliveries whose report the server has acted on

loopVars     == <<ctxDone, loop, sem, held, failed, job, inflight, timerFired>>
dispatchVars == <<crashed, pc, outcome, sent, noToken, hb, hbAnswer, hbStopped,
                  lockLost>>
leaseVars    == <<status, holder, attempt, retries>>
vars         == <<loopVars, jobsDone, dispatchVars, leaseVars, arrived>>

Loop     == INSTANCE TaskLoop    WITH Jobs <- Deliveries
Dispatch == INSTANCE JobDispatch WITH Jobs <- Deliveries
Lease    == INSTANCE JobLease    WITH Jobs <- WorkJobs

Init ==
    /\ Loop!Init
    /\ Dispatch!Init
    /\ Lease!LeaseInit
    /\ arrived = {}

-----------------------------------------------------------------------------
(* The worker by itself. *)

OfLoop(A) == A /\ UNCHANGED <<dispatchVars, leaseVars, arrived>>

LoopAlone ==
    \/ OfLoop(Loop!Cancel)
    \/ OfLoop(Loop!LoopStep)
    \/ OfLoop(Loop!PollReturns)
    \/ OfLoop(Loop!TimerFires)
    \/ \E d \in Deliveries : OfLoop(Loop!Unwind(d))

\* The goroutine that the loop spawned for d.
OfDispatch(A) == A /\ UNCHANGED <<loopVars, leaseVars, arrived>>

DispatchAlone(d) ==
    /\ job[d] = "running"
    /\ \/ OfDispatch(Dispatch!Start(d))
       \/ OfDispatch(Dispatch!Finalize(d))

HandlerReturns(d) == OfDispatch(Dispatch!Handler(d))

\* The steps of the heartbeat that need no server, and a call that fails.
HeartbeatAlone(d) ==
    OfDispatch(\/ Dispatch!HbStop(d) \/ Dispatch!Beat(d)
               \/ Dispatch!HbSwitch(d) \/ Dispatch!LoseLock(d)
               \/ Dispatch!BeatAnswered(d, "error"))

Unwind(d) ==
    /\ pc[d] = "ended"
    /\ Loop!DispatchReturns(d)
    /\ UNCHANGED <<dispatchVars, leaseVars, arrived>>

-----------------------------------------------------------------------------
(* The worker and the server. *)

\* The poll is granted the next delivery of each job of S.
Grant(S) ==
    /\ Loop!ServerGrants({<<k, attempt[k] + 1>> : k \in S})
    /\ Lease!HandOut(S, "me")
    /\ UNCHANGED <<dispatchVars, arrived>>

HeartbeatReply(d) ==
    /\ Dispatch!BeatAnswered(d, Lease!HeartbeatAnswer(JobOf(d), "me"))
    /\ UNCHANGED <<loopVars, leaseVars, arrived>>

\* The server acts on the report of d.  It carries the execution key and the
\* clientID, nothing that tells one delivery of a job from the next.
ReportArrives(d) ==
    /\ sent[d] # "none"
    /\ d \notin arrived
    /\ arrived' = arrived \union {d}
    /\ Lease!Report(JobOf(d), "me", sent[d])
    /\ UNCHANGED <<loopVars, jobsDone, dispatchVars>>

-----------------------------------------------------------------------------
(* The server by itself, and other clients. *)

ServerAlone(A) == A /\ UNCHANGED <<loopVars, jobsDone, dispatchVars, arrived>>

RunOut(k)        == ServerAlone(Lease!RunOut(k))
InstanceEnds(k)  == ServerAlone(Lease!Cancelled(k))
OtherPolls(k)    == /\ OthersReport # {}
                    /\ ServerAlone(Lease!HandOut({k}, "other"))
OtherReports(k)  == /\ holder[k] = "other"
                    /\ \E r \in OthersReport :
                           ServerAlone(Lease!Report(k, "other", r))

Worker(A) == ~crashed /\ A

WorkerStep ==
    Worker(\/ LoopAlone
           \/ \E d \in Deliveries : \/ DispatchAlone(d) \/ HandlerReturns(d)
                                    \/ HeartbeatAlone(d) \/ HeartbeatReply(d)
                                    \/ Unwind(d)
           \/ \E S \in SUBSET WorkJobs : Grant(S))

Next ==
    \/ WorkerStep
    \/ \E d \in Deliveries : ReportArrives(d)
    \/ \E k \in WorkJobs : \/ RunOut(k) \/ InstanceEnds(k)
                           \/ OtherPolls(k) \/ OtherReports(k)

Spec == Init /\ [][Next]_vars

(***************************************************************************)
(* The worker's goroutines run, its requests end by their timeouts, and    *)
(* the shutdown timer fires, as in the components.  Of the environment:    *)
(* not every heartbeat is lost, and a lock that no live heartbeat goroutine*)
(* keeps runs out.  Handlers, reports and the poll are bound to nothing.   *)
(***************************************************************************)
Unattended(k) ==
    \A d \in Deliveries :
        JobOf(d) = k => crashed \/ hb[d] \in {"off", "losing", "done"}

Fairness ==
    /\ WF_vars(Worker(OfLoop(Loop!LoopStep \/ Loop!PollReturns)))
    /\ WF_vars(Worker(OfLoop(Loop!TimerFires)))
    /\ \A d \in Deliveries :
           /\ WF_vars(Worker(\/ DispatchAlone(d) \/ Unwind(d)
                             \/ OfLoop(Loop!Unwind(d))))
           /\ WF_vars(Worker(HeartbeatAlone(d)))
           /\ SF_vars(Worker(HeartbeatReply(d)))
    /\ \A k \in WorkJobs : WF_vars(Unattended(k) /\ RunOut(k))

FairSpec == Spec /\ Fairness

-----------------------------------------------------------------------------
\* Every variable has its type, the components' own types included.
TypeOK ==
    /\ Loop!TypeOK
    /\ Dispatch!TypeOK
    /\ Lease!LeaseTypeOK
    /\ arrived \subseteq Deliveries

\* When Run has returned before the shutdown timeout, nothing of it is left
\* running: no handler, no report waiting for its answer, no heartbeat.  The
\* WaitGroup of the loop counts dispatches; that heartbeats are over follows
\* only from the join in dispatch.
CleanExit ==
    loop = "returned" /\ ~timerFired
        => \A d \in Deliveries : /\ pc[d] \in {"idle", "ended"}
                                 /\ hb[d] \in {"off", "done"}

\* Unless another client completes it, a job completes only if the handler
\* returned variables for one of its deliveries: no error and no panic
\* completes it, however late a report arrives.
CompletedOnlyAfterSuccess ==
    \A k \in WorkJobs :
        status[k] = "COMPLETED" /\ "complete" \notin OthersReport
            => \E d \in arrived : JobOf(d) = k /\ outcome[d] = "vars"

\* The worker keeps the locks of no more jobs alive than it has slots for.
LiveLocks ==
    {d \in Deliveries : hb[d] \in {"waiting", "calling", "answered", "losing"}}

LocksBounded == Cardinality(LiveLocks) <= MaxJobs

\* "Their locks run out on the server": after the shutdown timeout the worker
\* holds no job for good, even if a handler ignores its context and runs on.
LocksRunOutAfterShutdown ==
    \A k \in WorkJobs : jobsDone /\ holder[k] = "me" ~> holder[k] # "me"

\* If handlers return, the worker gives up every lock it was granted: by a
\* report the server acts on, or by no longer renewing it.
HandlersReturn ==
    \A d \in Deliveries : WF_vars(Worker(HandlerReturns(d)))

LocksGivenUp ==
    HandlersReturn => \A k \in WorkJobs : holder[k] = "me" ~> holder[k] # "me"

\* An instance that ends while its job is handled reaches the handler: its
\* context is cancelled, unless it returns before that.
CancelReachesHandler ==
    \A d \in Deliveries :
        pc[d] = "handling" /\ status[JobOf(d)] = "CANCELED"
            ~> Dispatch!CtxDone(d) \/ pc[d] # "handling" \/ crashed

\* "So a stale report can't requeue or fail the job": a report the server acts
\* on is about the delivery that holds the job.  It does not hold: the server
\* knows the worker by its clientID, and the worker may hold the job again.
StaleReportNeverApplies ==
    [][\A d \in arrived' \ arrived :
         leaseVars' # leaseVars => attempt[JobOf(d)] = AttemptOf(d)]_vars
=============================================================================
