------------------------------ MODULE TaskLoop ------------------------------
(***************************************************************************)
(* Worker.runTaskType with acquireSlots, poll and awaitJobs (workers/      *)
(* worker.go): the long-poll loop of one task type, the goroutines it      *)
(* spawns, and its shutdown.  The channel sem counts the slots in use: a   *)
(* send takes one and blocks when MaxJobs are taken, a receive gives one   *)
(* back and blocks when none is.  Nothing records whose slot is whose, and *)
(* four places have to agree on it: acquireSlots, the loop that gives back *)
(* what a poll did not fill, the spawn, and the deferred receive of every  *)
(* dispatch.                                                               *)
(*                                                                         *)
(* dispatch is one step here, from DispatchReturns on (JobDispatch is its  *)
(* inside), and the server is the two external actions that grant a job    *)
(* and answer a poll.                                                      *)
(***************************************************************************)
EXTENDS Naturals, FiniteSets

CONSTANTS
    Jobs,       \* the deliveries the server may make, each at most once
    MaxJobs     \* WithMaxJobs

ASSUME JobsAssumption == IsFiniteSet(Jobs)
ASSUME MaxJobsAssumption == MaxJobs \in Nat \ {0}

VARIABLES
    ctxDone,    \* Run's ctx has been cancelled
    loop,       \* where the loop is
    sem,        \* len(sem)
    held,       \* the slots of sem the loop itself answers for
    failed,     \* the poll just made returned an error
    job,        \* job[j]: how far the delivery j is
    inflight,   \* the counter of the WaitGroup
    timerFired, \* the timer of awaitJobs has fired
    jobsDone    \* jobsCtx has been cancelled

vars == <<ctxDone, loop, sem, held, failed, job, inflight, timerFired,
          jobsDone>>

LoopStates == {"check", "acquire", "acquireMore", "polling", "giveBack",
               "backoff", "spawn", "await", "returned"}

\* On the server: queued, granted to the poll under way, or stranded - granted
\* to a poll that then failed.  In the worker: polled, running (spawned, in
\* dispatch), releasing (before <-sem), finishing (before inflight.Done), gone.
JobStates == {"queued", "granted", "stranded", "polled", "running",
              "releasing", "finishing", "gone"}

In(states) == {j \in Jobs : job[j] \in states}

Polled     == In({"polled"})
Locked     == In({"granted", "polled"})
HoldsSlot  == In({"running", "releasing"})
InFlight   == In({"running", "releasing", "finishing"})

Init ==
    /\ ctxDone    = FALSE
    /\ loop       = "check"
    /\ sem        = 0
    /\ held       = 0
    /\ failed     = FALSE
    /\ job        = [j \in Jobs |-> "queued"]
    /\ inflight   = 0
    /\ timerFired = FALSE
    /\ jobsDone   = FALSE

Goto(from, to) ==
    /\ loop = from
    /\ loop' = to

Move(js, to) == job' = [j \in Jobs |-> IF j \in js THEN to ELSE job[j]]

-----------------------------------------------------------------------------
\* The caller of Run cancels its ctx.
Cancel ==
    /\ ~ctxDone
    /\ ctxDone' = TRUE
    /\ UNCHANGED <<loop, sem, held, failed, job, inflight, timerFired,
                   jobsDone>>

\* for ctx.Err() == nil
Check ==
    /\ Goto("check", IF ctxDone THEN "await" ELSE "acquire")
    /\ UNCHANGED <<ctxDone, sem, held, failed, job, inflight, timerFired,
                   jobsDone>>

\* The select of acquireSlots: the send may be chosen although ctx has ended.
AcquireFirst ==
    /\ Goto("acquire", "acquireMore")
    /\ sem < MaxJobs
    /\ sem' = sem + 1
    /\ held' = 1
    /\ UNCHANGED <<ctxDone, failed, job, inflight, timerFired, jobsDone>>

AcquireCancelled ==
    /\ Goto("acquire", "await")
    /\ ctxDone
    /\ UNCHANGED <<ctxDone, sem, held, failed, job, inflight, timerFired,
                   jobsDone>>

AcquireMore ==
    /\ loop = "acquireMore"
    /\ held < MaxJobs
    /\ sem < MaxJobs
    /\ sem' = sem + 1
    /\ held' = held + 1
    /\ UNCHANGED <<ctxDone, loop, failed, job, inflight, timerFired, jobsDone>>

\* The non-blocking sends end when all slots are taken, by the loop or by
\* others.  With a ctx that has ended the poll fails unsent.
SendPoll ==
    /\ held = MaxJobs \/ sem = MaxJobs
    /\ Goto("acquireMore", IF ctxDone THEN "giveBack" ELSE "polling")
    /\ failed' = ctxDone
    /\ UNCHANGED <<ctxDone, sem, held, job, inflight, timerFired, jobsDone>>

-----------------------------------------------------------------------------
\* External: the server locks up to maxJobs queued jobs for the poll, once.
ServerGrants(js) ==
    /\ loop = "polling"
    /\ In({"granted"}) = {}
    /\ js # {}
    /\ js \subseteq In({"queued"})
    /\ Cardinality(js) <= held
    /\ Move(js, "granted")
    /\ UNCHANGED <<ctxDone, loop, sem, held, failed, inflight, timerFired,
                   jobsDone>>

\* 200 with the granted jobs, or 204.
PollAnswered ==
    /\ Goto("polling", "giveBack")
    /\ Move(In({"granted"}), "polled")
    /\ UNCHANGED <<ctxDone, sem, held, failed, inflight, timerFired, jobsDone>>

\* ctx was cancelled, the connection broke, the deadline passed, the body did
\* not decode, or another status came: jobs the server granted stay locked.
PollFailed ==
    /\ Goto("polling", "giveBack")
    /\ failed' = TRUE
    /\ Move(In({"granted"}), "stranded")
    /\ UNCHANGED <<ctxDone, sem, held, inflight, timerFired, jobsDone>>

GiveBack_Mutant ==                   \* gives back len(jobs) slots too many
    /\ loop = "giveBack"
    /\ held > 0
    /\ sem > 0
    /\ sem' = sem - 1
    /\ held' = held - 1
    /\ UNCHANGED <<ctxDone, loop, failed, job, inflight, timerFired, jobsDone>>

\* for range free - len(jobs) { <-sem }
GiveBack ==
    /\ loop = "giveBack"
    /\ held > Cardinality(Polled)
    /\ sem > 0
    /\ sem' = sem - 1
    /\ held' = held - 1
    /\ UNCHANGED <<ctxDone, loop, failed, job, inflight, timerFired, jobsDone>>

GiveBackDone_Mutant ==               \* skipped when the poll failed
    /\ failed \/ held <= Cardinality(Polled)
    /\ Goto("giveBack", IF ~failed THEN "spawn"
                        ELSE IF ctxDone THEN "await" ELSE "backoff")
    /\ held' = IF failed THEN 0 ELSE held
    /\ failed' = FALSE
    /\ UNCHANGED <<ctxDone, sem, job, inflight, timerFired, jobsDone>>

GiveBackDone ==
    /\ held <= Cardinality(Polled)
    /\ Goto("giveBack", IF ~failed THEN "spawn"
                        ELSE IF ctxDone THEN "await" ELSE "backoff")
    /\ failed' = FALSE
    /\ UNCHANGED <<ctxDone, sem, held, job, inflight, timerFired, jobsDone>>

\* After 2 s, or when ctx ends.
Backoff ==
    /\ Goto("backoff", "check")
    /\ UNCHANGED <<ctxDone, sem, held, failed, job, inflight, timerFired,
                   jobsDone>>

Spawn_Mutant(j) ==                   \* inflight.Add(1) forgotten
    /\ loop = "spawn"
    /\ job[j] = "polled"
    /\ job' = [job EXCEPT ![j] = "running"]
    /\ held' = held - 1
    /\ UNCHANGED <<ctxDone, loop, sem, failed, inflight, timerFired, jobsDone>>

\* The slot passes to the new goroutine.
Spawn(j) ==
    /\ loop = "spawn"
    /\ job[j] = "polled"
    /\ job' = [job EXCEPT ![j] = "running"]
    /\ held' = held - 1
    /\ inflight' = inflight + 1
    /\ UNCHANGED <<ctxDone, loop, sem, failed, timerFired, jobsDone>>

SpawnDone_Mutant ==                  \* looks at ctx before every spawn
    /\ Polled = {} \/ ctxDone
    /\ Goto("spawn", "check")
    /\ UNCHANGED <<ctxDone, sem, held, failed, job, inflight, timerFired,
                   jobsDone>>

SpawnDone ==
    /\ Polled = {}
    /\ Goto("spawn", "check")
    /\ UNCHANGED <<ctxDone, sem, held, failed, job, inflight, timerFired,
                   jobsDone>>

-----------------------------------------------------------------------------
(* The goroutine of a delivery, whose deferred calls run last in first out. *)

DispatchReturns(j) ==
    /\ job[j] = "running"
    /\ job' = [job EXCEPT ![j] = "releasing"]
    /\ UNCHANGED <<ctxDone, loop, sem, held, failed, inflight, timerFired,
                   jobsDone>>

ReleaseSlot(j) ==
    /\ job[j] = "releasing"
    /\ sem > 0
    /\ sem' = sem - 1
    /\ job' = [job EXCEPT ![j] = "finishing"]
    /\ UNCHANGED <<ctxDone, loop, held, failed, inflight, timerFired, jobsDone>>

JobDone(j) ==
    /\ job[j] = "finishing"
    /\ inflight' = inflight - 1
    /\ job' = [job EXCEPT ![j] = "gone"]
    /\ UNCHANGED <<ctxDone, loop, sem, held, failed, timerFired, jobsDone>>

-----------------------------------------------------------------------------
(* awaitJobs.  jobsCtx is cancelled by the timeout, and by the deferred     *)
(* cancelJobs when runTaskType returns, which follows either case at once.  *)

TimerFires ==
    /\ loop = "await"
    /\ ~timerFired
    /\ timerFired' = TRUE
    /\ UNCHANGED <<ctxDone, loop, sem, held, failed, job, inflight, jobsDone>>

Return ==
    /\ Goto("await", "returned")
    /\ jobsDone' = TRUE
    /\ UNCHANGED <<ctxDone, sem, held, failed, job, inflight, timerFired>>

AwaitDone ==
    /\ inflight = 0
    /\ Return

AwaitTimeout ==
    /\ timerFired
    /\ Return

-----------------------------------------------------------------------------
PollReturns == PollAnswered \/ PollFailed
LoopStep    == \/ Check \/ AcquireFirst \/ AcquireCancelled \/ AcquireMore
               \/ SendPoll \/ GiveBack \/ GiveBackDone \/ Backoff
               \/ (\E j \in Jobs : Spawn(j)) \/ SpawnDone
               \/ AwaitDone \/ AwaitTimeout
Unwind(j)   == ReleaseSlot(j) \/ JobDone(j)

Next ==
    \/ Cancel
    \/ LoopStep
    \/ \E js \in SUBSET Jobs : ServerGrants(js)
    \/ PollReturns
    \/ \E j \in Jobs : DispatchReturns(j) \/ Unwind(j)
    \/ TimerFires

Spec == Init /\ [][Next]_vars

(***************************************************************************)
(* Goroutines that can run do, a poll carries a deadline, and the timer    *)
(* fires.  Neither the server nor a handler is bound to anything.          *)
(***************************************************************************)
Fairness ==
    /\ WF_vars(LoopStep)
    /\ WF_vars(PollReturns)
    /\ WF_vars(TimerFires)
    /\ \A j \in Jobs : WF_vars(Unwind(j))

FairSpec == Spec /\ Fairness

-----------------------------------------------------------------------------
\* Every variable has its type; sem is a channel of capacity MaxJobs.
TypeOK ==
    /\ ctxDone    \in BOOLEAN
    /\ loop       \in LoopStates
    /\ sem        \in 0..MaxJobs
    /\ held       \in 0..MaxJobs
    /\ failed     \in BOOLEAN
    /\ job        \in [Jobs -> JobStates]
    /\ inflight   \in Nat
    /\ timerFired \in BOOLEAN
    /\ jobsDone   \in BOOLEAN

\* Every slot taken is one the loop is about to fill or give back, or one a
\* goroutine still has to release, and every job locked for the worker has a
\* slot waiting for it: no receive takes a slot that is another's.
SlotsAccounted ==
    /\ sem = held + Cardinality(HoldsSlot)
    /\ Cardinality(Locked) <= held

\* "Caps how many jobs the runtime acquires": with those locked for it on the
\* server and those it is about to start, never more than MaxJobs.
ConcurrencyBound ==
    Cardinality(HoldsSlot) + Cardinality(Locked) <= MaxJobs

\* The deferred receive finds a slot to take: no goroutine hangs in it, so the
\* WaitGroup is always told.
ReleaseNeverBlocks ==
    In({"releasing"}) # {} => sem > 0

\* The WaitGroup counts exactly the goroutines awaitJobs has to wait for.
InflightCounted == inflight = Cardinality(InFlight)

\* Run returns within the shutdown timeout only when nothing is running, and
\* no handler's context ends before that.
CleanShutdown ==
    jobsDone => loop = "returned" /\ (timerFired \/ InFlight = {})

\* A job that has reached the worker is run, also if ctx is cancelled between
\* the poll's answer and the spawn: the shutdown drops no job that the server
\* has locked for this worker and that the worker knows of.
PolledJobsAreRun ==
    \A j \in Jobs : job[j] = "polled" ~> job[j] = "running"

\* No slot is lost: while a handler fewer than MaxJobs is running, the loop
\* comes to poll for the free slot, whatever earlier polls returned.
FreeSlotIsPolled ==
    Cardinality(HoldsSlot) < MaxJobs
        ~> loop = "polling" \/ ctxDone \/ Cardinality(HoldsSlot) = MaxJobs

\* "The worker only ever polls for free slots, so it holds no job it is not
\* running", once polling has stopped.  It does not hold: the server may have
\* granted jobs to the poll that the cancellation cut off.
HoldsOnlyRunning ==
    ctxDone /\ loop \in {"await", "returned"}
        => In({"granted", "stranded"}) = {}

-----------------------------------------------------------------------------
Stage == CASE loop = "await"    -> "draining"
           [] loop = "returned" -> "stopped"
           [] OTHER             -> "serving"

Pool == INSTANCE GracefulPool WITH
    Size     <- MaxJobs,
    stage    <- Stage,
    stopping <- ctxDone,
    overdue  <- timerFired,
    active   <- HoldsSlot,
    finished <- In({"finishing", "gone"})

\* The loop keeps the promises of GracefulPool, its liveness included.
ImplementsPool == Pool!FairSpec
=============================================================================
