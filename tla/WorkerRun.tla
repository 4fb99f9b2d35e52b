----------------------------- MODULE WorkerRun -----------------------------
(***************************************************************************)
(* Worker.New, Handle and Run (workers/worker.go): Run starts one loop for *)
(* every task type registered by then, and returns when all of them have.  *)
(* TaskLoop is the inside of a loop.  Here a loop is what the others see   *)
(* of it, and time is in: when polling stops, how long running handlers    *)
(* are waited for, and when Run returns.                                   *)
(*                                                                         *)
(* A poll first takes a token from the client's token provider, whose      *)
(* mutex it awaits without looking at its ctx (auth/client_credentials.go).*)
(* Requests of other goroutines may keep that mutex: TokenWait bounds for  *)
(* how long a poll may have to wait for it in all.                         *)
(*                                                                         *)
(* Time passes in ticks of one unit, and only when no step that can be     *)
(* taken at once is left: the goroutines are fast against the timeouts.    *)
(***************************************************************************)
EXTENDS Integers, FiniteSets

CONSTANTS
    TaskTypes,
    MaxJobs,                \* WithMaxJobs, of every type
    ConfiguredTimeouts,     \* the values Config.ShutdownTimeout may have
    DefaultTimeout,         \* defaultShutdownTimeout
    TokenWait,              \* bound on the wait for the token
    MaxTime                 \* bound on the clock

ASSUME WorkerRunAssumption ==
    /\ IsFiniteSet(TaskTypes)
    /\ MaxJobs \in Nat \ {0}
    /\ ConfiguredTimeouts \subseteq Int
    /\ DefaultTimeout \in Nat \ {0}
    /\ TokenWait \in Nat
    /\ MaxTime \in Nat

VARIABLES
    config,             \* Config.ShutdownTimeout
    shutdownTimeout,    \* the worker's
    registrations,      \* the task types that have a handler
    now,                \* the clock
    cancelledAt,        \* when Run saw its ctx cancelled, or Never
    tokenFreeAt,        \* when the token provider's mutex is free
    run,                \* where Run is
    regs,               \* the types Run took from the registrations
    wg,                 \* the counter of Run's WaitGroup
    loop,               \* loop[t]: where the loop of t is
    running,            \* running[t]: its jobs in flight
    deadline            \* deadline[t]: when its shutdown timer fires

configVars == <<config, shutdownTimeout>>
clockVars  == <<now, tokenFreeAt>>
vars       == <<configVars, registrations, clockVars, cancelledAt, run, regs,
                wg, loop, running, deadline>>

Never   == -1
ctxDone == cancelledAt # Never

RunStates  == {"idle", "starting", "waiting", "returned", "refused"}
LoopStates == {"off", "check", "acquiring", "token", "polling", "draining",
               "returned"}

\* New's default for a ShutdownTimeout of zero or less.
EffectiveTimeout_Mutant(d) == d     \* no default
EffectiveTimeout(d)        == IF d <= 0 THEN DefaultTimeout ELSE d

Init ==
    /\ config \in ConfiguredTimeouts
    /\ shutdownTimeout = EffectiveTimeout(config)
    /\ registrations = {}
    /\ now = 0
    /\ cancelledAt = Never
    /\ tokenFreeAt = 0
    /\ run = "idle"
    /\ regs = {}
    /\ wg = 0
    /\ loop     = [t \in TaskTypes |-> "off"]
    /\ running  = [t \in TaskTypes |-> 0]
    /\ deadline = [t \in TaskTypes |-> 0]

-----------------------------------------------------------------------------
(* Handle, and Run. *)

\* Handle may be called at any time; the loops of a Run that has started do
\* not come to know of it.
Handle(t) ==
    /\ t \notin registrations
    /\ registrations' = registrations \union {t}
    /\ UNCHANGED <<configVars, clockVars, cancelledAt, run, regs, wg, loop,
                   running, deadline>>

RunCalled ==
    /\ run = "idle"
    /\ regs' = registrations
    /\ run' = IF registrations = {} THEN "refused" ELSE "starting"
    /\ UNCHANGED <<configVars, clockVars, registrations, cancelledAt, wg, loop,
                   running, deadline>>

Cancel ==
    /\ run # "idle"
    /\ ~ctxDone
    /\ cancelledAt' = now
    /\ UNCHANGED <<configVars, clockVars, registrations, run, regs, wg, loop,
                   running, deadline>>

Goto(t, from, to) ==
    /\ loop[t] \in from
    /\ loop' = [loop EXCEPT ![t] = to]

StartLoop_Mutant(t) ==      \* runTaskType called without go
    /\ run = "starting"
    /\ t \in regs
    /\ \A u \in TaskTypes : loop[u] \in {"off", "returned"}
    /\ Goto(t, {"off"}, "check")
    /\ wg' = wg + 1
    /\ UNCHANGED <<configVars, clockVars, registrations, cancelledAt, run, regs,
                   running, deadline>>

StartLoop_AddMutant(t) ==   \* wg.Add(1) forgotten
    /\ run = "starting"
    /\ t \in regs
    /\ Goto(t, {"off"}, "check")
    /\ UNCHANGED <<configVars, clockVars, registrations, cancelledAt, run, regs,
                   wg, running, deadline>>

StartLoop(t) ==
    /\ run = "starting"
    /\ t \in regs
    /\ Goto(t, {"off"}, "check")
    /\ wg' = wg + 1
    /\ UNCHANGED <<configVars, clockVars, registrations, cancelledAt, run, regs,
                   running, deadline>>

AllStarted ==
    /\ run = "starting"
    /\ \A t \in regs : loop[t] # "off"
    /\ run' = "waiting"
    /\ UNCHANGED <<configVars, clockVars, registrations, cancelledAt, regs, wg,
                   loop, running, deadline>>

RunReturns ==
    /\ run = "waiting"
    /\ wg = 0
    /\ run' = "returned"
    /\ UNCHANGED <<configVars, clockVars, registrations, cancelledAt, regs, wg,
                   loop, running, deadline>>

-----------------------------------------------------------------------------
(* The loop of a task type. *)

otherVars == <<configVars, clockVars, registrations, cancelledAt, run, regs>>

Check(t) ==
    /\ ~ctxDone
    /\ Goto(t, {"check"}, "acquiring")
    /\ UNCHANGED <<otherVars, wg, running, deadline>>

\* acquireSlots takes a slot, perhaps although ctx has ended, and the poll
\* asks for its token.
AskToken(t) ==
    /\ running[t] < MaxJobs
    /\ Goto(t, {"acquiring"}, "token")
    /\ UNCHANGED <<otherVars, wg, running, deadline>>

TokenFree == now >= tokenFreeAt

GetToken(t) ==
    /\ TokenFree
    /\ ~ctxDone
    /\ Goto(t, {"token"}, "polling")
    /\ UNCHANGED <<otherVars, wg, running, deadline>>

\* The poll returns n jobs, or fails while ctx lives, and the loop backs off.
PollReturns(t, n) ==
    /\ Goto(t, {"polling"}, "check")
    /\ n <= MaxJobs - running[t]
    /\ running' = [running EXCEPT ![t] = @ + n]
    /\ UNCHANGED <<otherVars, wg, deadline>>

JobEnds(t) ==
    /\ running[t] > 0
    /\ running' = [running EXCEPT ![t] = @ - 1]
    /\ UNCHANGED <<otherVars, wg, loop, deadline>>

\* The end of ctx takes the loop to awaitJobs, whose timer starts: from the
\* check, from acquireSlots, from the poll it cuts off, but from the wait for
\* the token only once that is over.
Drain(t) ==
    /\ ctxDone
    /\ \/ Goto(t, {"check", "acquiring", "polling"}, "draining")
       \/ TokenFree /\ Goto(t, {"token"}, "draining")
    /\ deadline' = [deadline EXCEPT ![t] = now + shutdownTimeout]
    /\ UNCHANGED <<otherVars, wg, running>>

TimedOut_Mutant(t) == FALSE                 \* awaitJobs without its timer
TimedOut(t)        == now >= deadline[t]

\* The jobs have ended, or the shutdown timeout has passed.
Leave(t) ==
    /\ running[t] = 0 \/ TimedOut(t)
    /\ Goto(t, {"draining"}, "returned")
    /\ wg' = wg - 1
    /\ UNCHANGED <<otherVars, running, deadline>>

-----------------------------------------------------------------------------
\* External: other requests of the client take the token provider's mutex.
HoldToken(d) ==
    /\ TokenFree
    /\ \A t \in TaskTypes : loop[t] # "token"
    /\ now + d <= MaxTime
    /\ tokenFreeAt' = now + d
    /\ UNCHANGED <<configVars, registrations, now, cancelledAt, run, regs, wg,
                   loop, running, deadline>>

\* A goroutine can take a step that the end of ctx or of a wait has made
\* possible.
Urgent ==
    \/ run = "starting"
    \/ run = "waiting" /\ wg = 0
    \/ \E t \in TaskTypes :
          \/ ctxDone /\ loop[t] \in {"check", "acquiring", "polling"}
          \/ ctxDone /\ loop[t] = "token" /\ TokenFree
          \/ loop[t] = "draining" /\ (running[t] = 0 \/ TimedOut(t))

Tick ==
    /\ now < MaxTime
    /\ ~Urgent
    /\ now' = now + 1
    /\ UNCHANGED <<configVars, registrations, tokenFreeAt, cancelledAt, run,
                   regs, wg, loop, running, deadline>>

Start       == AllStarted \/ \E t \in TaskTypes : StartLoop(t)
LoopStep(t) == Check(t) \/ AskToken(t) \/ GetToken(t) \/ Drain(t) \/ Leave(t)

Next ==
    \/ RunCalled \/ Cancel \/ Start \/ RunReturns
    \/ \E t \in TaskTypes : \/ Handle(t) \/ LoopStep(t) \/ JobEnds(t)
                            \/ \E n \in 0..MaxJobs : PollReturns(t, n)
    \/ \E d \in 1..TokenWait : HoldToken(d)
    \/ Tick

Spec == Init /\ [][Next]_vars

\* Goroutines run, and time passes.
Fairness ==
    /\ WF_vars(Start)
    /\ WF_vars(Tick)
    /\ \A t \in TaskTypes : WF_vars(LoopStep(t))

FairSpec == Spec /\ Fairness

-----------------------------------------------------------------------------
\* Every variable has its type.
TypeOK ==
    /\ config          \in ConfiguredTimeouts
    /\ shutdownTimeout \in Nat \ {0}
    /\ registrations   \in SUBSET TaskTypes
    /\ now             \in Nat
    /\ cancelledAt     \in Nat \union {Never}
    /\ tokenFreeAt     \in Nat
    /\ run             \in RunStates
    /\ regs            \in SUBSET TaskTypes
    /\ wg              \in Nat
    /\ loop            \in [TaskTypes -> LoopStates]
    /\ running         \in [TaskTypes -> 0..MaxJobs]
    /\ deadline        \in [TaskTypes -> Nat]

\* "ShutdownTimeout bounds how long Run waits": the loops wait for their jobs
\* side by side, so Run returns within one timeout however many types there
\* are - counted from when the last poll has got rid of its wait for the token.
RunReturnsInTime ==
    run \in {"starting", "waiting"} /\ ctxDone
        => now <= cancelledAt + TokenWait + shutdownTimeout

\* A handler that is left running was given the whole shutdown timeout that
\* the configuration asks for; "zero falls back to" the default.
HandlersGetTheirTime ==
    \A t \in TaskTypes :
        loop[t] = "returned" /\ running[t] > 0
            => now - cancelledAt >= IF config > 0 THEN config ELSE DefaultTimeout

\* Run returns after its ctx has ended and every loop it has started has.
RunWaitsForLoops ==
    run = "returned" => ctxDone /\ \A t \in regs : loop[t] = "returned"

\* "Different task types run in independent goroutine pools": a type with a
\* free slot is polled, whatever the handlers of other types do.
EveryTypePolled ==
    \A t \in TaskTypes :
        t \in regs /\ running[t] < MaxJobs
            ~> loop[t] = "polling" \/ ctxDone \/ running[t] = MaxJobs

\* "Polling stops at once, including a long-poll in progress".  It does not
\* hold of a poll that waits for the token provider's mutex.
PollingStopsAtOnce ==
    ctxDone /\ now > cancelledAt
        => \A t \in TaskTypes : loop[t] \in {"off", "draining", "returned"}
=============================================================================
