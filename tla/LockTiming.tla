----------------------------- MODULE LockTiming -----------------------------
(***************************************************************************)
(* One delivery against the clock: the lock the server granted, the ticker *)
(* of Worker.heartbeat, its requests, and the report (workers/worker.go).  *)
(* heartbeatInterval chooses the interval once, from what the poll said of *)
(* the lock and the worker's own clock, which may be wrong.                *)
(*                                                                         *)
(* Time is relative: what is left of the lock and of the ticker's period,  *)
(* and the age of the request that is out.  The handler and the goroutines *)
(* take no time.  External: the lock and its renewal by the server, and    *)
(* how long messages take.  The server's cap on the total time of an       *)
(* attempt (ENGINE_JOB_MAX_HOLD) is left out.                              *)
(***************************************************************************)
EXTENDS Integers

CONSTANTS
    MinLock, MaxLock,   \* the server's bounds on a lock's duration
    MinInterval,        \* the shortest heartbeat interval: 1 s
    HbTimeout,          \* the time a heartbeat may take: 10 s
    ReportTimeout,      \* the time a report may take: 15 s
    Latency,            \* what a prompt request or answer takes at most
    Requests,           \* the durations given to WithLockDuration
    Skews               \* how far the worker's clock is ahead of the server's

\* Prompt messages are fast against the shortest lock.
ASSUME LatencyAssumption ==
    /\ Latency \in Nat /\ MinLock \in Nat /\ MaxLock \in Nat
    /\ MinLock >= 6 * Latency + 2
    /\ MinLock <= MaxLock

ASSUME TimeoutAssumption ==
    /\ HbTimeout \in Nat /\ HbTimeout >= Latency
    /\ ReportTimeout \in Nat /\ ReportTimeout >= Latency
    /\ MinInterval \in Nat \ {0} /\ 2 * MinInterval <= MinLock
    /\ Requests \subseteq Nat
    /\ Skews \subseteq Int

VARIABLES
    requested,  \* opts.lockDuration
    skew,       \* the worker's clock minus the server's
    interval,   \* the period of the ticker
    lockLeft,   \* the server: what is left of the lock
    tickLeft,   \* the time to the next tick
    ticked,     \* a tick waits in the ticker's channel, which holds one
    call,       \* the request that is out and what has become of it
    age,        \* how long it has been out
    handler,    \* "running", "reporting", "done"
    cancelled,  \* the handler's context is cancelled: lockLost was called
    late,       \* some heartbeat took more than Latency
    missed,     \* some heartbeat had no usable answer
    overrun     \* how long the handler has run without the lock, uncancelled

delivery == <<requested, skew, interval>>
ticker   == <<tickLeft, ticked>>
history  == <<late, missed, overrun>>
vars     == <<delivery, lockLeft, ticker, call, age, handler, cancelled,
              history>>

-----------------------------------------------------------------------------
Larger(a, b)  == IF a >= b THEN a ELSE b
Smaller(a, b) == IF a <= b THEN a ELSE b

\* External: the lock the server grants and renews.
LockFor(request) == Larger(MinLock, Smaller(request, MaxLock))

HeartbeatInterval_WholeMutant(request, apparent) ==     \* not halved
    LET base == IF apparent > 0 THEN Smaller(request, apparent) ELSE request
    IN  Larger(MinInterval, base)
HeartbeatInterval_ZeroMutant(request, apparent) ==      \* no minimum
    LET base == IF apparent > 0 THEN Smaller(request, apparent) ELSE request
    IN  base \div 2

\* apparent is lockExpiresAt minus now; a missing lockExpiresAt and one that
\* has passed fall back to the requested duration.
HeartbeatInterval(request, apparent) ==
    LET base == IF apparent > 0 THEN Smaller(request, apparent) ELSE request
    IN  Larger(MinInterval, base \div 2)

\* The answer of the poll was under way for transit.
Init ==
    \E transit \in 0..Latency :
        /\ requested \in Requests
        /\ skew \in Skews
        /\ lockLeft = LockFor(requested) - transit
        /\ interval = HeartbeatInterval(requested, lockLeft - skew)
        /\ tickLeft = interval
        /\ ticked = FALSE
        /\ call = "none" /\ age = 0
        /\ handler = "running"
        /\ cancelled = FALSE
        /\ late = FALSE /\ missed = FALSE /\ overrun = 0

Working == handler = "running" /\ ~cancelled
Beating == call \in {"beat", "kept", "gone"}

-----------------------------------------------------------------------------
(* The worker. *)

\* heartbeat takes a tick and sends its request.
Beat ==
    /\ Working
    /\ ticked
    /\ call = "none"
    /\ ticked' = FALSE
    /\ call' = "beat"
    /\ age' = 0
    /\ UNCHANGED <<delivery, lockLeft, tickLeft, handler, cancelled, history>>

BeatAnswered_Mutant ==              \* a conflict is only logged
    /\ call \in {"kept", "gone"}
    /\ call' = "none"
    /\ age' = 0
    /\ UNCHANGED <<delivery, lockLeft, ticker, handler, cancelled, history>>

\* On a conflict heartbeat calls lockLost and stops.
BeatAnswered ==
    /\ call \in {"kept", "gone"}
    /\ call' = "none"
    /\ age' = 0
    /\ cancelled' = (call = "gone")
    /\ UNCHANGED <<delivery, lockLeft, ticker, handler, history>>

\* The request or its answer is lost, the answer is another status, or the
\* timeout has passed: it is logged.
BeatFails ==
    /\ Beating
    /\ call' = "none"
    /\ age' = 0
    /\ missed' = TRUE
    /\ UNCHANGED <<delivery, lockLeft, ticker, handler, cancelled, late,
                   overrun>>

\* dispatch ends the heartbeat, request and all, and reports unless ctx has
\* ended.
HandlerReturns ==
    /\ handler = "running"
    /\ handler' = IF cancelled THEN "done" ELSE "reporting"
    /\ call' = IF cancelled THEN "none" ELSE "report"
    /\ age' = 0
    /\ UNCHANGED <<delivery, lockLeft, ticker, cancelled, history>>

-----------------------------------------------------------------------------
(* The server, the network and time. *)

\* A heartbeat renews the lock if there is one left.
ServeBeat ==
    /\ call = "beat"
    /\ call' = IF lockLeft > 0 THEN "kept" ELSE "gone"
    /\ lockLeft' = IF lockLeft > 0 THEN LockFor(requested) ELSE 0
    /\ UNCHANGED <<delivery, ticker, age, handler, cancelled, history>>

\* The report arrives, or does not within its timeout.
ReportEnds ==
    /\ call = "report"
    /\ call' = "none"
    /\ age' = 0
    /\ handler' = "done"
    /\ UNCHANGED <<delivery, lockLeft, ticker, cancelled, history>>

\* A goroutine or a timeout is due.
Urgent ==
    \/ Working /\ ticked /\ call = "none"
    \/ Beating /\ age = HbTimeout
    \/ call = "report" /\ age = ReportTimeout

\* The longest a handler may work without the lock, heartbeats being answered.
NoticeTime == Larger(interval, HbTimeout) + HbTimeout

Tick ==
    /\ handler # "done"
    /\ ~Urgent
    /\ lockLeft' = Larger(lockLeft - 1, 0)
    /\ IF ~Working THEN UNCHANGED ticker
       ELSE IF tickLeft = 1 THEN tickLeft' = interval /\ ticked' = TRUE
       ELSE tickLeft' = tickLeft - 1 /\ UNCHANGED ticked
    /\ age' = IF call = "none" THEN 0 ELSE age + 1
    /\ late' = (late \/ (Beating /\ age >= Latency))
    /\ overrun' = IF Working /\ lockLeft = 0
                  THEN Smaller(overrun + 1, NoticeTime + 1)
                  ELSE overrun
    /\ UNCHANGED <<delivery, call, handler, cancelled, missed>>

Next ==
    \/ Beat \/ BeatAnswered \/ BeatFails \/ HandlerReturns
    \/ ServeBeat \/ ReportEnds \/ Tick

Spec == Init /\ [][Next]_vars

-----------------------------------------------------------------------------
\* Every variable has its type.  In particular the interval is positive,
\* whatever the clock says: NewTicker panics otherwise.
TypeOK ==
    /\ requested \in Requests /\ skew \in Skews
    /\ interval \in Nat \ {0}
    /\ lockLeft \in 0..LockFor(requested)
    /\ tickLeft \in 1..interval
    /\ ticked \in BOOLEAN
    /\ call \in {"none", "beat", "kept", "gone", "report"}
    /\ age \in 0..Larger(HbTimeout, ReportTimeout)
    /\ handler \in {"running", "reporting", "done"}
    /\ cancelled \in BOOLEAN /\ late \in BOOLEAN /\ missed \in BOOLEAN
    /\ overrun \in 0..NoticeTime + 1

\* The clock does no harm if it is ahead by less than the lock, or if the
\* server grants what was requested: the interval is then at most half the
\* lock.
ClockHarmless ==
    requested <= MaxLock \/ (skew >= 0 /\ skew + Latency < LockFor(requested))

\* A lock so long that even the slowest heartbeat comes in time.
Forgiving == LockFor(requested) >= 2 * (HbTimeout + 2 * Latency + 1)

\* The heartbeats keep the lock until the handler has returned and its report
\* has had time to arrive, if each of them is answered: promptly, or with a
\* lock that is long enough just before its timeout.
LockOutlastsWork ==
    /\ ClockHarmless
    /\ ~missed
    /\ ~late \/ Forgiving
    /\ Working \/ (handler = "reporting" /\ age <= Latency)
    => lockLeft > 0

\* Whatever the clock: a handler that has lost its lock is cancelled within
\* one interval (or one slow heartbeat) and one more heartbeat.
LossNoticed == ~missed => overrun <= NoticeTime
=============================================================================
