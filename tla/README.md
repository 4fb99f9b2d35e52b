# Verification of quantum-go-sdk

TLA+ models of the Go SDK in this repository, the TLC runs that check them on
small instances, and TLAPS proofs of the safety properties for instances of
any size. The SDK has two parts that keep state which several goroutines
change: the job worker (`workers/worker.go`) and the OAuth token provider
(`auth/client_credentials.go`). They are modelled step by step. The rest is a
thin, stateless layer over a generated HTTP client: its methods are modelled by
the request they make and by how they turn an answer into a result or an error.

    tlc -config MCTaskLoop.cfg MCTaskLoop      # a run
    tlapm TaskLoopProofs.tla                   # a proof

## 1. Inventory

| Part | State | Operations | Talks to |
|---|---|---|---|
| `Worker.runTaskType`, one per task type | `sem` (a channel, one element per slot in use), `inflight` (WaitGroup), `jobsCtx`, the poll under way | poll for as many jobs as there are free slots, give back the rest, spawn, back off, drain, time out | server (poll); `dispatch` goroutines (by `sem`, `inflight`, `jobsCtx`) |
| `Worker.dispatch`, one goroutine per delivered job | a tree of contexts, the handler's result | run the handler, end the heartbeat, report or drop the result | handler (call); heartbeat (contexts, `hbDone`); server (complete, error) |
| `Worker.heartbeat`, one goroutine per dispatch | ticker, request under way | renew the lock, note that it is lost | server (heartbeat); dispatch (cancels its `ctx`) |
| `Worker.New`, `Handle`, `Run` | configuration, `registrations` under `mu` | defaults, register, snapshot, start one loop per task type, wait | the loops |
| `heartbeatInterval` | none | the ticker's period from the requested and the granted lock | heartbeat; the local clock; the server's lock |
| `clampWorkerErrorMessage` | none | cut a message to a byte budget | dispatch |
| `HandleTyped`, `BpmnError` | none | decode, name an error | dispatch |
| `ClientCredentialsTokenProvider` | `cachedToken`, `tokenExpiry`, `mu` | `Token` | identity provider; every request of every goroutine, heartbeats and reports included, through the editor of `auth.NewClient` |
| `auth.NewClient`, static tokens, `client.go` | none that changes | attach a token to each request; wire the parts together | token provider, generated client |
| `bpmn/`, `dmn/` | none | one request per method, status to result or error | generated client |
| `variables/` | none | conversions between maps and wire types | bpmn, dmn, workers |
| `generated/`, which `Client.Raw` hands out | none | per operation: build the request, send it, decode the bodies of some statuses | server |
| the server (not in the repository) | job status, lock holder, lock expiry, retries | grant, renew, run out, settle | worker, other clients |

What is hard here, and what makes each part correct:

* **Slots.** A channel counts slots without saying whose they are, and four
  places must agree on the count: `acquireSlots`, the loop that gives back
  `free - len(jobs)`, the spawn, and the deferred receive. One receive too many
  takes a running handler's slot, and a later receive blocks for ever; one too
  few loses capacity for good. Correct: the count always equals the slots that
  have an owner, and a free slot is polled for.
* **Report against heartbeat.** Two goroutines share contexts. A 409 may be
  decided on before `stopHeartbeat` and cancel `ctx` after it. Correct: no
  heartbeat is out when the report is, a delivery known to be lost is not
  reported, and the join never hangs.
* **Shutdown.** Cancelling `Run`'s ctx stops polling; running jobs go on under
  the detached `jobsCtx` until the timeout. It can strike between any two
  steps: in `acquireSlots`, in a poll the server has already granted jobs to,
  before a spawned goroutine has started, between the check of `ctx` and the
  report. Correct: `Run` leaves nothing behind unless the timeout passed, and
  after the timeout the worker is silent.
* **Lost and late messages.** Locks run out unnoticed, reports arrive when the
  job has moved on, the same worker may hold the job again. Correct: no error
  completes a job, and the worker keeps alive no more locks than it has slots.
* **Time.** The interval of the heartbeat is computed once, from a lock that is
  already running and a clock that may be wrong; a heartbeat may take 10 s, the
  shortest lock, and the ticker drops ticks meanwhile. Correct: answered
  heartbeats keep the lock until the report is in, and a lost lock is noticed.
* **API calls.** A method that returns an error may have been carried out, a
  request cut off may be carried out later, and a redirect may have turned it
  into another one. Correct: a result, a refusal with the server's reason and a
  failed encoding each say what the server has done.
* **Tokens.** One mutex is held across an HTTP request. The answer is late by
  an unknown time, callers race, and requests fail on seven paths. Correct: the
  cache is never more optimistic than the token, and no failure keeps the mutex.

`PROJECT.json` lists each hazard at its line with the properties that cover it,
or says why none does yet.

## 2. Modules

| Module | Models | Proved about in |
|---|---|---|
| `Delivery` | abstract: what becomes of one delivery of a job | |
| `JobDispatch` | `dispatch`, `safeRun`, `heartbeat`, `complete`, `throwError` | `JobDispatchProofs` |
| `GracefulPool` | abstract: a bounded pool that stops | |
| `TaskLoop` | `runTaskType`, `acquireSlots`, `poll`, `awaitJobs` | `TaskLoopProofs` |
| `JobLease` | external: the server's jobs and locks | |
| `WorkerSystem` | `TaskLoop`, `JobDispatch` and `JobLease` composed | `WorkerSystemProofs` |
| `WorkerRun` | `New`, `Handle`, `Run`, with the loops from outside and time | `WorkerRunProofs` |
| `LockTiming` | `heartbeatInterval`, the ticker and the time limits against the lock | `LockTimingProofs` |
| `Clamp` | `clampWorkerErrorMessage` | itself |
| `GeneratedClient` | the operations of `generated/`: requests and decoded statuses | |
| `ApiCalls` | a call of a method of `bpmn/` or `dmn/`, or of `generated/` itself | `ApiCallsProofs` |
| `TokenProvider` | `Token`, called by any number of goroutines | `TokenProviderProofs` |
| `MC*` | constants for TLC | |

A definition whose name ends in `Mutant` is a plausible bug of the definition
beside it. It is used by no specification; put in place of its original it
makes TLC report the properties listed for it in `PROJECT.json`.

### JobDispatch

`pc[j]` is the program counter of the goroutine of delivery `j`, `hb[j]` that
of its heartbeat. The five contexts of the code end for three reasons only, so
three variables stand for them: `jobsDone` (shutdown timeout), `lockLost[j]`
(the heartbeat called `cancel`), `hbStopped[j]` (`stopHeartbeat()`). `CtxDone`
and `HbCtxDone` are `ctx.Err() != nil` in dispatch and in heartbeat.

| Code | Action |
|---|---|
| spawned goroutine enters dispatch, starts heartbeat, calls handler | `Start` |
| `safeRun` returns | `HandlerReturns` |
| `stopHeartbeat()`, `<-hbDone` | `StopHeartbeat`, `JoinHeartbeat` |
| `if ctx.Err() != nil { return }` | `CheckCtx` |
| the switch; building the request in `complete` or `throwError` | `BuildReport`, `PanicOutside` |
| the request editor; sending the report and its answer | `NoToken`, `SendReport`, `ReportAnswered` |
| the select of heartbeat | `HbStop`, `Beat` |
| the request and its answer; the switch; `lockLost()` | `BeatAnswered`, `HbSwitch`, `LoseLock` |
| `cancelJobs()` | `CancelJobs` |

A request made with an ended context fails without being sent, as in
`net/http`; a request already out may still be answered. A handler returns in
one of eight ways, among them a panic and variables that JSON cannot encode
(`badVars`), whose report is never sent. Three of them (`Panicking`) end the
process, since what dispatch does with a result it does outside the recover of
`safeRun`: a nil `*BpmnError`, an error whose `Error`, `As` or `Unwrap` panics,
and variables whose `MarshalJSON` panics. The report also needs a token: if
`Token` fails, or answers when the 15 s are over, the report is not sent, which
is only logged (`NoToken`). That loses a result, and `Delivery` says so: it is a
way to drop one beside the revoked delivery and the result that cannot be
encoded. A report is `sent` once the HTTP client has it; whether it arrives is
`WorkerSystem`'s. The interval of the ticker is left out: a tick may come at any
time.

### TaskLoop

`sem` is `len(sem)`: a send is enabled below capacity, a receive above zero.
`held` is the loop's local claim on slots (`free`, counted down as slots are
given back or pass to goroutines); `job[j]` says where a delivery is, on the
server or in its goroutine. A goroutine unwinds in two steps, `ReleaseSlot`
and then `JobDone`, in the order of its defers. A failed poll may or may not
have been granted jobs: those become `stranded`. Calling `cancelJobs` on
timeout and the deferred one at return are one step with the return.

### WorkerSystem

Instances of the components share `jobsDone`. A delivery is `<<job, n>>`, the
n-th handing out of the job. The guard `job[d] = "running"` ties the dispatch
of `d` to the loop's goroutine, and `pc[d] = "ended"` lets that goroutine
unwind. `arrived` holds the deliveries whose report the server has acted on,
possibly long after the worker gave up on it, or never. The server, in
`JobLease`, knows the holder of a lock by client id alone, as the request
bodies in `worker.go` and in `openapi.yaml` do; a lock may run out at any
moment, an instance may be cancelled at any moment, and other clients poll if
`OthersReport`, the reports they make, is not empty.

### WorkerRun

What `TaskLoop` leaves out: several task types under one `Run`, the WaitGroup
of `Run`, the defaults, and time. A loop is reduced to what the others see of
it: `loop[t]`, its jobs in flight, and when its shutdown timer fires. `now`
moves in ticks, and not while a goroutine has a step to take that the end of
ctx or of a wait has made possible (`Urgent`): goroutines are fast against the
timeouts. A poll waits in `"token"` while other requests of the client hold
the token provider's mutex; `TokenWait` bounds how long in all. `Cancel` is the
end of ctx as the loops see it, and may come in any state of `Run`.
`Handle` may come at any time and changes nothing for a `Run` that has started.

### ApiCalls

One call, since the methods share nothing: contexts are encoded (dmn), then the
body (`BodyFails` if it cannot be), the request editor gets a token, the request
goes out, and the answer is decoded and mapped. The methods are entries of
tables, one table per source file, with the operation behind each, the rule for
success (a decoded body, a body with the instance's ID, any 2xx) and the
statuses whose error body is put into the error. An operation that `Client.Raw`
gives access to hands its answer over unchanged. The server acts on a request
when it likes, also after the caller has given up, and a 5xx may come after it
has acted: from its handler, or from a gateway that lost its answer. So only a
status below 500 says that nothing was done. A call may hang, in the wait for
the token provider's mutex or on a silent server, and nothing is claimed of when
it returns.

What lies before the server may redirect, and `net/http` follows: 301, 302 and
303 make a request a GET, and drop its body (`turned`). Some paths have a GET of
their own (`HasTwin`), so that five methods can report success though nothing
was done: `CancelInstance`, `DeleteResource` and `UpdateInstanceVariables`, which
accept any 2xx, and `UpdateResource` and `UpdateUserTaskAssignment`, whose answer
has the form of the GET's. `OutcomeHonest` names these five (`Mistakable`) and
no other; the others have no GET beside them or do not expect its 200.

### GeneratedClient

The 13 000 generated lines are two functions per operation that differ in
constants only, and the steps between them, which all share. The constants are
two tables in the order of the file: `Requests` (verb, path, whether there is a
JSON body; the code that puts query parameters together is left out, and no
table stands for it) and `Decoded` (the statuses whose body is unmarshalled, which fails
the call if the body is not what it should be). The steps are in `ApiCalls`.

### LockTiming

One delivery with time relative to now: what is left of the server's lock and of
the ticker's period, and the age of the request that is out. `skew` is the error
of the worker's clock, which `HeartbeatInterval` reads once. `ticked` is the one
tick a ticker's channel holds. `Tick` waits while a goroutine or a timeout is due
(`Urgent`). A message is prompt if it takes at most `Latency`; requests may take
up to their timeouts. `LockOutlastsWork` says under what conditions the design
works, and they are part of the result:

* every heartbeat is answered: one that fails leaves no time for another;
* the answers are prompt, unless the lock is `Forgiving`, at least
  `2 * (HbTimeout + 2 * Latency + 1)`: with the code's 10 s the default lock of
  30 s qualifies if messages take at most 2 s; the shortest lock, 10 s, never;
* the clock does no harm: with a request above the server's maximum the interval
  follows the local clock, and if that is behind, it exceeds half of the granted
  lock.

`LossNoticed` has no such condition but the first.

### Clamp

A message is its length and the positions where a rune starts. The function
keeps no state, so there is no run; what its comment promises is proved.

### TokenProvider

The steps of `Token` between the lock and the deferred unlock, with `now` a
discrete clock, `requestedAt` the local variable, and `expiry` the real end of
a token's life, which only the identity provider knows. A response may carry
`expires_in` or leave it out. It may also come arbitrarily later than the token
was issued. `AsDuration` is the conversion of `expires_in` to a `time.Duration`:
a number too large for it becomes the largest or the smallest one, whichever the
processor yields; a negative one is an expiry in the past.

## 3. Runs

| Run | Constants | States | Shows |
|---|---|---|---|
| `dispatch` | 2 deliveries, all 8 outcomes | 84k | the four safety and three liveness properties of a dispatch, and that it implements `Delivery` |
| `task_loop` | 4 jobs, 3 slots | 45k | slots, WaitGroup, shutdown, that a job which reached the worker is run, and that the loop implements `GracefulPool`, fairness included |
| `token_provider` | 2 callers, lifetimes 1, 3 and one too large, margin 1, default 3, clock to 4, 2 tokens | 153k | cache and mutex |
| `system` | 1 job, 1 retry, 1 slot, other clients that fail jobs | 57k | what `Run` leaves behind; when a job completes; locks are given up, cancellation arrives |
| `worker_run` | 2 task types, 1 slot each, timeouts 0, 1, 3, default 2, wait for the token 1, clock to 5 | 41k | types are polled and shut down side by side; `Run` and handlers get the time they are promised |
| `api_calls` | all methods and operations, 5 error statuses, batches to 2 rows, 2 redirects | 88k | what a result and an error say about the server |
| `lock_timing` | locks 8 to 22, heartbeat 8, report 12, latency 1, four requests, four clocks | 162k | locks outlast the work, losses are noticed |
| `dispatch_crash` | as `dispatch` | - | violated: see finding 1 |
| `dispatch_unencodable` | as `dispatch` | - | violated: see finding 2 |
| `task_loop_stranded` | as `task_loop` | - | violated: see finding 3 |
| `system_stale` | 1 job, 1 retry, 2 slots | - | violated: see finding 4 |
| `worker_run_token` | as `worker_run` | - | violated: see finding 5 |

**Bounds.** Deliveries meet in `JobDispatch` only through `jobsDone` and the
process, so two suffice. Three slots and four jobs let a poll fill none, some
or all of the slots it asked for, with others in use, and let a slot be used
again. One job with one retry is handed out twice: the second delivery can run
beside the first one's late requests, in the same worker or in
another client. Both at once in one worker needs the two slots of
`system_stale`; the theorems about `WorkerSystem` are for any number. The lifetimes lie at the margin, at the default and above it,
and the clock runs far enough for a token to come within its margin and be
replaced. Two task types are enough for one loop to be done while the other waits; the
shutdown timeouts are the zero that means the default, one below it and one
above, and the clock outlasts the longest wait for a token followed by the
longest timeout. The requested locks lie below the server's bounds, at the
shortest, at a forgiving one and above the longest; the clocks are behind, right,
ahead by less than the shortest lock and by more than the longest. The shortest
lock is as long as a heartbeat's timeout, as with the server's defaults.
`net/http` follows ten redirects; a second one differs from none and one only in
that a request may already have been turned. `MaxTime`, `MaxTokens`, `MaxRows`,
`MaxHops` and `Retries` are the only bounds on counters.
The first two bound the environment: once they are reached, time stops, tokens
run dry and requests fail.

**Deadlock** is not checked (`CHECK_DEADLOCK FALSE`) because every one of these
systems really stops: a worker shuts down, a clock bound is reached. That
nothing stops *early* is what the liveness properties say.

**Fairness.** Weak fairness for each goroutine's own steps: the Go scheduler
runs what can run. Requests of the worker end by their deadlines (heartbeat
10 s, report 15 s, poll timeout + 10 s), and a timer fires. Not assumed: that a
handler returns, that the server grants or answers. `LocksGivenUp` states the
return of handlers as its hypothesis. A Go mutex starves nobody, hence strong
fairness of `Lock`. Two assumptions are about the environment, and are stated
where they are used: a token request ends, which holds only if the configured
`HTTPClient` or the caller's ctx has a deadline (`http.DefaultClient` has none; heartbeats and reports wait for the provider's
mutex too, so the end of the worker's requests rests on it as well);
and in `WorkerSystem` not every heartbeat is lost and a lock nobody renews runs
out.

**Findings.**

1. A handler that returns a nil `*BpmnError` as its error crashes the process
   (`worker.go:381`): `isBpmnError` matches it, `be.Code` is read, and the
   recover of `safeRun` is gone by then. Two further ways are the same flaw: an
   error whose `Error` panics (`worker.go:386-389`), such as a typed nil of the
   caller's own, and variables whose `MarshalJSON` panics (`worker.go:476-480`,
   `513-519`).
2. A handler's variables that JSON cannot encode (a NaN, a channel) are neither
   completed nor reported as an error (`worker.go:476`): the request cannot be
   built, the error is logged, the lock runs out at the price of a retry and the
   handler runs again. `worker.go:51` says "(vars, nil) → Complete".
3. "The worker only ever polls for free slots, so it holds no job it is not
   running" (`README.md:292`) does not hold when a poll is cut off by the
   shutdown after the server granted jobs to it.
4. A stale report can settle a job (`worker.go:516`): the lock ran out, the
   same worker polled the job again, and the report of the first delivery
   carries nothing that tells it from the second. `openapi.yaml:2524-2526`
   promises that the clientID prevents this.
5. "Polling stops at once, including a long-poll in progress"
   (`README.md:292`) does not hold of a poll that waits for the token
   provider's mutex (`client_credentials.go:66`): it sees its ctx only when the
   token request of another goroutine has ended, and the shutdown timer of its
   loop starts no sooner.

## 4. Proofs

Checked by tlapm for every set of deliveries or callers and every value of the
other constants, from the named assumptions only: `OutcomesAssumption`,
`JobsAssumption` (finitely many jobs), `MaxJobsAssumption` (`MaxJobs > 0`),
`TimeAssumption`, `WorkerRunAssumption` (finitely many task types, a positive
default timeout), `ApiAssumption` (error statuses are 400 to 599),
`LatencyAssumption` (the shortest lock is over six times as long as a prompt
message takes), `TimeoutAssumption`, and `SystemAssumption`, which is the
components' own. Every safety invariant and every action property of the
passing runs is the conclusion of a theorem.

**What holds instead.** Each finding is a property that fails. For each of them
a theorem bounds the failure, and mostly a second one says that without its cause
there is none:

| Finding | What holds in every case | Without the cause |
|---|---|---|
| 1 crash | `CrashOnlyByResult`: only a nil `*BpmnError`, or an error or variables whose methods panic | `HarmlessNeverCrash` |
| 2 lost result | `ResultsReported`: what can be encoded is reported, unless its delivery was revoked or its report got no token | `EncodableNeverLost`, with the same exceptions |
| 3 stranded jobs | `PolledJobsRun`: a job that arrived gets its goroutine | `OnlyStrandedUnrun`: no failed poll was granted anything |
| 4 stale report | `StaleReportsSpareOthers`: only a job the worker holds itself, and `EndedJobsSettled` | `NoRetryNoStale` |
| 5 late polls | `PollingStops`: within one wait for the token, and `NoPollAfterwards` | `PollingStopsAtOnceWithoutWait` |
| redirects (hazard) | `OutcomesHonest`: five named methods | |

What is proved of crashes is about the handler and what it returns. Code of the
caller that the worker calls besides (token provider, logger, tracer, HTTP
transport) is taken not to panic.

**The safety half of liveness.** Fairness is out of the prover's reach, but
most of what a liveness property rests on is not: that the steps left are
bounded, that nothing adds to them, and that one of them can be taken.

| Liveness property | Proved |
|---|---|
| `ReturnedDispatchEnds` | `DispatchesEnd`: at most eight steps of dispatch and heartbeat from `stopHeartbeat` on; `DispatchNeverStuck`: until the end one of the two can go on |
| `TimeoutSilencesHeartbeats` | `HeartbeatsEnd`: at most three steps of a heartbeat whose context has ended |
| `ConflictCancelsHandler` | `ConflictsHeeded`: no step forgets a 404 or 409 |
| the pool ends (`ImplementsPool`) | `ShutdownWindsDown`: at most `5 + 2 * MaxJobs` steps of the loop, which no other goroutine raises; `ReleaseEnabled`, `GiveBackEnabled` |
| `PolledJobsAreRun` | `PolledJobsRun`: a delivered job that has no goroutine yet has a slot of its own, and the loop is on its way to the spawn |
| `CallReturns` | `MutexComesFree`: the mutex is held exactly by the call inside `Token`, and only a call that is over gives it up |

What remains to TLC there is that the goroutines do take those steps.

**Arguments.**

* `JobDispatchProofs`. `HeartbeatEndsBeforeReport`, `LostLockNotReported` and
  `HeartbeatUntilReturn` are not inductive. `Phased` adds
  what each program counter says about the rest: the heartbeat's context is
  stopped exactly from `stopHeartbeat` on (without the "exactly" a dispatch
  could join a heartbeat that nobody ends); before the report nothing is
  sent; past the join the heartbeat is off for good; `losing` and `done` go
  with a cause. Theorem `NoHeartbeatBesideReport` needs the phase between join
  and report; `LostLockSilent` needs that `lockLost` cannot change after the
  join. The action property `TimeoutSilences` follows from the guards and the
  types. `Truthful` ties the outcome, the report and the end of each dispatch
  together; what is said of crashes and of reports follows from it. The variants
  `HbLeft` and `DispatchLeft` count the steps to the end by program counter.
  `DispatchImplementsDelivery` maps `Init` to `Init` and each action to
  a step of `Delivery` or to a stutter: joining and checking stutter, the check
  that finds `ctx` ended is `Drop`, a report without a token is `Deny`, and a
  shutdown timeout or a lost lock is `Revoke`. `Phased` supplies `sent[j] = "none"` where a verdict is formed.
* `TaskLoopProofs`. `Placed` says where deliveries can be in each state of the
  loop: granted only while polling, polled only until the spawn is done, none
  held outside the loop body. With it `SlotsAccounted` is inductive, by
  counting: each action moves at most one delivery between the counted sets, or
  a set of granted ones bounded by `held`. `ConcurrencyBound`,
  `ReleaseNeverBlocks` and `GiveBackNeverBlocks` follow from it and
  `sem <= MaxJobs`, and so does `LoopLeft`, the number of steps left after the
  cancellation: the slots still to be given back or filled, and the way out.
  `InflightExact` and `ShutdownClean` need only each other's counting.
  `LoopImplementsPool` maps each step to one of `GracefulPool` or a stutter: the
  spawn is `Begin`, for which `SlotsAccounted` shows that there is room, the
  deferred receive is `Finish`, and the way out of the loop is `Drain`.
* `TokenProviderProofs`. `Exclusive` (a caller inside `Token` is the holder of
  the mutex) gives `SingleFlight`, and with its converse `Owned`
  `MutexComesFree`; `Pending` adds that the reply awaited is
  newer than the cache and that its lifetime, counted from the request, ends no
  later than the token does. The action properties follow. Lifetimes are any
  integers, also those that overflow.
* `WorkerRunProofs`. `RunReturnsInTime` speaks of `Run`, but what is late is a
  loop. `Timed` bounds each loop by where it is: those that can react to the end
  of ctx have had no tick since, one that waits for the token is within
  `TokenWait`, one that drains is within its deadline, which is a shutdown
  timeout after it got there. `Counted` (the WaitGroup is the number of active
  loops, so that a waiting `Run` has one) carries the bound over to `Run` and,
  with `Started`, gives `RunWaitsForLoops`. `Timed` also bounds the deadline from
  below, which gives `HandlersGetTheirTime`, and gives `PollingStops` for each
  type by itself.
* `ApiCallsProofs`. `MethodsSound` says of every entry of the tables that it
  takes no error status for a success and no success for a reason; `Phased`
  ties the request and the server's verdict to the program counter, also when
  the server acts after the return. That only five methods can be misled rests
  on the tables: `RequestsSorted` and `MethodsPlaced` go through all requests
  and all methods, and find each of the others reading, alone on its path, or
  not expecting 200. `OutcomeHonest` follows.
* `LockTimingProofs`. `Margin` is the argument of the heartbeat's design: if
  nothing has happened that `LockOutlastsWork` excuses, the interval is at most
  half the lock, and what is left of the lock always covers the way to the next
  tick, the heartbeat and the report. `Noticed` bounds the time until the next
  answer by the interval and two timeouts, tick in the channel or not.
* `WorkerSystemProofs`. Every step of the system is a step or a stutter of
  `TaskLoop` and one of `JobDispatch`, so the inductive invariants of both hold
  of it, instantiated with deliveries for jobs, and it implements both abstract
  specifications, `GracefulPool` and `Delivery`. `Tied` joins them: a dispatch
  runs only in a goroutine that holds a slot, and a goroutine unwinds only when
  its dispatch has ended; `ExitClean`, `LocksAlwaysBounded` and
  `DispatchesAlwaysBounded` follow by
  counting. `Charged` accounts for the server's retries, and `Reported` for what
  has arrived; `CompletionSound` rests on a report being sent once and never
  changing after that. `LockHasReason` needs `NotYetGranted`: a delivery whose
  turn has not come is nowhere in the worker, hence no old report or heartbeat
  is about the lock that a new grant creates. With it a report that takes effect
  is about the delivery that has the lock or an earlier one of the same job.
  `SilenceAfterRun` joins the loop's way out, which ends the jobs' context, with
  `TimeoutSilences`. It does not say that no handler begins: a goroutine spawned
  before a shutdown that timed out may call its handler after `Run` has returned
  (`worker.go:263-266`), and only such a one, whose result is then not reported.
* `Clamp`. The loop that moves the cut back ends at a rune start
  (`CutExists`, by well-founded induction from the library); the theorems follow.
  A limit below the marker's length yields the marker, which is longer.

**Only model-checked**, because fairness and `ENABLED` are beyond the prover:
all liveness - the properties of the second table, `FreeSlotIsPolled`,
`PolledJobsAreRun`, `LocksGivenUp`, `LocksRunOutAfterShutdown`,
`CancelReachesHandler` and `EveryTypePolled` - and the fairness of
`GracefulPool` in `ImplementsPool`.

## 5. Not modelled

* `workers/`: tracing and logs; a second `Run`, the replacement of a handler,
  `MaxJobs` of zero, a server that grants more than was asked for; the JSON of
  `HandleTyped` (a failure is an `error` outcome); a handler that calls
  `runtime.Goexit`; panics in goroutines that a handler starts itself, and in the
  caller's token provider, logger, tracer and transport.
* `bpmn/`, `dmn/`, `generated/`: path and query parameters, options, the types
  of requests and results. Lists are read page by page by the caller; the SDK
  keeps no cursor.
* `variables/`: conversions of maps by `encoding/json` and reflection, field by
  field and without state. That one can fail is in `ApiCalls` (a context that
  does not encode) and in `JobDispatch` (`badVars`).
* `client.go`: `New` checks its configuration once and wires the parts.
* `net/http`: what it may send again on a connection that broke.
* The server: incidents, the idempotent repetition of a report, the cap on an
  attempt's total time, and a grant made after the client has hung up (it looks
  like a grant just before). Lock durations are in `LockTiming` only: elsewhere a
  lock may run out at any time, so that safety does not depend on them.

## 6. Plan

* Proofs: the safety half of the liveness that has none yet - the steps left to
  `Run` and its loops once ctx has ended (`WorkerRun`), the way from a lost lock
  to the end of the handler's context and from the last slot to a server that
  holds no lock (`WorkerSystem`).
* `WorkerAuth`: heartbeats and reports through one `TokenProvider`. Does a token
  request without a deadline keep a finished handler's slot, for how long does a
  report wait, and when is it lost (`NoToken`)? `WorkerRun` has the question for polls (finding 5); for the
  others, `Request` and `Lock` of `TokenProvider` would replace the answers that
  `JobDispatch` assumes.
