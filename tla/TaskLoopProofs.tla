--------------------------- MODULE TaskLoopProofs ---------------------------
(***************************************************************************)
(* Theorems about TaskLoop, for any finite set of deliveries and any       *)
(* MaxJobs.                                                                *)
(*                                                                         *)
(* That a receive from sem never takes another's slot, nor blocks for      *)
(* ever, rests on an account of every slot (SlotsAccounted) that holds     *)
(* only together with what the loop knows at each point: Placed says where *)
(* the loop may still hold slots, and where jobs may be granted or polled. *)
(***************************************************************************)
EXTENDS TaskLoop, FiniteSetTheorems, TLAPS

\* Outside a poll round the loop holds no slot, and jobs are locked for it
\* only where they wait for the poll's answer or to be spawned.
Placed ==
    /\ loop \in {"check", "acquire", "backoff", "await", "returned"} => held = 0
    /\ In({"granted"}) # {} => loop = "polling"
    /\ Polled # {} => loop \in {"giveBack", "spawn"} /\ ~failed
    /\ loop \in {"polling", "spawn"} => ~failed
    /\ loop = "spawn" => held = Cardinality(Polled)
    /\ jobsDone <=> loop = "returned"
    /\ loop = "returned" => timerFired \/ InFlight = {}

Inv == TypeOK /\ SlotsAccounted /\ InflightCounted /\ Placed

-----------------------------------------------------------------------------
\* The deliveries in given states are finitely many.
LEMMA InFinite ==
    ASSUME NEW S
    PROVE  IsFiniteSet(In(S)) /\ Cardinality(In(S)) \in Nat
<1>1. In(S) \in SUBSET Jobs
  BY DEF In
<1>2. IsFiniteSet(In(S))
  BY <1>1, JobsAssumption, FS_Subset
<1> QED BY <1>2, FS_CardinalityType

\* A step that moves no delivery leaves the sets the invariants count alone.
LEMMA InUnchanged ==
    ASSUME job' = job
    PROVE  /\ In({"granted"})' = In({"granted"})
           /\ Polled' = Polled
           /\ Locked' = Locked
           /\ HoldsSlot' = HoldsSlot
           /\ InFlight' = InFlight
  BY DEF In, Polled, Locked, HoldsSlot, InFlight

\* The counts are natural numbers.
LEMMA CountsType ==
    /\ Cardinality(Polled)    \in Nat
    /\ Cardinality(Locked)    \in Nat
    /\ Cardinality(HoldsSlot) \in Nat
    /\ Cardinality(InFlight)  \in Nat
  BY InFinite DEF Polled, Locked, HoldsSlot, InFlight

\* When no poll is under way, the jobs locked for the loop are those polled.
LEMMA LockedIsPolled ==
    ASSUME In({"granted"}) = {}
    PROVE  Locked = Polled
  BY DEF In, Locked, Polled

\* The initial state satisfies the invariant.
LEMMA InvInit == Init => Inv
<1> SUFFICES ASSUME Init PROVE Inv
  OBVIOUS
<1> USE DEF Init
<1>1. job \in [Jobs -> JobStates]
  BY DEF JobStates
<1>2. TypeOK
  <2>1. /\ ctxDone \in BOOLEAN /\ failed \in BOOLEAN
        /\ timerFired \in BOOLEAN /\ jobsDone \in BOOLEAN
    OBVIOUS
  <2>2. /\ loop \in LoopStates /\ sem \in 0..MaxJobs
        /\ held \in 0..MaxJobs /\ inflight \in Nat
    BY MaxJobsAssumption DEF LoopStates
  <2> QED BY <1>1, <2>1, <2>2 DEF TypeOK
<1>3. /\ In({"granted"}) = {} /\ Polled = {} /\ Locked = {}
      /\ HoldsSlot = {} /\ InFlight = {}
  BY DEF In, Polled, Locked, HoldsSlot, InFlight
<1>4. SlotsAccounted /\ InflightCounted
  BY <1>3, FS_EmptySet DEF SlotsAccounted, InflightCounted
<1>5. Placed
  BY <1>3 DEF Placed
<1> QED BY <1>2, <1>4, <1>5 DEF Inv

\* The steps of the loop that move no delivery keep the invariant.
LEMMA QuietStep ==
    ASSUME Inv, job' = job,
           \/ Cancel \/ Check \/ AcquireFirst \/ AcquireCancelled
           \/ AcquireMore \/ SendPoll \/ GiveBack \/ GiveBackDone
           \/ Backoff \/ SpawnDone \/ TimerFires \/ AwaitDone \/ AwaitTimeout
    PROVE  Inv'
<1> USE InUnchanged, CountsType, MaxJobsAssumption
        DEF Inv, TypeOK, LoopStates, SlotsAccounted, InflightCounted, Placed,
            Goto
<1>1. CASE Cancel
  BY <1>1 DEF Cancel
<1>2. CASE Check
  BY <1>2 DEF Check
<1>3. CASE AcquireFirst
  BY <1>3 DEF AcquireFirst
<1>4. CASE AcquireCancelled
  BY <1>4 DEF AcquireCancelled
<1>5. CASE AcquireMore
  BY <1>5 DEF AcquireMore
<1>6. CASE SendPoll
  BY <1>6 DEF SendPoll
<1>7. CASE GiveBack
  <2>1. Locked = Polled
    BY <1>7, LockedIsPolled DEF GiveBack
  <2> QED BY <1>7, <2>1 DEF GiveBack
<1>8. CASE GiveBackDone
  <2>1. Locked = Polled /\ held = Cardinality(Polled)
    BY <1>8, LockedIsPolled DEF GiveBackDone
  <2>2. failed => held = 0
    BY <2>1, FS_EmptySet
  <2> QED BY <1>8, <2>1, <2>2 DEF GiveBackDone
<1>9. CASE Backoff
  BY <1>9 DEF Backoff
<1>10. CASE SpawnDone
  BY <1>10, FS_EmptySet DEF SpawnDone
<1>11. CASE TimerFires
  BY <1>11 DEF TimerFires
<1>12. CASE AwaitDone
  <2>1. InFlight = {}
    BY <1>12, FS_EmptySet, InFinite DEF AwaitDone, InFlight
  <2> QED BY <1>12, <2>1 DEF AwaitDone, Return
<1>13. CASE AwaitTimeout
  BY <1>13 DEF AwaitTimeout, Return
<1> QED
  BY <1>1, <1>2, <1>3, <1>4, <1>5, <1>6, <1>7, <1>8, <1>9, <1>10, <1>11,
     <1>12, <1>13

\* The server's answer, or its loss, moves what was granted and nothing else.
LEMMA PollStep ==
    ASSUME Inv,
           \/ PollAnswered \/ PollFailed
           \/ \E js \in SUBSET Jobs : ServerGrants(js)
    PROVE  Inv'
<1> USE CountsType, MaxJobsAssumption
        DEF Inv, TypeOK, LoopStates, JobStates, SlotsAccounted,
            InflightCounted, Placed, Goto
<1>1. CASE PollAnswered
  <2>1. job' \in [Jobs -> JobStates]
    BY <1>1 DEF PollAnswered, Move
  <2>2. /\ HoldsSlot' = HoldsSlot /\ InFlight' = InFlight
        /\ Locked' = Locked /\ In({"granted"})' = {}
    BY <1>1 DEF PollAnswered, Move, In, HoldsSlot, InFlight, Locked
  <2> QED BY <1>1, <2>1, <2>2 DEF PollAnswered
<1>2. CASE PollFailed
  <2>1. job' \in [Jobs -> JobStates]
    BY <1>2 DEF PollFailed, Move
  <2>2. /\ HoldsSlot' = HoldsSlot /\ InFlight' = InFlight
        /\ Locked' = {} /\ Polled' = {} /\ In({"granted"})' = {}
    BY <1>2 DEF PollFailed, Move, In, HoldsSlot, InFlight, Locked, Polled
  <2> QED BY <1>2, <2>1, <2>2, FS_EmptySet DEF PollFailed
<1>3. ASSUME NEW js \in SUBSET Jobs, ServerGrants(js) PROVE Inv'
  <2>1. job' \in [Jobs -> JobStates]
    BY <1>3 DEF ServerGrants, Move
  <2>2. /\ HoldsSlot' = HoldsSlot /\ InFlight' = InFlight
        /\ Locked' = js /\ Polled' = {}
    BY <1>3 DEF ServerGrants, Move, In, HoldsSlot, InFlight, Locked, Polled
  <2> QED BY <1>3, <2>1, <2>2 DEF ServerGrants
<1> QED BY <1>1, <1>2, <1>3

\* The goroutine of a delivery takes over its slot, and gives it back.
LEMMA JobStep ==
    ASSUME Inv, NEW j \in Jobs,
           Spawn(j) \/ DispatchReturns(j) \/ ReleaseSlot(j) \/ JobDone(j)
    PROVE  Inv'
<1> USE CountsType, MaxJobsAssumption
        DEF Inv, TypeOK, LoopStates, JobStates, SlotsAccounted,
            InflightCounted, Placed
<1> DEFINE Sets == <<In({"granted"}), Polled, Locked, HoldsSlot, InFlight>>
<1>1. CASE Spawn(j)
  <2>1. /\ HoldsSlot' = HoldsSlot \union {j} /\ j \notin HoldsSlot
        /\ InFlight' = InFlight \union {j} /\ j \notin InFlight
        /\ Polled' = Polled \ {j} /\ j \in Polled
        /\ In({"granted"})' = In({"granted"}) /\ In({"granted"}) = {}
    BY <1>1 DEF Spawn, In, HoldsSlot, InFlight, Polled
  <2>2. Locked = Polled /\ Locked' = Polled'
    BY <2>1, LockedIsPolled DEF Locked, Polled, In
  <2>3. /\ Cardinality(HoldsSlot') = Cardinality(HoldsSlot) + 1
        /\ Cardinality(InFlight') = Cardinality(InFlight) + 1
    <3>1. IsFiniteSet(HoldsSlot) /\ IsFiniteSet(InFlight)
      BY InFinite DEF HoldsSlot, InFlight
    <3> QED BY ONLY <2>1, <3>1, FS_AddElement
  <2>5. /\ Cardinality(Polled') = Cardinality(Polled) - 1
        /\ Cardinality(Polled') \in Nat
    <3>1. IsFiniteSet(Polled)
      BY InFinite DEF Polled
    <3>2. IsFiniteSet(Polled')
      BY ONLY <2>1, <3>1, FS_RemoveElement
    <3> QED BY ONLY <2>1, <3>1, <3>2, FS_RemoveElement, FS_CardinalityType
  <2>4. job' \in [Jobs -> JobStates] /\ loop = "spawn"
    BY <1>1 DEF Spawn
  <2> QED BY <1>1, <2>1, <2>2, <2>3, <2>4, <2>5 DEF Spawn
<1>2. CASE DispatchReturns(j)
  <2>1. UNCHANGED Sets
    BY <1>2 DEF DispatchReturns, In, Polled, Locked, HoldsSlot, InFlight
  <2>2. job' \in [Jobs -> JobStates]
    BY <1>2 DEF DispatchReturns
  <2> QED BY <1>2, <2>1, <2>2 DEF DispatchReturns
<1>3. CASE ReleaseSlot(j)
  <2>1. /\ UNCHANGED <<In({"granted"}), Polled, Locked, InFlight>>
        /\ HoldsSlot' = HoldsSlot \ {j} /\ j \in HoldsSlot
    BY <1>3 DEF ReleaseSlot, In, Polled, Locked, HoldsSlot, InFlight
  <2>2. Cardinality(HoldsSlot') = Cardinality(HoldsSlot) - 1
    BY <2>1, FS_RemoveElement, InFinite DEF HoldsSlot
  <2>3. job' \in [Jobs -> JobStates]
    BY <1>3 DEF ReleaseSlot
  <2> QED BY <1>3, <2>1, <2>2, <2>3 DEF ReleaseSlot
<1>4. CASE JobDone(j)
  <2>1. /\ UNCHANGED <<In({"granted"}), Polled, Locked, HoldsSlot>>
        /\ InFlight' = InFlight \ {j} /\ j \in InFlight
    BY <1>4 DEF JobDone, In, Polled, Locked, HoldsSlot, InFlight
  <2>2. /\ Cardinality(InFlight') = Cardinality(InFlight) - 1
        /\ Cardinality(InFlight') \in Nat
    BY <2>1, FS_RemoveElement, FS_CardinalityType, InFinite DEF InFlight
  <2>3. job' \in [Jobs -> JobStates]
    BY <1>4 DEF JobDone
  <2> QED BY <1>4, <2>1, <2>2, <2>3 DEF JobDone
<1> QED BY <1>1, <1>2, <1>3, <1>4

\* Inv is inductive.
LEMMA InvStep == Inv /\ [Next]_vars => Inv'
<1> SUFFICES ASSUME Inv, [Next]_vars PROVE Inv'
  OBVIOUS
<1>1. CASE UNCHANGED vars
  BY <1>1, InUnchanged
     DEF vars, Inv, TypeOK, SlotsAccounted, InflightCounted, Placed
<1>2. CASE Cancel \/ TimerFires
  BY <1>2, QuietStep DEF Cancel, TimerFires
<1>3. CASE LoopStep
  <2>1. ASSUME NEW j \in Jobs, Spawn(j) PROVE Inv'
    BY <2>1, JobStep
  <2>2. CASE Check \/ AcquireFirst \/ AcquireCancelled \/ AcquireMore
    BY <2>2, QuietStep DEF Check, AcquireFirst, AcquireCancelled, AcquireMore
  <2>3. CASE SendPoll \/ GiveBack \/ GiveBackDone \/ Backoff \/ SpawnDone
    BY <2>3, QuietStep DEF SendPoll, GiveBack, GiveBackDone, Backoff, SpawnDone
  <2>4. CASE AwaitDone \/ AwaitTimeout
    BY <2>4, QuietStep DEF AwaitDone, AwaitTimeout, Return
  <2> QED BY <1>3, <2>1, <2>2, <2>3, <2>4 DEF LoopStep
<1>4. CASE PollReturns \/ \E js \in SUBSET Jobs : ServerGrants(js)
  BY <1>4, PollStep DEF PollReturns
<1>5. ASSUME NEW j \in Jobs, DispatchReturns(j) \/ Unwind(j) PROVE Inv'
  BY <1>5, JobStep DEF Unwind
<1> QED BY <1>1, <1>2, <1>3, <1>4, <1>5 DEF Next

\* Inv holds in every reachable state.
LEMMA Invariance == Spec => []Inv
  BY InvInit, InvStep, PTL DEF Spec

\* Every reachable state is type-correct; in particular the channel is never
\* overfilled and the loop never gives back more than it took.
THEOREM TypeCorrect == Spec => []TypeOK
<1>1. Inv => TypeOK
  BY DEF Inv
<1> QED BY <1>1, Invariance, PTL

\* Every slot is accounted for, whatever the polls return.
THEOREM SlotsAlwaysAccounted == Spec => []SlotsAccounted
<1>1. Inv => SlotsAccounted
  BY DEF Inv
<1> QED BY <1>1, Invariance, PTL

\* Run and locked deliveries together never exceed MaxJobs.
THEOREM ConcurrencyBounded == Spec => []ConcurrencyBound
<1>1. Inv => ConcurrencyBound
  BY CountsType, MaxJobsAssumption
     DEF Inv, TypeOK, SlotsAccounted, ConcurrencyBound
<1> QED BY <1>1, Invariance, PTL

\* No dispatch blocks in giving back its slot.
THEOREM ReleaseEnabled == Spec => []ReleaseNeverBlocks
<1>1. Inv => ReleaseNeverBlocks
  <2> SUFFICES ASSUME Inv, In({"releasing"}) # {} PROVE sem > 0
    BY DEF ReleaseNeverBlocks
  <2>1. HoldsSlot # {}
    BY DEF HoldsSlot, In
  <2>2. Cardinality(HoldsSlot) # 0
    BY <2>1, FS_EmptySet, InFinite DEF HoldsSlot
  <2> QED
    BY <2>2, CountsType, MaxJobsAssumption DEF Inv, TypeOK, SlotsAccounted
<1> QED BY <1>1, Invariance, PTL

\* The WaitGroup counts the goroutines awaitJobs waits for.
THEOREM InflightExact == Spec => []InflightCounted
<1>1. Inv => InflightCounted
  BY DEF Inv
<1> QED BY <1>1, Invariance, PTL

\* Contexts are cancelled, and Run returns, before the shutdown timeout only
\* if nothing runs any more.
THEOREM ShutdownClean == Spec => []CleanShutdown
<1>1. Inv => CleanShutdown
  BY DEF Inv, Placed, CleanShutdown
<1> QED BY <1>1, Invariance, PTL

-----------------------------------------------------------------------------
(* TaskLoop implements GracefulPool, its fairness aside. *)

finished == In({"finishing", "gone"})

\* An instance has Cardinality under a name of its own.
LEMMA SameCardinality == \A S : Pool!Cardinality(S) = Cardinality(S)
  BY DEF Cardinality, Pool!Cardinality, IsFiniteSet, Pool!IsFiniteSet

\* Nothing runs in the beginning.
LEMMA PoolInit == Init => Pool!Init
  BY DEF Init, Pool!Init, Stage, HoldsSlot, In

\* What moves no delivery is a change of stage, a signal, or a stutter.
LEMMA PoolQuietStep ==
    ASSUME Inv, job' = job,
           \/ Cancel \/ Check \/ AcquireFirst \/ AcquireCancelled
           \/ AcquireMore \/ SendPoll \/ GiveBack \/ GiveBackDone
           \/ Backoff \/ SpawnDone \/ TimerFires \/ AwaitDone \/ AwaitTimeout
    PROVE  [Pool!Next]_(Pool!pvars)
<1>0. UNCHANGED <<HoldsSlot, finished>>
  BY DEF HoldsSlot, finished, In
<1> USE <1>0 DEF finished, Stage, Goto, Pool!pvars
<1>1. CASE Cancel
  BY <1>1 DEF Cancel, Pool!Next, Pool!Shutdown
<1>2. CASE Check \/ AcquireCancelled \/ GiveBackDone
  <2>1. Pool!Drain \/ UNCHANGED Pool!pvars
    BY <1>2 DEF Check, AcquireCancelled, GiveBackDone, Pool!Drain
  <2> QED
    BY <2>1 DEF Pool!Next
<1>3. CASE AcquireFirst \/ AcquireMore \/ SendPoll \/ GiveBack \/ Backoff
           \/ SpawnDone
  BY <1>3 DEF AcquireFirst, AcquireMore, SendPoll, GiveBack, Backoff, SpawnDone
<1>4. CASE TimerFires
  BY <1>4 DEF TimerFires, Pool!Next, Pool!Expire
<1>5. CASE AwaitDone
  <2>1. HoldsSlot = {}
    <3>1. InFlight = {}
      BY <1>5, FS_EmptySet, InFinite
         DEF AwaitDone, Inv, InflightCounted, InFlight
    <3> QED
      BY <3>1 DEF InFlight, HoldsSlot, In
  <2> QED
    BY <1>5, <2>1 DEF AwaitDone, Return, Pool!Next, Pool!Stop
<1>6. CASE AwaitTimeout
  BY <1>6 DEF AwaitTimeout, Return, Pool!Next, Pool!Stop
<1> QED BY <1>1, <1>2, <1>3, <1>4, <1>5, <1>6

\* Neither does the poll, as far as the pool goes: it has yet to begin.
LEMMA PoolPollStep ==
    ASSUME Inv,
           \/ PollAnswered \/ PollFailed
           \/ \E js \in SUBSET Jobs : ServerGrants(js)
    PROVE  UNCHANGED Pool!pvars
<1> USE DEF Inv, TypeOK, In, HoldsSlot, Stage, Goto, Move, Pool!pvars
<1>1. CASE PollAnswered
  BY <1>1 DEF PollAnswered
<1>2. CASE PollFailed
  BY <1>2 DEF PollFailed
<1>3. ASSUME NEW js \in SUBSET Jobs, ServerGrants(js)
      PROVE  UNCHANGED Pool!pvars
  BY <1>3 DEF ServerGrants
<1> QED BY <1>1, <1>2, <1>3

\* A spawned job begins, for which there is room; one that gives its slot back
\* is finished.
LEMMA PoolJobStep ==
    ASSUME Inv, NEW j \in Jobs,
           Spawn(j) \/ DispatchReturns(j) \/ ReleaseSlot(j) \/ JobDone(j)
    PROVE  [Pool!Next]_(Pool!pvars)
<1> USE DEF Inv, TypeOK, Pool!pvars, Stage, finished
<1>1. CASE Spawn(j)
  <2>1. /\ HoldsSlot' = HoldsSlot \union {j} /\ j \notin HoldsSlot
        /\ finished' = finished /\ j \notin finished
        /\ j \in Locked
    BY <1>1 DEF Spawn, In, HoldsSlot, Locked
  <2>2. Cardinality(HoldsSlot) < MaxJobs
    <3>1. Cardinality(Locked) # 0
      BY <2>1, FS_EmptySet, InFinite DEF Locked
    <3> QED
      BY <3>1, CountsType, MaxJobsAssumption DEF SlotsAccounted
  <2>3. Pool!Begin(j)
    BY <1>1, <2>1, <2>2, SameCardinality DEF Spawn, Pool!Begin
  <2> QED
    BY <2>3 DEF Pool!Next
<1>2. CASE ReleaseSlot(j)
  <2>1. /\ HoldsSlot' = HoldsSlot \ {j} /\ j \in HoldsSlot
        /\ finished' = finished \union {j}
    BY <1>2 DEF ReleaseSlot, In, HoldsSlot
  <2>2. Pool!Finish(j)
    BY <1>2, <2>1 DEF ReleaseSlot, Pool!Finish
  <2> QED
    BY <2>2 DEF Pool!Next
<1>3. CASE DispatchReturns(j) \/ JobDone(j)
  <2>1. UNCHANGED <<HoldsSlot, finished>>
    BY <1>3 DEF DispatchReturns, JobDone, In, HoldsSlot
  <2> QED
    BY <1>3, <2>1 DEF DispatchReturns, JobDone
<1> QED BY <1>1, <1>2, <1>3

\* Every step of the loop is one of the pool, or leaves it as it is.
LEMMA PoolStep == Inv /\ [Next]_vars => [Pool!Next]_(Pool!pvars)
<1> SUFFICES ASSUME Inv, [Next]_vars PROVE [Pool!Next]_(Pool!pvars)
  OBVIOUS
<1>1. CASE UNCHANGED vars
  BY <1>1 DEF vars, Pool!pvars, Stage, HoldsSlot, In
<1>2. CASE Cancel \/ TimerFires
  BY <1>2, PoolQuietStep DEF Cancel, TimerFires
<1>3. CASE LoopStep
  <2>1. ASSUME NEW j \in Jobs, Spawn(j) PROVE [Pool!Next]_(Pool!pvars)
    BY <2>1, PoolJobStep
  <2>2. CASE Check \/ AcquireFirst \/ AcquireCancelled \/ AcquireMore
    BY <2>2, PoolQuietStep
       DEF Check, AcquireFirst, AcquireCancelled, AcquireMore
  <2>3. CASE SendPoll \/ GiveBack \/ GiveBackDone \/ Backoff \/ SpawnDone
    BY <2>3, PoolQuietStep
       DEF SendPoll, GiveBack, GiveBackDone, Backoff, SpawnDone
  <2>4. CASE AwaitDone \/ AwaitTimeout
    BY <2>4, PoolQuietStep DEF AwaitDone, AwaitTimeout, Return
  <2> QED BY <1>3, <2>1, <2>2, <2>3, <2>4 DEF LoopStep
<1>4. CASE PollReturns \/ \E js \in SUBSET Jobs : ServerGrants(js)
  BY <1>4, PoolPollStep DEF PollReturns
<1>5. ASSUME NEW j \in Jobs, DispatchReturns(j) \/ Unwind(j)
      PROVE  [Pool!Next]_(Pool!pvars)
  BY <1>5, PoolJobStep DEF Unwind
<1> QED BY <1>1, <1>2, <1>3, <1>4, <1>5 DEF Next

\* The loop keeps what GracefulPool promises at every step, for any set of
\* deliveries and any MaxJobs: no more than MaxJobs handlers at once, nothing
\* begun in the shutdown, and an end only when nothing runs or the timeout has
\* passed.  (That it ends is only model-checked.)
THEOREM LoopImplementsPool == Spec => Pool!Spec
  BY PoolInit, PoolStep, Invariance, PTL DEF Spec, Pool!Spec

-----------------------------------------------------------------------------
(* The safety half of Pool's liveness: how many steps the shutdown has      *)
(* left, and that none of them blocks for ever.                             *)

\* The steps the loop has left once ctx is cancelled, however its slots lie.
LoopLeft ==
    CASE loop = "returned"    -> 0
      [] loop = "await"       -> 1
      [] loop = "check"       -> 2
      [] loop = "backoff"     -> 3
      [] loop = "spawn"       -> 3 + held
      [] loop = "giveBack"    -> 4 + held
      [] loop = "polling"     -> 5 + held
      [] loop = "acquireMore" -> 5 + 2 * MaxJobs - held
      [] OTHER                -> 5 + 2 * MaxJobs

\* After the cancellation the loop never goes back: every step of it brings it
\* nearer to its return.
WindingDown ==
    ctxDone => /\ ctxDone'
               /\ <<loop, held>>' # <<loop, held>> => LoopLeft' < LoopLeft

\* The receives that give back what a poll did not fill find a slot to take.
GiveBackNeverBlocks ==
    loop = "giveBack" /\ held > Cardinality(Polled) => sem > 0

\* A job that a poll has delivered is waiting for its goroutine, with a slot
\* of its own, whether or not ctx was cancelled in the meantime.
PolledWillRun ==
    Polled # {} => /\ loop \in {"giveBack", "spawn"} /\ ~failed
                   /\ Cardinality(Polled) <= held

\* LoopLeft counts down to zero.
LEMMA LoopLeftType ==
    ASSUME TypeOK
    PROVE  LoopLeft \in 0..5 + 2 * MaxJobs
  BY MaxJobsAssumption DEF TypeOK, LoopStates, LoopLeft

\* The steps that move no delivery bring the loop nearer to its return.
LEMMA WindingQuiet ==
    ASSUME Inv,
           \/ Cancel \/ Check \/ AcquireFirst \/ AcquireCancelled
           \/ AcquireMore \/ SendPoll \/ GiveBack \/ GiveBackDone
           \/ Backoff \/ SpawnDone \/ TimerFires \/ AwaitDone \/ AwaitTimeout
    PROVE  WindingDown
<1> USE MaxJobsAssumption
    DEF Inv, TypeOK, LoopStates, WindingDown, LoopLeft, Goto
<1>1. CASE Cancel \/ TimerFires
  BY <1>1 DEF Cancel, TimerFires
<1>2. CASE Check
  BY <1>2 DEF Check
<1>3. CASE AcquireFirst
  BY <1>3 DEF AcquireFirst
<1>4. CASE AcquireCancelled
  BY <1>4 DEF AcquireCancelled
<1>5. CASE AcquireMore
  BY <1>5 DEF AcquireMore
<1>6. CASE SendPoll
  BY <1>6 DEF SendPoll
<1>7. CASE GiveBack
  BY <1>7 DEF GiveBack
<1>8. CASE GiveBackDone
  BY <1>8 DEF GiveBackDone
<1>9. CASE Backoff
  BY <1>9 DEF Backoff
<1>10. CASE SpawnDone
  BY <1>10 DEF SpawnDone, Placed
<1>11. CASE AwaitDone \/ AwaitTimeout
  <2>1. /\ loop = "await" /\ loop' = "returned"
        /\ held' = held /\ ctxDone' = ctxDone
    BY <1>11 DEF AwaitDone, AwaitTimeout, Return
  <2> QED BY <2>1
<1> QED
  BY <1>1, <1>2, <1>3, <1>4, <1>5, <1>6, <1>7, <1>8, <1>9, <1>10, <1>11

\* So do the others, or they leave it where it is.
LEMMA WindingStep == Inv /\ [Next]_vars => [WindingDown]_vars
<1> SUFFICES ASSUME Inv, Next PROVE WindingDown
  BY DEF vars
<1>1. CASE Cancel \/ TimerFires
  BY <1>1, WindingQuiet
<1>2. CASE LoopStep
  <2>1. ASSUME NEW j \in Jobs, Spawn(j) PROVE WindingDown
    BY <2>1, MaxJobsAssumption
       DEF Inv, TypeOK, Spawn, WindingDown, LoopLeft
  <2> QED
    BY <1>2, <2>1, WindingQuiet DEF LoopStep
<1>3. CASE PollReturns
  <2>1. /\ loop = "polling" /\ loop' = "giveBack"
        /\ held' = held /\ ctxDone' = ctxDone
    BY <1>3 DEF PollReturns, PollAnswered, PollFailed, Goto
  <2>2. held \in Nat
    BY MaxJobsAssumption DEF Inv, TypeOK
  <2> QED BY <2>1, <2>2 DEF WindingDown, LoopLeft
<1>4. CASE \E js \in SUBSET Jobs : ServerGrants(js)
  BY <1>4 DEF ServerGrants, WindingDown
<1>5. ASSUME NEW j \in Jobs, DispatchReturns(j) \/ Unwind(j) PROVE WindingDown
  BY <1>5 DEF DispatchReturns, Unwind, ReleaseSlot, JobDone, WindingDown
<1> QED BY <1>1, <1>2, <1>3, <1>4, <1>5 DEF Next

\* After the cancellation of its ctx the loop takes at most 2 * MaxJobs + 5
\* steps, whatever the polls return and whatever its slots are used for: the
\* liveness of Pool without the fairness.
THEOREM ShutdownWindsDown ==
    Spec => [][WindingDown]_vars /\ [](LoopLeft \in 0..5 + 2 * MaxJobs)
<1>1. Inv => LoopLeft \in 0..5 + 2 * MaxJobs
  BY LoopLeftType DEF Inv
<1> QED BY <1>1, WindingStep, Invariance, PTL DEF Spec

\* The loop never hangs where it gives slots back.
THEOREM GiveBackEnabled == Spec => []GiveBackNeverBlocks
<1>1. Inv => GiveBackNeverBlocks
  BY CountsType, MaxJobsAssumption
     DEF Inv, TypeOK, SlotsAccounted, GiveBackNeverBlocks
<1> QED BY <1>1, Invariance, PTL

\* No job that reached the worker is dropped by the loop, not even by a
\* cancellation between the answer and the spawn: PolledJobsAreRun without the
\* fairness.
THEOREM PolledJobsRun == Spec => []PolledWillRun
<1>1. Inv => PolledWillRun
  <2> SUFFICES ASSUME Inv, Polled # {} PROVE PolledWillRun
    BY DEF PolledWillRun
  <2>1. loop \in {"giveBack", "spawn"} /\ ~failed
    BY DEF Inv, Placed
  <2>2. Locked = Polled
    BY <2>1, LockedIsPolled DEF Inv, Placed
  <2> QED BY <2>1, <2>2 DEF Inv, SlotsAccounted, PolledWillRun
<1> QED BY <1>1, Invariance, PTL

\* So the jobs the server granted to a poll that then failed are all that the
\* worker holds and does not run: finding 3 of README.md names the only
\* way there is.
THEOREM OnlyStrandedUnrun ==
    Spec => [](In({"stranded"}) = {} => HoldsOnlyRunning)
<1>1. Inv /\ In({"stranded"}) = {} => HoldsOnlyRunning
  BY DEF Inv, Placed, In, HoldsOnlyRunning
<1> QED BY <1>1, Invariance, PTL
=============================================================================
