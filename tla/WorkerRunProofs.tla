-------------------------- MODULE WorkerRunProofs --------------------------
(***************************************************************************)
(* Theorems about WorkerRun, for any task types, timeouts and waits.       *)
(*                                                                         *)
(* That Run returns in time is a claim about its slowest loop: Timed says  *)
(* how late a loop can be at each point of its shutdown, and Counted that  *)
(* Run waits for nothing but its loops.                                    *)
(***************************************************************************)
EXTENDS WorkerRun, FiniteSetTheorems, TLAPS

\* The loops the WaitGroup counts.
Active == {t \in TaskTypes : loop[t] \notin {"off", "returned"}}

Counted == wg = Cardinality(Active)

\* Which loops there are at each point of Run.
Started ==
    /\ run = "idle" => ~ctxDone
    /\ run \in {"starting", "waiting", "returned"} => regs # {}
    /\ \A t \in TaskTypes :
          loop[t] # "off"
              => t \in regs /\ run \in {"starting", "waiting", "returned"}
    /\ run \in {"waiting", "returned"} => \A t \in regs : loop[t] # "off"
    /\ run = "returned" => wg = 0

\* How late the loop of t can be.
Timed(t) ==
    /\ ctxDone /\ loop[t] \in {"check", "acquiring", "polling"}
           => now = cancelledAt
    /\ ctxDone /\ loop[t] = "token"
           => /\ tokenFreeAt <= cancelledAt + TokenWait
              /\ now <= cancelledAt + TokenWait
    /\ loop[t] \in {"draining", "returned"} => ctxDone
    /\ loop[t] = "draining"
           => /\ now <= deadline[t]
              /\ deadline[t] <= cancelledAt + TokenWait + shutdownTimeout
              /\ deadline[t] >= cancelledAt + shutdownTimeout
    /\ loop[t] = "returned" /\ running[t] > 0
           => now >= cancelledAt + shutdownTimeout

Clock ==
    /\ ctxDone => cancelledAt <= now
    /\ tokenFreeAt <= now + TokenWait
    /\ ctxDone /\ run = "starting" => now = cancelledAt
    /\ shutdownTimeout = EffectiveTimeout(config)

Inv ==
    /\ TypeOK
    /\ Counted
    /\ Started
    /\ \A t \in TaskTypes : Timed(t)
    /\ Clock
    /\ RunReturnsInTime

-----------------------------------------------------------------------------
\* The loops are finitely many.
LEMMA ActiveFinite == IsFiniteSet(Active) /\ Cardinality(Active) \in Nat
<1>1. Active \in SUBSET TaskTypes
  BY DEF Active
<1>2. IsFiniteSet(Active)
  BY <1>1, WorkerRunAssumption, FS_Subset
<1> QED BY <1>2, FS_CardinalityType

\* The WaitGroup is at zero only if no loop is active.
LEMMA NoneActive ==
    ASSUME Counted, wg = 0, NEW t \in TaskTypes
    PROVE  loop[t] \in {"off", "returned"}
  BY ActiveFinite, FS_EmptySet DEF Counted, Active

\* The initial state satisfies the invariant.
LEMMA InvInit == Init => Inv
<1> SUFFICES ASSUME Init PROVE Inv
  OBVIOUS
<1> USE WorkerRunAssumption DEF Init
<1>1. EffectiveTimeout(config) \in Nat \ {0}
  BY DEF EffectiveTimeout
<1>2. TypeOK
  BY <1>1 DEF TypeOK, RunStates, LoopStates, Never
<1>3. Counted
  BY FS_EmptySet DEF Counted, Active
<1>4. Started /\ Clock /\ RunReturnsInTime
  BY DEF Started, Clock, RunReturnsInTime, ctxDone, Never
<1>5. ASSUME NEW t \in TaskTypes PROVE Timed(t)
  BY DEF Timed, ctxDone, Never
<1> QED BY <1>2, <1>3, <1>4, <1>5 DEF Inv

\* A type-correct state stays so; that wg does not fall below zero needs the
\* count.
LEMMA TypeStep == ASSUME Inv, [Next]_vars PROVE TypeOK'
<1> USE WorkerRunAssumption
    DEF Inv, TypeOK, configVars, clockVars, otherVars
<1>1. CASE UNCHANGED vars
  BY <1>1 DEF vars
<1>2. CASE RunCalled \/ Cancel \/ RunReturns \/ AllStarted
  BY <1>2 DEF RunCalled, Cancel, RunReturns, AllStarted, RunStates
<1>3. ASSUME NEW t \in TaskTypes, StartLoop(t) PROVE TypeOK'
  BY <1>3 DEF StartLoop, Goto, LoopStates
<1>4. ASSUME NEW t \in TaskTypes, Handle(t) PROVE TypeOK'
  BY <1>4 DEF Handle
<1>5. ASSUME NEW t \in TaskTypes, LoopStep(t) PROVE TypeOK'
  <2>1. CASE Check(t) \/ AskToken(t) \/ GetToken(t)
    BY <1>5, <2>1 DEF Check, AskToken, GetToken, Goto, LoopStates
  <2>2. CASE Drain(t)
    BY <1>5, <2>2 DEF Drain, Goto, LoopStates
  <2>3. CASE Leave(t)
    <3>1. wg # 0
      BY <2>3, NoneActive DEF Leave, Goto
    <3> QED BY <2>3, <3>1 DEF Leave, Goto, LoopStates
  <2> QED BY <1>5, <2>1, <2>2, <2>3 DEF LoopStep
<1>6. ASSUME NEW t \in TaskTypes, JobEnds(t) PROVE TypeOK'
  BY <1>6 DEF JobEnds
<1>7. ASSUME NEW t \in TaskTypes, NEW n \in 0..MaxJobs, PollReturns(t, n)
      PROVE  TypeOK'
  BY <1>7 DEF PollReturns, Goto, LoopStates
<1>8. ASSUME NEW d \in 1..TokenWait, HoldToken(d) PROVE TypeOK'
  BY <1>8 DEF HoldToken
<1>9. CASE Tick
  BY <1>9 DEF Tick
<1> QED
  BY <1>1, <1>2, <1>3, <1>4, <1>5, <1>6, <1>7, <1>8, <1>9 DEF Next, Start

\* The WaitGroup counts the active loops.
LEMMA CountStep == ASSUME Inv, [Next]_vars PROVE Counted'
<1> USE DEF Inv, TypeOK, Counted, configVars, clockVars, otherVars
<1>1. ASSUME NEW t \in TaskTypes, StartLoop(t) PROVE Counted'
  <2>1. Active' = Active \union {t} /\ t \notin Active /\ wg' = wg + 1
    BY <1>1 DEF StartLoop, Goto, Active
  <2> QED BY <2>1, ActiveFinite, FS_AddElement
<1>2. ASSUME NEW t \in TaskTypes, Leave(t) PROVE Counted'
  <2>1. Active' = Active \ {t} /\ t \in Active /\ wg' = wg - 1
    BY <1>2 DEF Leave, Goto, Active
  <2> QED BY <2>1, ActiveFinite, FS_RemoveElement
<1>3. ASSUME NEW t \in TaskTypes,
             \/ Check(t) \/ AskToken(t) \/ GetToken(t) \/ Drain(t)
             \/ \E n \in 0..MaxJobs : PollReturns(t, n)
      PROVE  Counted'
  <2>1. Active' = Active /\ wg' = wg
    BY <1>3 DEF Check, AskToken, GetToken, Drain, PollReturns, Goto, Active
  <2> QED BY <2>1
<1>4. ASSUME loop' = loop, wg' = wg PROVE Counted'
  BY <1>4 DEF Active
<1>5. ASSUME NEW t \in TaskTypes, Handle(t) \/ JobEnds(t) PROVE Counted'
  BY <1>4, <1>5 DEF Handle, JobEnds
<1>6. CASE \/ UNCHANGED vars \/ RunCalled \/ Cancel \/ RunReturns \/ AllStarted
           \/ Tick \/ \E d \in 1..TokenWait : HoldToken(d)
  BY <1>4, <1>6
     DEF vars, RunCalled, Cancel, RunReturns, AllStarted, Tick, HoldToken
<1> QED
  BY <1>1, <1>2, <1>3, <1>5, <1>6 DEF Next, Start, LoopStep

\* Run knows which loops there are.
LEMMA StartedStep == ASSUME Inv, [Next]_vars PROVE Started'
<1> USE DEF Inv, TypeOK, Started, ctxDone, configVars, clockVars, otherVars
<1>1. CASE UNCHANGED vars
  BY <1>1 DEF vars
<1>2. CASE RunCalled \/ Cancel \/ RunReturns \/ AllStarted
  BY <1>2 DEF RunCalled, Cancel, RunReturns, AllStarted
<1>3. ASSUME NEW t \in TaskTypes, StartLoop(t) PROVE Started'
  BY <1>3 DEF StartLoop, Goto
<1>4. ASSUME NEW t \in TaskTypes, LoopStep(t) PROVE Started'
  <2>1. CASE Check(t) \/ AskToken(t) \/ GetToken(t) \/ Drain(t)
    BY <2>1 DEF Check, AskToken, GetToken, Drain, Goto
  <2>2. CASE Leave(t)
    <3>1. run # "returned"
      BY <2>2, NoneActive DEF Leave, Goto
    <3> QED BY <2>2, <3>1 DEF Leave, Goto
  <2> QED BY <1>4, <2>1, <2>2 DEF LoopStep
<1>5. ASSUME NEW t \in TaskTypes,
             Handle(t) \/ JobEnds(t) \/ \E n \in 0..MaxJobs : PollReturns(t, n)
      PROVE  Started'
  BY <1>5 DEF Handle, JobEnds, PollReturns, Goto
<1>6. CASE Tick \/ \E d \in 1..TokenWait : HoldToken(d)
  BY <1>6 DEF Tick, HoldToken
<1> QED
  BY <1>1, <1>2, <1>3, <1>4, <1>5, <1>6 DEF Next, Start

\* Time passes only when no loop has to go on: none gets later than Timed
\* says.
LEMMA TimedStep ==
    ASSUME Inv, [Next]_vars, NEW t \in TaskTypes
    PROVE  Timed(t)'
<1> USE WorkerRunAssumption
    DEF Inv, TypeOK, Timed, Clock, ctxDone, Never, configVars, clockVars,
        otherVars
<1>1. CASE UNCHANGED vars
  BY <1>1 DEF vars
<1>2. CASE RunCalled \/ RunReturns \/ AllStarted
  BY <1>2 DEF RunCalled, RunReturns, AllStarted
<1>3. CASE Cancel
  BY <1>3 DEF Cancel
<1>4. ASSUME NEW u \in TaskTypes, StartLoop(u) PROVE Timed(t)'
  BY <1>4 DEF StartLoop, Goto
<1>5. ASSUME NEW u \in TaskTypes, LoopStep(u) PROVE Timed(t)'
  <2>1. CASE Check(u) \/ AskToken(u) \/ GetToken(u)
    BY <2>1 DEF Check, AskToken, GetToken, Goto
  <2>2. CASE Drain(u)
    BY <2>2 DEF Drain, Goto
  <2>3. CASE Leave(u)
    BY <2>3 DEF Leave, Goto, TimedOut
  <2> QED BY <1>5, <2>1, <2>2, <2>3 DEF LoopStep
<1>6. ASSUME NEW u \in TaskTypes,
             Handle(u) \/ JobEnds(u) \/ \E n \in 0..MaxJobs : PollReturns(u, n)
      PROVE  Timed(t)'
  BY <1>6 DEF Handle, JobEnds, PollReturns, Goto
<1>7. CASE \E d \in 1..TokenWait : HoldToken(d)
  BY <1>7 DEF HoldToken
<1>8. CASE Tick
  BY <1>8 DEF Tick, Urgent, TokenFree, TimedOut
<1> QED
  BY <1>1, <1>2, <1>3, <1>4, <1>5, <1>6, <1>7, <1>8 DEF Next, Start

\* The clock, and with it the bound on Run: time passes under a waiting Run
\* only while one of its loops may wait.
LEMMA ClockStep == ASSUME Inv, [Next]_vars PROVE Clock' /\ RunReturnsInTime'
<1> USE WorkerRunAssumption
    DEF Inv, TypeOK, Clock, RunReturnsInTime, ctxDone, Never, configVars,
        clockVars, otherVars
<1>1. CASE UNCHANGED vars
  BY <1>1 DEF vars
<1>2. CASE RunCalled \/ RunReturns \/ AllStarted \/ Cancel
  BY <1>2 DEF RunCalled, RunReturns, AllStarted, Cancel, Started
<1>3. ASSUME NEW u \in TaskTypes,
             \/ StartLoop(u) \/ LoopStep(u) \/ Handle(u) \/ JobEnds(u)
             \/ \E n \in 0..MaxJobs : PollReturns(u, n)
      PROVE  Clock' /\ RunReturnsInTime'
  BY <1>3
     DEF StartLoop, LoopStep, Check, AskToken, GetToken, Drain, Leave, Handle,
         JobEnds, PollReturns
<1>4. CASE \E d \in 1..TokenWait : HoldToken(d)
  BY <1>4 DEF HoldToken
<1>5. CASE Tick
  <2> USE <1>5 DEF Tick, Urgent, TimedOut
  <2>1. Clock'
    OBVIOUS
  <2>2. ASSUME run = "waiting", ctxDone PROVE RunReturnsInTime'
    <3>1. Active # {}
      BY <2>2, FS_EmptySet DEF Counted
    <3>2. PICK t \in TaskTypes : loop[t] \notin {"off", "returned"}
      BY <3>1 DEF Active
    <3>3. loop[t] \in {"token", "draining"}
      BY <2>2, <3>2 DEF LoopStates
    <3>4. CASE loop[t] = "token"
      BY <2>2, <3>4 DEF Timed, TokenFree
    <3>5. CASE loop[t] = "draining"
      BY <2>2, <3>5 DEF Timed
    <3> QED BY <3>3, <3>4, <3>5
  <2> QED BY <2>1, <2>2
<1> QED BY <1>1, <1>2, <1>3, <1>4, <1>5 DEF Next, Start

\* Inv holds in every reachable state.
LEMMA Invariance == Spec => []Inv
<1>1. Inv /\ [Next]_vars => Inv'
  BY TypeStep, CountStep, StartedStep, TimedStep, ClockStep DEF Inv
<1> QED BY <1>1, InvInit, PTL DEF Spec

-----------------------------------------------------------------------------
\* Every reachable state is type-correct; in particular the WaitGroup of Run
\* never falls below zero, which would panic.
THEOREM TypeCorrect == Spec => []TypeOK
<1>1. Inv => TypeOK
  BY DEF Inv
<1> QED BY <1>1, Invariance, PTL

\* Run returns within one shutdown timeout and one wait for the token, for
\* any number of task types.
THEOREM RunInTime == Spec => []RunReturnsInTime
<1>1. Inv => RunReturnsInTime
  BY DEF Inv
<1> QED BY <1>1, Invariance, PTL

\* No handler is abandoned before the configured time is over.
THEOREM HandlersTimed == Spec => []HandlersGetTheirTime
<1>1. Inv => HandlersGetTheirTime
  BY WorkerRunAssumption
     DEF Inv, TypeOK, Timed, Clock, HandlersGetTheirTime, EffectiveTimeout,
         ctxDone, Never
<1> QED BY <1>1, Invariance, PTL

\* Run leaves no loop behind.
THEOREM LoopsAwaited == Spec => []RunWaitsForLoops
<1>1. Inv => RunWaitsForLoops
  BY NoneActive DEF Inv, TypeOK, Started, Timed, RunWaitsForLoops
<1> QED BY <1>1, Invariance, PTL

-----------------------------------------------------------------------------
(* What holds where PollingStopsAtOnce does not. *)

\* When ctx ends a loop leaves its round at once, unless it waits for the
\* token, and then within that wait.
PollingStopsSoon ==
    ctxDone =>
        \A t \in TaskTypes :
            /\ loop[t] \in {"check", "acquiring", "polling"}
                   => now = cancelledAt
            /\ loop[t] = "token" => now <= cancelledAt + TokenWait

\* A wait for the token that outlasts ctx ends without a poll.
NoLatePoll ==
    ctxDone =>
        \A t \in TaskTypes : loop'[t] = "polling" => loop[t] = "polling"

\* Polling stops for every type within one wait for the token.
THEOREM PollingStops == Spec => []PollingStopsSoon
<1>1. Inv => PollingStopsSoon
  BY WorkerRunAssumption DEF Inv, TypeOK, Timed, PollingStopsSoon, ctxDone
<1> QED BY <1>1, Invariance, PTL

\* With a token that costs no wait - a static one has no mutex - it stops at
\* once: finding 5 of README.md names the only way in which it does not.
THEOREM PollingStopsAtOnceWithoutWait ==
    ASSUME TokenWait = 0
    PROVE  Spec => []PollingStopsAtOnce
<1>1. Inv => PollingStopsAtOnce
  BY WorkerRunAssumption
     DEF Inv, TypeOK, LoopStates, Timed, PollingStopsAtOnce, ctxDone, Never
<1> QED BY <1>1, Invariance, PTL

\* Nothing that was still on its way to a poll when ctx ended becomes one.
THEOREM NoPollAfterwards == Spec => [][NoLatePoll]_vars
<1>1. ASSUME Inv, [Next]_vars PROVE [NoLatePoll]_vars
  <2> SUFFICES ASSUME Next, ctxDone, NEW t \in TaskTypes, loop'[t] = "polling"
               PROVE  loop[t] = "polling"
    BY <1>1 DEF NoLatePoll
  <2> USE <1>1 DEF Inv, TypeOK, otherVars
  <2>1. CASE loop' = loop
    BY <2>1
  <2>2. ASSUME NEW u \in TaskTypes, StartLoop(u) PROVE loop[t] = "polling"
    BY <2>2 DEF StartLoop, Goto
  <2>3. ASSUME NEW u \in TaskTypes, LoopStep(u) PROVE loop[t] = "polling"
    BY <2>3 DEF LoopStep, Check, AskToken, GetToken, Drain, Leave, Goto
  <2>4. ASSUME NEW u \in TaskTypes, NEW n \in 0..MaxJobs, PollReturns(u, n)
        PROVE  loop[t] = "polling"
    BY <2>4 DEF PollReturns, Goto
  <2>5. ASSUME NEW u \in TaskTypes, Handle(u) \/ JobEnds(u) PROVE loop' = loop
    BY <2>5 DEF Handle, JobEnds
  <2>6. CASE \/ RunCalled \/ Cancel \/ RunReturns \/ AllStarted \/ Tick
             \/ \E d \in 1..TokenWait : HoldToken(d)
    BY <2>1, <2>6
       DEF RunCalled, Cancel, RunReturns, AllStarted, Tick, HoldToken
  <2> QED
    BY <2>1, <2>2, <2>3, <2>4, <2>5, <2>6 DEF Next, Start
<1> QED BY <1>1, Invariance, PTL DEF Spec
=============================================================================
