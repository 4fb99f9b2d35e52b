-------------------------- MODULE LockTimingProofs --------------------------
(***************************************************************************)
(* Theorems about LockTiming, for all durations, timeouts and clocks that  *)
(* meet its assumptions.                                                   *)
(***************************************************************************)
EXTENDS LockTiming, TLAPS

Lock == LockFor(requested)

\* How long a heartbeat may take without harm.
Slack == IF Forgiving THEN HbTimeout ELSE Latency

\* Nothing has happened that LockOutlastsWork excuses.
Sound == ClockHarmless /\ ~missed /\ (late => Forgiving)

\* Where the requests stand.
Phased ==
    /\ Beating => Working /\ age <= HbTimeout
    /\ call = "report" <=> handler = "reporting"
    /\ call = "none" => age = 0
    /\ call = "report" => age <= ReportTimeout
    /\ Beating /\ age > Latency => late
    /\ Beating /\ ~ticked => tickLeft + age <= interval

\* What is left of the lock suffices for the tick to come, for the heartbeat,
\* and for the report.
Margin ==
    Sound =>
        /\ 2 * interval <= Lock
        /\ call # "gone" /\ ~cancelled
        /\ Working /\ call = "none" =>
              lockLeft > (IF ticked THEN 0 ELSE tickLeft) + Slack + Latency
        /\ call = "beat" => lockLeft + age > Slack + Latency
        /\ call = "kept" => lockLeft + age >= Lock
        /\ call = "report" => lockLeft + age > Latency

\* The time until the worker hears of its loss at the latest.
NextTick == IF ticked THEN 0 ELSE tickLeft
Remaining ==
    CASE call = "none" -> NextTick + HbTimeout
      [] call = "kept" -> IF ticked THEN 2 * HbTimeout - age
                          ELSE Larger(HbTimeout - age, tickLeft) + HbTimeout
      [] OTHER         -> HbTimeout - age

Noticed ==
    /\ overrun > 0 => lockLeft = 0
    /\ ~missed => overrun <= NoticeTime
    /\ ~missed /\ Working => overrun + Remaining <= NoticeTime

Inv == TypeOK /\ Phased

-----------------------------------------------------------------------------
\* Half of a duration is at most its half.
LEMMA Halves == \A n \in Nat : n \div 2 \in Nat /\ 2 * (n \div 2) <= n
  OBVIOUS

\* A lock is as long as the server's bounds allow, and long against messages.
LEMMA LockBounds ==
    ASSUME requested \in Requests
    PROVE  /\ Lock \in Nat /\ Lock >= MinLock
           /\ Slack \in Nat /\ Slack >= Latency
           /\ Lock >= 2 * (Slack + 2 * Latency + 1)
  BY LatencyAssumption, TimeoutAssumption
     DEF Lock, LockFor, Larger, Smaller, Slack, Forgiving

\* The interval is positive; with a harmless clock it is at most half of the
\* lock, however much of it the poll's answer used up.
LEMMA IntervalFits ==
    ASSUME NEW t \in 0..Latency, requested \in Requests, skew \in Skews,
           interval = HeartbeatInterval(requested, Lock - t - skew)
    PROVE  /\ interval \in Nat \ {0}
           /\ ClockHarmless => 2 * interval <= Lock
<1> DEFINE apparent == Lock - t - skew
           base == IF apparent > 0 THEN Smaller(requested, apparent)
                   ELSE requested
<1> USE LatencyAssumption, TimeoutAssumption
<1>1. Lock \in Nat /\ Lock >= MinLock
  BY LockBounds
<1>2. apparent \in Int /\ requested \in Nat /\ skew \in Int
  BY <1>1
<1>3. base \in Nat
  BY <1>2 DEF Smaller
<1>4. ClockHarmless => base <= Lock
  BY <1>1, <1>2 DEF ClockHarmless, Lock, LockFor, Larger, Smaller
<1>5. interval = Larger(MinInterval, base \div 2)
  BY DEF HeartbeatInterval
<1> HIDE DEF base
<1>6. base \div 2 \in Nat /\ 2 * (base \div 2) <= base
  BY <1>3, Halves
<1> QED BY <1>1, <1>3, <1>4, <1>5, <1>6 DEF Larger

-----------------------------------------------------------------------------
\* The initial state satisfies the invariants.
LEMMA InvInit == Init => Inv /\ Margin /\ Noticed
<1> SUFFICES ASSUME NEW t \in 0..Latency,
                    requested \in Requests, skew \in Skews,
                    lockLeft = Lock - t,
                    interval = HeartbeatInterval(requested, lockLeft - skew),
                    tickLeft = interval, ticked = FALSE,
                    call = "none", age = 0, handler = "running",
                    cancelled = FALSE, late = FALSE, missed = FALSE,
                    overrun = 0
             PROVE  Inv /\ Margin /\ Noticed
  BY DEF Init, Lock
<1> USE LatencyAssumption, TimeoutAssumption
<1>1. /\ interval \in Nat \ {0}
      /\ ClockHarmless => 2 * interval <= Lock
  BY IntervalFits
<1>2. /\ Lock \in Nat /\ Lock >= MinLock
      /\ Slack \in Nat /\ Slack >= Latency
      /\ Lock >= 2 * (Slack + 2 * Latency + 1)
  BY LockBounds
<1>3. TypeOK
  <2>1. lockLeft \in 0..Lock /\ tickLeft \in 1..interval
    BY <1>1, <1>2
  <2>2. age \in 0..Larger(HbTimeout, ReportTimeout)
    BY DEF Larger
  <2>3. overrun \in 0..NoticeTime + 1
    BY <1>1 DEF NoticeTime, Larger
  <2>4. /\ ticked \in BOOLEAN /\ cancelled \in BOOLEAN
        /\ late \in BOOLEAN /\ missed \in BOOLEAN
    OBVIOUS
  <2> QED BY <1>1, <2>1, <2>2, <2>3, <2>4 DEF TypeOK, Lock
<1>4. Phased
  BY DEF Phased, Beating, Working
<1>5. Margin
  BY <1>1, <1>2 DEF Margin, Sound, Working
<1>6. Noticed
  BY <1>1 DEF Noticed, Remaining, NextTick, NoticeTime, Larger
<1> QED BY <1>3, <1>4, <1>5, <1>6 DEF Inv

\* Types and phases are kept by every step.
LEMMA PhasedStep == ASSUME Inv, [Next]_vars PROVE Inv'
<1> USE LatencyAssumption, TimeoutAssumption
<1>0. Lock \in Nat /\ Lock >= 1
  BY LockBounds DEF Inv, TypeOK
<1> USE DEF Inv, TypeOK, Phased, Beating, Working, delivery, ticker, history,
            NoticeTime, Larger, Lock
<1>1. CASE UNCHANGED vars
  BY <1>1 DEF vars
<1>2. CASE Beat
  <2>1. /\ ticked' = FALSE /\ call' = "beat" /\ age' = 0
        /\ UNCHANGED <<requested, skew, interval, lockLeft, tickLeft, handler,
                       cancelled, late, missed, overrun>>
        /\ handler = "running" /\ ~cancelled
    BY <1>2 DEF Beat
  <2>2. ticked' \in BOOLEAN
    BY <2>1, Zenon
  <2>3. age' \in 0..Larger(HbTimeout, ReportTimeout)
    BY <2>1
  <2>4. TypeOK'
    BY <2>1, <2>2, <2>3
  <2>5. Phased'
    BY <2>1
  <2> QED BY <2>4, <2>5
<1>3. CASE BeatAnswered
  BY <1>3 DEF BeatAnswered
<1>4. CASE BeatFails
  BY <1>4 DEF BeatFails
<1>5. CASE HandlerReturns
  BY <1>5 DEF HandlerReturns
<1>6. CASE ServeBeat
  BY <1>0, <1>6 DEF ServeBeat
<1>7. CASE ReportEnds
  BY <1>7 DEF ReportEnds
<1>8. CASE Tick
  <2>1. /\ UNCHANGED <<requested, skew, interval, call, handler, cancelled,
                       missed>>
        /\ ~Urgent
        /\ age' = IF call = "none" THEN 0 ELSE age + 1
    BY <1>8 DEF Tick
  <2>2. lockLeft' \in 0..Lock
    BY <1>0, <1>8 DEF Tick
  <2>3. tickLeft' \in 1..interval
    BY <1>8 DEF Tick
  <2>9. ticked' \in BOOLEAN
    <3>1. ticked' = TRUE \/ ticked' = ticked
      BY <1>8 DEF Tick
    <3> QED BY <3>1, Zenon
  <2>4. age' \in 0..Larger(HbTimeout, ReportTimeout)
    BY <2>1 DEF Urgent
  <2>5. overrun' \in 0..NoticeTime + 1
    BY <1>8 DEF Tick, Smaller
  <2>6. late' \in BOOLEAN /\ (late' <=> late \/ (Beating /\ age >= Latency))
    BY <1>8 DEF Tick
  <2>7. TypeOK'
    BY <2>1, <2>2, <2>3, <2>9, <2>4, <2>5, <2>6
  <2>8. Phased'
    BY <1>8, <2>1, <2>6 DEF Tick, Urgent
  <2> QED BY <2>7, <2>8
<1> QED BY <1>1, <1>2, <1>3, <1>4, <1>5, <1>6, <1>7, <1>8 DEF Next

\* So is the margin.
LEMMA MarginStep == ASSUME Inv, Margin, [Next]_vars PROVE Margin'
<1> USE LatencyAssumption, TimeoutAssumption
<1>0. /\ Lock \in Nat
      /\ Slack \in Nat /\ Slack >= Latency
      /\ Lock >= 2 * (Slack + 2 * Latency + 1)
  BY LockBounds DEF Inv, TypeOK
<1>1. UNCHANGED <<requested, skew, interval>>
  BY DEF Next, vars, delivery, Beat, BeatAnswered, BeatFails, HandlerReturns,
         ServeBeat, ReportEnds, Tick
<1>2. /\ Lock' = Lock /\ Slack' = Slack
      /\ ClockHarmless' = ClockHarmless /\ Forgiving' = Forgiving
  BY <1>1 DEF Lock, Slack, ClockHarmless, Forgiving
<1>3. Sound' => Sound
  BY <1>2 DEF Sound, Next, vars, history, Beat, BeatAnswered, BeatFails,
              HandlerReturns, ServeBeat, ReportEnds, Tick, Inv, TypeOK
<1> SUFFICES ASSUME Sound, Sound' PROVE Margin'
  BY <1>3 DEF Margin
<1>4. Beating => age <= Slack
  BY DEF Sound, Slack, Inv, Phased, TypeOK, Larger
<1> USE <1>0, <1>1, <1>2, <1>4 DEF Inv, TypeOK, Phased, Margin, Beating, Working
<1> USE DEF delivery, ticker, history
<1>5. CASE UNCHANGED vars
  BY <1>5 DEF vars
<1>6. CASE Beat
  BY <1>6 DEF Beat
<1>7. CASE BeatAnswered
  BY <1>7 DEF BeatAnswered
<1>8. CASE BeatFails
  BY <1>8 DEF BeatFails, Sound
<1>9. CASE HandlerReturns
  BY <1>9 DEF HandlerReturns
<1>10. CASE ServeBeat
  BY <1>10 DEF ServeBeat, Lock
<1>11. CASE ReportEnds
  BY <1>11 DEF ReportEnds
<1>12. CASE Tick
  BY <1>12 DEF Tick, Urgent, Larger
<1> QED BY <1>5, <1>6, <1>7, <1>8, <1>9, <1>10, <1>11, <1>12 DEF Next

\* And so is the bound on the time to notice.
LEMMA NoticedStep == ASSUME Inv, Noticed, [Next]_vars PROVE Noticed'
<1> USE LatencyAssumption, TimeoutAssumption
<1>0. NoticeTime \in Nat
  BY DEF NoticeTime, Larger, Inv, TypeOK
<1>1. UNCHANGED interval /\ NoticeTime' = NoticeTime
  BY DEF Next, vars, delivery, NoticeTime, Beat, BeatAnswered, BeatFails,
         HandlerReturns, ServeBeat, ReportEnds, Tick
<1> USE <1>0, <1>1 DEF Inv, TypeOK, Phased, Noticed, Beating, Working, Larger
<1> USE DEF delivery, ticker, history, Remaining, NextTick
<1>2. CASE UNCHANGED vars
  BY <1>2 DEF vars
<1>3. CASE Beat
  BY <1>3 DEF Beat
<1>4. CASE BeatAnswered
  <2>1. /\ call' = "none" /\ age' = 0
        /\ UNCHANGED <<lockLeft, tickLeft, ticked, handler, missed, overrun>>
    BY <1>4 DEF BeatAnswered
  <2>2. call = "kept" \/ cancelled'
    BY <1>4 DEF BeatAnswered
  <2> QED BY <1>4, <2>1, <2>2 DEF BeatAnswered
<1>5. CASE BeatFails
  BY <1>5 DEF BeatFails
<1>6. CASE HandlerReturns
  BY <1>6 DEF HandlerReturns
<1>7. CASE ServeBeat
  BY <1>7 DEF ServeBeat, NoticeTime
<1>8. CASE ReportEnds
  BY <1>8 DEF ReportEnds
<1>9. CASE Tick
  BY <1>9 DEF Tick, Urgent, Smaller
<1> QED BY <1>2, <1>3, <1>4, <1>5, <1>6, <1>7, <1>8, <1>9 DEF Next

\* All three hold in every reachable state.
LEMMA Invariance == Spec => [](Inv /\ Margin /\ Noticed)
<1>1. Inv /\ Margin /\ Noticed /\ [Next]_vars => (Inv /\ Margin /\ Noticed)'
  BY PhasedStep, MarginStep, NoticedStep
<1> QED BY <1>1, InvInit, PTL DEF Spec

-----------------------------------------------------------------------------
\* Every reachable state is type-correct: the ticker's interval is positive
\* for every duration and every clock.
THEOREM TypeCorrect == Spec => []TypeOK
<1>1. Inv => TypeOK
  BY DEF Inv
<1> QED BY <1>1, Invariance, PTL

\* heartbeatInterval and the ticker keep the lock until the report has had
\* its time, whatever the lock's duration within the server's bounds.
THEOREM LocksOutlastWork == Spec => []LockOutlastsWork
<1>1. Inv /\ Margin => LockOutlastsWork
  <2> SUFFICES ASSUME Inv, Margin, Sound,
                      Working \/ (handler = "reporting" /\ age <= Latency)
               PROVE  lockLeft > 0
    BY DEF LockOutlastsWork, Sound, Inv, TypeOK
  <2> USE LatencyAssumption, TimeoutAssumption
  <2>1. /\ Lock \in Nat
        /\ Slack \in Nat /\ Slack >= Latency
        /\ Lock >= 2 * (Slack + 2 * Latency + 1)
    BY LockBounds DEF Inv, TypeOK
  <2>2. Beating => age <= Slack
    BY DEF Sound, Slack, Inv, Phased, TypeOK, Larger
  <2> QED
    BY <2>1, <2>2 DEF Margin, Inv, TypeOK, Phased, Beating, Working
<1> QED BY <1>1, Invariance, PTL

\* A handler without its lock is cancelled in time, whatever the clock.
THEOREM LossesNoticed == Spec => []LossNoticed
<1>1. Noticed => LossNoticed
  BY DEF Noticed, LossNoticed
<1> QED BY <1>1, Invariance, PTL
=============================================================================
