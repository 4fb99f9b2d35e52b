------------------------- MODULE JobDispatchProofs -------------------------
(***************************************************************************)
(* Theorems about JobDispatch, for any set of deliveries.                  *)
(*                                                                         *)
(* LostLockNotReported is not inductive: nothing in it says that the       *)
(* heartbeat goroutine can no longer cancel ctx once dispatch has looked   *)
(* at it.  Phased adds that - past the join, hb is "done" - and how the    *)
(* two goroutines of a delivery stand to each other before it.             *)
(***************************************************************************)
EXTENDS JobDispatch, TLAPS

USE DEF reportVars

Joined(j) ==
    pc[j] \in {"checking", "finalizing", "authorizing", "reporting", "ended"}

\* How the dispatch of j and its heartbeat stand to each other.
Phased(j) ==
    /\ pc[j] = "idle" <=> hb[j] = "off"
    /\ pc[j] \in {"idle", "handling", "returned"} <=> ~hbStopped[j]
    /\ Joined(j) => hb[j] = "done"
    /\ hb[j] = "done" => HbCtxDone(j)
    /\ pc[j] = "idle" => ~lockLost[j]
    /\ lockLost[j] => hb[j] = "done"
    /\ pc[j] \in {"finalizing", "authorizing", "reporting"} => ~lockLost[j]
    /\ pc[j] = "authorizing" => ~Unsendable(j) /\ outcome[j] \notin Panicking
    /\ pc[j] = "reporting" => sent[j] # "none"
    /\ sent[j] # "none" => pc[j] \in {"reporting", "ended"} /\ ~lockLost[j]

Inv == TypeOK /\ \A j \in Jobs : Phased(j)

\* The steps that only read and write the state of one delivery.
StepOf(j) == Start(j) \/ Handler(j) \/ Finalize(j) \/ Heartbeat(j)

-----------------------------------------------------------------------------
\* A report is one of the three the server accepts, whatever the handler did.
LEMMA ReportForType == \A o : ReportFor(SafeRun(o)) \in Reports
  BY DEF ReportFor, Reports

\* A type-correct state stays so.
LEMMA TypeStep == ASSUME TypeOK, [Next]_vars PROVE TypeOK'
<1> USE OutcomesAssumption DEF TypeOK, PCs, HbStates, HbAnswers
<1>1. CASE UNCHANGED vars
  BY <1>1 DEF vars
<1>2. CASE CancelJobs
  BY <1>2 DEF CancelJobs, hbVars
<1>3. ASSUME NEW j \in Jobs, Start(j) PROVE TypeOK'
  BY <1>3 DEF Start, Goto
<1>4. ASSUME NEW j \in Jobs, Handler(j) PROVE TypeOK'
  BY <1>4 DEF Handler, HandlerReturns, Goto, hbVars
<1>5. ASSUME NEW j \in Jobs, Finalize(j) PROVE TypeOK'
  <2>1. CASE StopHeartbeat(j)
    BY <2>1 DEF StopHeartbeat, Goto, hbVars
  <2>2. CASE JoinHeartbeat(j)
    BY <2>2 DEF JoinHeartbeat, Goto, hbVars
  <2>3. CASE CheckCtx(j)
    BY <2>3 DEF CheckCtx, Goto, hbVars
  <2>4. CASE SendReport(j)
    BY <2>4, ReportForType DEF SendReport, Goto, hbVars
  <2>5. CASE PanicOutside(j)
    BY <2>5 DEF PanicOutside, hbVars
  <2>6. CASE ReportAnswered(j)
    BY <2>6 DEF ReportAnswered, Goto, hbVars
  <2>7. CASE BuildReport(j)
    BY <2>7 DEF BuildReport, Goto, hbVars
  <2>8. CASE NoToken(j)
    BY <2>8 DEF NoToken, Goto, hbVars
  <2> QED
    BY <1>5, <2>1, <2>2, <2>3, <2>4, <2>5, <2>6, <2>7, <2>8 DEF Finalize
<1>6. ASSUME NEW j \in Jobs, Heartbeat(j) PROVE TypeOK'
  <2>1. CASE HbStop(j)
    BY <2>1 DEF HbStop, HbGoto
  <2>2. CASE Beat(j)
    BY <2>2 DEF Beat, HbGoto
  <2>3. ASSUME NEW a \in HbAnswers, BeatAnswered(j, a) PROVE TypeOK'
    BY <2>3 DEF BeatAnswered, HbGoto
  <2>4. CASE HbSwitch(j)
    BY <2>4 DEF HbSwitch, AfterAnswer, HbGoto
  <2>5. CASE LoseLock(j)
    BY <2>5 DEF LoseLock, HbGoto
  <2> QED BY <1>6, <2>1, <2>2, <2>3, <2>4, <2>5 DEF Heartbeat
<1> QED BY <1>1, <1>2, <1>3, <1>4, <1>5, <1>6 DEF Next

\* The initial state is type-correct.
LEMMA TypeInit == Init => TypeOK
<1> SUFFICES ASSUME Init PROVE TypeOK
  OBVIOUS
<1> USE DEF Init
<1>1. jobsDone \in BOOLEAN /\ crashed \in BOOLEAN
  OBVIOUS
<1>2. pc \in [Jobs -> PCs] /\ hb \in [Jobs -> HbStates]
  BY DEF PCs, HbStates
<1>3. /\ outcome  \in [Jobs -> Outcomes \union {"none"}]
      /\ sent     \in [Jobs -> Reports \union {"none"}]
      /\ hbAnswer \in [Jobs -> HbAnswers \union {"none"}]
  OBVIOUS
<1>4. /\ noToken   \in [Jobs -> BOOLEAN]
      /\ hbStopped \in [Jobs -> BOOLEAN]
      /\ lockLost  \in [Jobs -> BOOLEAN]
  OBVIOUS
<1> QED BY <1>1, <1>2, <1>3, <1>4 DEF TypeOK

\* Every reachable state of any worker is type-correct.
THEOREM TypeCorrect == Spec => []TypeOK
  BY TypeInit, TypeStep, PTL DEF Spec

-----------------------------------------------------------------------------
\* The steps of one delivery keep its goroutines in phase, and leave those of
\* the others alone.
LEMMA PhasedStep ==
    ASSUME Inv, NEW j \in Jobs, StepOf(j)
    PROVE  \A k \in Jobs : Phased(k)'
<1> USE DEF Inv, TypeOK, Phased, Joined, Unsendable, HbCtxDone, CtxDone
<1>1. CASE Start(j)
  BY <1>1 DEF Start, Goto
<1>2. CASE Handler(j)
  BY <1>2 DEF Handler, HandlerReturns, Goto, hbVars
<1>3. CASE StopHeartbeat(j)
  BY <1>3 DEF StopHeartbeat, Goto, hbVars
<1>4. CASE JoinHeartbeat(j)
  BY <1>4 DEF JoinHeartbeat, Goto, hbVars
<1>5. CASE CheckCtx(j)
  BY <1>5 DEF CheckCtx, Goto, hbVars
<1>6. CASE SendReport(j)
  BY <1>6, ReportForType DEF SendReport, Goto, hbVars, Reports
<1>7. CASE PanicOutside(j) \/ BuildReport(j) \/ NoToken(j)
  BY <1>7 DEF PanicOutside, BuildReport, NoToken, Goto, hbVars
<1>8. CASE ReportAnswered(j)
  BY <1>8 DEF ReportAnswered, Goto, hbVars
<1>9. CASE HbStop(j)
  BY <1>9 DEF HbStop, HbGoto
<1>10. CASE Beat(j)
  BY <1>10 DEF Beat, HbGoto
<1>11. ASSUME NEW a \in HbAnswers, BeatAnswered(j, a)
       PROVE  \A k \in Jobs : Phased(k)'
  BY <1>11 DEF BeatAnswered, HbGoto
<1>12. CASE HbSwitch(j)
  BY <1>12 DEF HbSwitch, AfterAnswer, HbGoto
<1>13. CASE LoseLock(j)
  BY <1>13 DEF LoseLock, HbGoto
<1> QED
  BY <1>1, <1>2, <1>3, <1>4, <1>5, <1>6, <1>7, <1>8, <1>9, <1>10, <1>11,
     <1>12, <1>13 DEF StepOf, Finalize, Heartbeat

\* Inv is inductive.
LEMMA InvStep == Inv /\ [Next]_vars => Inv'
<1> SUFFICES ASSUME Inv, [Next]_vars PROVE Inv'
  OBVIOUS
<1>1. TypeOK'
  BY TypeStep DEF Inv
<1>2. CASE UNCHANGED vars
  BY <1>1, <1>2 DEF Inv, vars, Phased, Joined, Unsendable, HbCtxDone, CtxDone
<1>3. CASE CancelJobs
  BY <1>1, <1>3
     DEF Inv, TypeOK, CancelJobs, hbVars, Phased, Joined, Unsendable, HbCtxDone,
         CtxDone
<1>4. ASSUME NEW j \in Jobs, StepOf(j) PROVE Inv'
  BY <1>1, <1>4, PhasedStep DEF Inv
<1> QED BY <1>2, <1>3, <1>4 DEF Next, StepOf

\* Inv holds in every reachable state.
LEMMA Invariance == Spec => []Inv
<1>1. Init => Inv
  BY TypeInit DEF Init, Inv, Phased, Joined, HbCtxDone, CtxDone
<1> QED BY <1>1, InvStep, PTL DEF Spec

\* dispatch never reports a job while a heartbeat of it can still be sent or
\* answered, for any number of deliveries.
THEOREM NoHeartbeatBesideReport == Spec => []HeartbeatEndsBeforeReport
<1>1. Inv => HeartbeatEndsBeforeReport
  BY DEF Inv, Phased, Joined, HeartbeatEndsBeforeReport
<1> QED BY <1>1, Invariance, PTL

\* A delivery whose lock the worker knows to be lost is never reported, and a
\* reported one is never noted as lost.
THEOREM LostLockSilent == Spec => []LostLockNotReported
<1>1. Inv => LostLockNotReported
  BY DEF Inv, Phased, LostLockNotReported
<1> QED BY <1>1, Invariance, PTL

\* While a handler runs under a live context its heartbeat goroutine does.
THEOREM HeartbeatAlive == Spec => []HeartbeatUntilReturn
<1>1. Inv => HeartbeatUntilReturn
  BY DEF Inv, Phased, HeartbeatUntilReturn, HbCtxDone
<1> QED BY <1>1, Invariance, PTL

\* After the shutdown timeout no request of any delivery leaves the worker.
THEOREM TimeoutSilences == Spec => NothingSentAfterTimeout
<1>1. ASSUME TypeOK, NEW j \in Jobs, StepOf(j) PROVE Silent
  <2> SUFFICES ASSUME jobsDone PROVE Silent
    BY DEF Silent
  <2> USE DEF TypeOK, Silent, HbCtxDone, CtxDone
  <2>1. CASE Start(j)
    BY <2>1 DEF Start
  <2>2. CASE Handler(j)
    BY <2>2 DEF Handler, HandlerReturns, hbVars
  <2>3. CASE Finalize(j)
    BY <2>3 DEF Finalize, StopHeartbeat, JoinHeartbeat, CheckCtx, SendReport,
                BuildReport, PanicOutside, NoToken, ReportAnswered, hbVars
  <2>4. CASE HbStop(j)
    BY <2>4 DEF HbStop, HbGoto
  <2>5. CASE Beat(j)
    <3>1. HbCtxDone(j)
      OBVIOUS
    <3>2. HbGoto(j, "waiting", "answered") /\ sent' = sent
      BY <2>5, <3>1, Zenon DEF Beat
    <3> QED BY <3>2 DEF HbGoto
  <2>6. ASSUME NEW a \in HbAnswers, BeatAnswered(j, a) PROVE Silent
    BY <2>6 DEF BeatAnswered, HbGoto
  <2>7. CASE HbSwitch(j)
    BY <2>7 DEF HbSwitch, AfterAnswer, HbGoto
  <2>8. CASE LoseLock(j)
    BY <2>8 DEF LoseLock, HbGoto
  <2> QED
    BY <1>1, <2>1, <2>2, <2>3, <2>4, <2>5, <2>6, <2>7, <2>8
       DEF StepOf, Heartbeat
<1>2. TypeOK /\ [Next]_vars => [Silent]_vars
  BY <1>1 DEF Next, StepOf, CancelJobs, Silent, hbVars, vars
<1> QED BY <1>2, TypeCorrect, PTL DEF Spec, NothingSentAfterTimeout

-----------------------------------------------------------------------------
(* JobDispatch implements Delivery: Start begins the delivery, a handler    *)
(* that returns returns, SendReport reports or drops, CheckCtx and          *)
(* BuildReport may drop, NoToken denies, CancelJobs and LoseLock revoke,    *)
(* and the other steps are invisible.                                       *)

\* What Delivery's variables are in JobDispatch.
phases   == [j \in Jobs |-> PhaseOf(j)]
verdicts == [j \in Jobs |-> VerdictOf(j)]
revokeds == {j \in Jobs : CtxDone(j)}
denied   == {j \in Jobs : noToken[j]}

\* A step that leaves what the mapping reads alone is invisible to Delivery.
LEMMA Invisible ==
    ASSUME UNCHANGED <<pc, outcome, sent, noToken, lockLost, jobsDone>>
    PROVE  UNCHANGED <<phases, outcome, verdicts, revokeds, denied>>
  BY DEF phases, verdicts, revokeds, denied, PhaseOf, VerdictOf, CtxDone

\* A dispatch that moves on without reporting is invisible to Delivery.
LEMMA StillReturned ==
    ASSUME TypeOK, NEW j \in Jobs,
           NEW p \in {"joining", "checking", "finalizing", "authorizing"},
           pc[j] \in {"returned", "joining", "checking", "finalizing"},
           pc' = [pc EXCEPT ![j] = p],
           UNCHANGED <<outcome, sent, noToken, lockLost, jobsDone>>
    PROVE  UNCHANGED <<phases, outcome, verdicts, revokeds, denied>>
<1>1. \A k \in Jobs : PhaseOf(k)' = PhaseOf(k)
  BY DEF TypeOK, PhaseOf
<1>2. \A k \in Jobs : VerdictOf(k)' = VerdictOf(k)
  BY DEF TypeOK, VerdictOf
<1>3. revokeds' = revokeds /\ denied' = denied
  BY DEF revokeds, denied, CtxDone
<1> QED BY <1>1, <1>2, <1>3 DEF phases, verdicts

\* The initial state of JobDispatch is one of Delivery.
LEMMA RefinementInit == Init => Promise!Init
<1> SUFFICES ASSUME Init PROVE Promise!Init
  OBVIOUS
<1> USE DEF Init
<1>1. phases = [j \in Jobs |-> "waiting"]
  BY DEF phases, PhaseOf
<1>2. verdicts = [j \in Jobs |-> "none"]
  BY DEF verdicts, VerdictOf
<1>3. revokeds = {} /\ denied = {}
  BY DEF revokeds, denied, CtxDone
<1> QED
  BY <1>1, <1>2, <1>3 DEF Promise!Init, phases, verdicts, revokeds, denied

\* A step of the goroutine of dispatch is a step of Delivery.
LEMMA RefinementFinalize ==
    ASSUME Inv, NEW j \in Jobs, Finalize(j)
    PROVE  [Promise!Next]_(Promise!dvars)
<1> DEFINE Same == UNCHANGED <<phases, outcome, verdicts, revokeds, denied>>
<1>0. Same => UNCHANGED Promise!dvars
  BY DEF Promise!dvars, phases, verdicts, revokeds, denied
<1> USE DEF Inv, TypeOK
<1>1. CASE StopHeartbeat(j)
  <2>1. Same
    BY <1>1, StillReturned DEF StopHeartbeat, Goto, hbVars
  <2> QED BY <1>0, <2>1
<1>2. CASE JoinHeartbeat(j)
  <2>1. Same
    BY <1>2, StillReturned DEF JoinHeartbeat, Goto, hbVars
  <2> QED BY <1>0, <2>1
<1>3. CASE PanicOutside(j)
  <2>1. Same
    BY <1>3, Invisible DEF PanicOutside, hbVars
  <2> QED BY <1>0, <2>1
<1>4. CASE ReportAnswered(j)
  <2>1. \A k \in Jobs : PhaseOf(k)' = PhaseOf(k)
    BY <1>4 DEF ReportAnswered, Goto, PhaseOf
  <2>2. \A k \in Jobs : VerdictOf(k)' = VerdictOf(k)
    BY <1>4 DEF ReportAnswered, Goto, VerdictOf, Phased
  <2>3. revokeds' = revokeds /\ denied' = denied
    BY <1>4 DEF ReportAnswered, hbVars, revokeds, denied, CtxDone
  <2>4. Same
    BY <1>4, <2>1, <2>2, <2>3 DEF ReportAnswered, phases, verdicts
  <2> QED BY <1>0, <2>4
<1>5. CASE CheckCtx(j) /\ ~CtxDone(j)
  <2>1. Same
    BY <1>5, StillReturned DEF CheckCtx, Goto, hbVars
  <2> QED BY <1>0, <2>1
<1>6. ASSUME NEW p \in {"checking", "finalizing", "authorizing"},
             Goto(j, p, "ended"),
             CtxDone(j) \/ Unsendable(j),
             UNCHANGED <<outcome, sent, noToken, jobsDone, lockLost>>
      PROVE  Promise!Drop(j)
  <2>1. phases[j] = "returned" /\ (j \in revokeds \/ Unsendable(j))
    BY <1>6 DEF Goto, phases, PhaseOf, revokeds
  <2>2. phases' = [phases EXCEPT ![j] = "settled"]
    BY <1>6 DEF Goto, phases, PhaseOf
  <2>3. verdicts' = [verdicts EXCEPT ![j] = "dropped"]
    BY <1>6 DEF Goto, verdicts, VerdictOf, Phased
  <2>4. revokeds' = revokeds /\ denied' = denied
    BY <1>6 DEF revokeds, denied, CtxDone
  <2> QED
    BY <1>6, <2>1, <2>2, <2>3, <2>4
       DEF Promise!Drop, phases, verdicts, revokeds, denied, Unsendable
<1>7. CASE CheckCtx(j) /\ CtxDone(j)
  <2>1. Goto(j, "checking", "ended")
    BY <1>7 DEF CheckCtx
  <2>2. UNCHANGED <<outcome, sent, noToken, jobsDone, lockLost>>
    BY <1>7 DEF CheckCtx, hbVars
  <2> QED BY <1>6, <1>7, <2>1, <2>2 DEF Promise!Next
<1>8. CASE BuildReport(j) /\ ~Unsendable(j)
  <2>1. Same
    BY <1>8, StillReturned DEF BuildReport, Goto, hbVars
  <2> QED BY <1>0, <2>1
<1>9. CASE BuildReport(j) /\ Unsendable(j)
  <2>1. Goto(j, "finalizing", "ended")
    BY <1>9 DEF BuildReport
  <2>2. UNCHANGED <<outcome, sent, noToken, jobsDone, lockLost>>
    BY <1>9 DEF BuildReport, hbVars
  <2> QED BY <1>6, <1>9, <2>1, <2>2 DEF Promise!Next
<1>10. CASE NoToken(j)
  <2>1. Goto(j, "authorizing", "ended")
    BY <1>10 DEF NoToken
  <2>2. UNCHANGED <<outcome, sent, jobsDone, lockLost>>
    BY <1>10 DEF NoToken, hbVars
  <2>3. phases[j] = "returned" /\ ~Unsendable(j)
    BY <2>1 DEF Goto, phases, PhaseOf, Phased
  <2>4. phases' = [phases EXCEPT ![j] = "settled"]
    BY <2>1 DEF Goto, phases, PhaseOf
  <2>5. verdicts' = [verdicts EXCEPT ![j] = "dropped"]
    BY <2>1, <2>2 DEF Goto, verdicts, VerdictOf, Phased
  <2>6. revokeds' = revokeds
    BY <2>2 DEF revokeds, CtxDone
  <2>7. denied' = denied \union {j}
    BY <1>10 DEF NoToken, denied
  <2>8. Promise!Deny(j)
    BY <2>2, <2>3, <2>4, <2>5, <2>6, <2>7
       DEF Promise!Deny, phases, verdicts, revokeds, denied, Unsendable
  <2> QED BY <2>8 DEF Promise!Next
<1>11. CASE SendReport(j) /\ jobsDone
  <2>1. Goto(j, "authorizing", "ended") /\ sent' = sent
    BY <1>11, Zenon DEF SendReport
  <2>2. UNCHANGED <<outcome, noToken, jobsDone, lockLost>>
    BY <1>11 DEF SendReport, hbVars
  <2>3. CtxDone(j)
    BY <1>11 DEF CtxDone
  <2> QED BY <1>6, <2>1, <2>2, <2>3 DEF Promise!Next
<1>12. CASE SendReport(j) /\ ~jobsDone
  <2>1. /\ Goto(j, "authorizing", "reporting")
        /\ sent' = [sent EXCEPT ![j] = ReportFor(SafeRun(outcome[j]))]
    BY <1>12, Zenon DEF SendReport
  <2>2. UNCHANGED <<outcome, noToken, jobsDone, lockLost>>
    BY <1>12 DEF SendReport, hbVars
  <2>3. ~Unsendable(j) /\ outcome[j] \notin Panicking
    BY <2>1 DEF Goto, Phased
  <2>4. ReportFor(SafeRun(outcome[j])) = Promise!Contract(outcome[j])
    BY <2>3 DEF ReportFor, SafeRun, Promise!Contract, Unsendable, Panicking
  <2>5. phases[j] = "returned" /\ j \notin revokeds
    BY <1>12, <2>1 DEF Goto, phases, PhaseOf, revokeds, CtxDone, Phased
  <2>6. phases' = [phases EXCEPT ![j] = "settled"]
    BY <2>1 DEF Goto, phases, PhaseOf
  <2>7. verdicts' = [verdicts EXCEPT ![j] = Promise!Contract(outcome[j])]
    BY <2>1, <2>4 DEF Goto, verdicts, VerdictOf
  <2>8. revokeds' = revokeds /\ denied' = denied
    BY <2>2 DEF revokeds, denied, CtxDone
  <2>9. Promise!Report(j)
    BY <2>2, <2>3, <2>5, <2>6, <2>7, <2>8
       DEF Promise!Report, phases, verdicts, revokeds, denied, Unsendable
  <2> QED BY <2>9 DEF Promise!Next
<1> QED
  BY <1>1, <1>2, <1>3, <1>4, <1>5, <1>7, <1>8, <1>9, <1>10, <1>11, <1>12
     DEF Finalize

\* A step of the heartbeat goroutine is one too: only LoseLock is visible.
LEMMA RefinementHeartbeat ==
    ASSUME Inv, NEW j \in Jobs, Heartbeat(j)
    PROVE  [Promise!Next]_(Promise!dvars)
<1>1. CASE LoseLock(j)
  <2>1. UNCHANGED <<pc, outcome, sent, noToken, jobsDone>>
    BY <1>1 DEF LoseLock
  <2>2. UNCHANGED <<phases, outcome, verdicts, denied>>
    BY <2>1 DEF phases, verdicts, denied, PhaseOf, VerdictOf
  <2>3. revokeds' = revokeds \union {j}
    BY <1>1 DEF LoseLock, revokeds, CtxDone, Inv, TypeOK
  <2>4. Promise!Revoke({j})
    BY <2>2, <2>3 DEF Promise!Revoke, phases, verdicts, revokeds, denied
  <2> QED BY <2>4 DEF Promise!Next
<1>2. CASE ~LoseLock(j)
  <2>1. UNCHANGED <<pc, outcome, sent, noToken, lockLost, jobsDone>>
    BY <1>2 DEF Heartbeat, HbStop, Beat, BeatAnswered, HbSwitch
  <2> QED
    BY <2>1, Invisible DEF Promise!dvars, phases, verdicts, revokeds, denied
<1> QED BY <1>1, <1>2

\* Every step of JobDispatch is a step of Delivery or invisible to it.
LEMMA RefinementStep == Inv /\ [Next]_vars => [Promise!Next]_(Promise!dvars)
<1> SUFFICES ASSUME Inv, [Next]_vars PROVE [Promise!Next]_(Promise!dvars)
  OBVIOUS
<1>1. CASE UNCHANGED vars
  BY <1>1, Invisible
     DEF vars, Promise!dvars, phases, verdicts, revokeds, denied
<1>2. CASE CancelJobs
  <2>1. UNCHANGED <<phases, outcome, verdicts, denied>>
    BY <1>2
       DEF CancelJobs, hbVars, phases, verdicts, denied, PhaseOf, VerdictOf
  <2>2. revokeds' = revokeds \union Jobs
    BY <1>2 DEF CancelJobs, revokeds, CtxDone
  <2>3. Promise!Revoke(Jobs)
    BY <2>1, <2>2 DEF Promise!Revoke, phases, verdicts, revokeds, denied
  <2> QED BY <2>3 DEF Promise!Next
<1>3. ASSUME NEW j \in Jobs, Start(j) PROVE Promise!Next
  <2> USE <1>3 DEF Start, Goto, Inv, TypeOK
  <2>1. phases[j] = "waiting" /\ phases' = [phases EXCEPT ![j] = "running"]
    BY DEF phases, PhaseOf
  <2>2. UNCHANGED <<outcome, verdicts, revokeds, denied>>
    BY DEF verdicts, VerdictOf, revokeds, denied, CtxDone
  <2>3. Promise!Begin(j)
    BY <2>1, <2>2 DEF Promise!Begin, phases, verdicts, revokeds, denied
  <2> QED BY <2>3 DEF Promise!Next
<1>4. ASSUME NEW j \in Jobs, Handler(j) PROVE Promise!Next
  <2> PICK o \in Outcomes : HandlerReturns(j, o)
    BY <1>4 DEF Handler
  <2> USE DEF HandlerReturns, Goto, Inv, TypeOK, hbVars
  <2>1. phases[j] = "running" /\ phases' = [phases EXCEPT ![j] = "returned"]
    BY DEF phases, PhaseOf
  <2>2. /\ outcome' = [outcome EXCEPT ![j] = o]
        /\ UNCHANGED <<verdicts, revokeds, denied>>
    BY DEF verdicts, VerdictOf, revokeds, denied, CtxDone
  <2>3. Promise!Return(j, o)
    BY <2>1, <2>2 DEF Promise!Return, phases, verdicts, revokeds, denied
  <2> QED BY <2>3 DEF Promise!Next
<1> QED
  BY <1>1, <1>2, <1>3, <1>4, RefinementFinalize, RefinementHeartbeat DEF Next

\* dispatch implements the promise of Delivery, for any set of deliveries.
THEOREM DispatchImplementsDelivery == Spec => ImplementsDelivery
  BY RefinementInit, RefinementStep, Invariance, PTL
     DEF Spec, ImplementsDelivery, Promise!Spec

-----------------------------------------------------------------------------
(* What holds where NeverCrashes and ResultReported do not. *)

\* What the dispatch of j has done with the outcome of its handler.
Truthful(j) ==
    /\ pc[j] \in {"idle", "handling"} <=> outcome[j] = "none"
    /\ sent[j] # "none"
           => /\ sent[j] = ReportFor(SafeRun(outcome[j]))
              /\ ~Unsendable(j)
              /\ outcome[j] \notin Panicking
    /\ pc[j] \in {"authorizing", "reporting"} => outcome[j] \notin Panicking
    /\ noToken[j] => pc[j] = "ended" /\ sent[j] = "none"
    /\ pc[j] = "ended"
           => CtxDone(j) \/ Unsendable(j) \/ noToken[j] \/ sent[j] # "none"

\* The process crashes in one place only.
CrashedInFinalize ==
    crashed
        => \E j \in Jobs : pc[j] = "finalizing" /\ outcome[j] \in Panicking

\* A delivery that was not revoked, whose result JSON can encode, and whose
\* report was given a token in time, is reported by the time its dispatch ends.
EncodableReported ==
    \A j \in Jobs :
        pc[j] = "ended" /\ sent[j] = "none"
            => CtxDone(j) \/ Unsendable(j) \/ noToken[j]

\* What is reported is what the handler returned.
ReportIsOutcome ==
    \A j \in Jobs :
        sent[j] # "none"
            => outcome[j] # "none" /\ sent[j] = ReportFor(SafeRun(outcome[j]))

\* "none" is not a way to return.
LEMMA NoneIsNoOutcome == "none" \notin Outcomes
  BY OutcomesAssumption

\* The steps of one delivery keep it truthful.
LEMMA TruthfulStep ==
    ASSUME Inv, NEW j \in Jobs, StepOf(j), NEW k \in Jobs, Truthful(k)
    PROVE  Truthful(k)'
<1> USE NoneIsNoOutcome
    DEF Inv, TypeOK, Phased, Joined, Truthful, CtxDone, Unsendable, Goto
<1>1. CASE Start(j)
  BY <1>1 DEF Start
<1>2. ASSUME NEW o \in Outcomes, HandlerReturns(j, o) PROVE Truthful(k)'
  BY <1>2 DEF HandlerReturns, hbVars
<1>3. CASE StopHeartbeat(j) \/ JoinHeartbeat(j) \/ PanicOutside(j)
  BY <1>3 DEF StopHeartbeat, JoinHeartbeat, PanicOutside, hbVars
<1>4. CASE CheckCtx(j)
  BY <1>4 DEF CheckCtx, hbVars
<1>5. CASE SendReport(j)
  BY <1>5, ReportForType DEF SendReport, Reports, hbVars
<1>6. CASE ReportAnswered(j)
  BY <1>6 DEF ReportAnswered, hbVars
<1>7. CASE BuildReport(j)
  BY <1>7 DEF BuildReport, hbVars
<1>8. CASE NoToken(j)
  BY <1>8 DEF NoToken, hbVars
<1>9. CASE Heartbeat(j)
  <2>1. UNCHANGED <<jobsDone, pc, outcome, sent, noToken>>
    BY <1>9 DEF Heartbeat, HbStop, Beat, BeatAnswered, HbSwitch, LoseLock
  <2>2. lockLost[k] => lockLost'[k]
    BY <1>9 DEF Heartbeat, HbStop, Beat, BeatAnswered, HbSwitch, LoseLock
  <2> QED BY <2>1, <2>2
<1> QED
  BY <1>1, <1>2, <1>3, <1>4, <1>5, <1>6, <1>7, <1>8, <1>9
     DEF StepOf, Handler, Finalize

\* Both hold in every reachable state.
LEMMA Truth ==
    Spec => [](Inv /\ (\A j \in Jobs : Truthful(j)) /\ CrashedInFinalize)
<1> DEFINE True == (\A j \in Jobs : Truthful(j)) /\ CrashedInFinalize
<1>1. Init => True
  BY DEF Init, Truthful, CrashedInFinalize
<1>2. Inv /\ True /\ [Next]_vars => True'
  <2> SUFFICES ASSUME Inv, True, [Next]_vars PROVE True'
    OBVIOUS
  <2>1. CASE UNCHANGED vars
    BY <2>1
       DEF vars, Truthful, CrashedInFinalize, CtxDone, Unsendable
  <2>2. CASE CancelJobs
    BY <2>2
       DEF CancelJobs, hbVars, Truthful, CrashedInFinalize, CtxDone, Unsendable
  <2>3. ASSUME NEW j \in Jobs, StepOf(j), ~crashed PROVE True'
    <3>1. CrashedInFinalize'
      BY <2>3
         DEF CrashedInFinalize, StepOf, Start, Handler, HandlerReturns,
             Finalize, StopHeartbeat, JoinHeartbeat, CheckCtx, BuildReport,
             PanicOutside, NoToken, SendReport, ReportAnswered, Heartbeat, HbStop, Beat,
             BeatAnswered, HbSwitch, LoseLock
    <3> QED BY <2>3, <3>1, TruthfulStep
  <2> QED BY <2>1, <2>2, <2>3 DEF Next, StepOf
<1> QED BY <1>1, <1>2, Invariance, PTL DEF Spec

\* What a handler returns is all that can crash the process: a nil *BpmnError,
\* or an error or variables whose methods panic.  No panic of the handler itself
\* does, and no answer of the server, in any order of events.
THEOREM CrashOnlyByResult == Spec => []CrashedInFinalize
  BY Truth, PTL

\* So handlers that return none of these never crash it: finding 1 of README.md
\* names all the ways a result has to.
THEOREM HarmlessNeverCrash ==
    ASSUME Outcomes \cap Panicking = {}
    PROVE  Spec => []NeverCrashes
<1>1. Inv /\ (\A j \in Jobs : Truthful(j)) /\ CrashedInFinalize => NeverCrashes
  <2> SUFFICES ASSUME Inv, \A j \in Jobs : Truthful(j), CrashedInFinalize
               PROVE  NeverCrashes
    OBVIOUS
  <2>1. \A j \in Jobs : pc[j] = "finalizing" => outcome[j] \in Outcomes
    BY DEF Inv, TypeOK, Truthful
  <2> QED BY <2>1 DEF CrashedInFinalize, NeverCrashes
<1> QED BY <1>1, Truth, PTL

\* A dispatch that ends without a report was revoked, or has a result that
\* cannot be encoded (finding 2 of README.md), or was not given a token for it:
\* no answer and no order of events loses a result in any other way.
THEOREM ResultsReported == Spec => []EncodableReported
<1>1. (\A j \in Jobs : Truthful(j)) => EncodableReported
  BY DEF Truthful, EncodableReported
<1> QED BY <1>1, Truth, PTL

\* A handler that never returns such variables is heard, unless its delivery is
\* revoked or the token provider fails it.
THEOREM EncodableNeverLost ==
    ASSUME "badVars" \notin Outcomes
    PROVE  Spec => []ResultReported
<1>1. Inv /\ (\A j \in Jobs : Truthful(j)) => ResultReported
  BY DEF Inv, TypeOK, Truthful, Unsendable, ResultReported
<1> QED BY <1>1, Truth, PTL

\* No report says anything but what the handler of its delivery returned; a
\* panic is reported as an error.
THEOREM ReportsTruthful == Spec => []ReportIsOutcome
<1>1. Inv /\ (\A j \in Jobs : Truthful(j)) => ReportIsOutcome
  BY DEF Inv, Phased, Truthful, ReportIsOutcome
<1> QED BY <1>1, Truth, PTL

-----------------------------------------------------------------------------
(* The safety half of ReturnedDispatchEnds, TimeoutSilencesHeartbeats and   *)
(* ConflictCancelsHandler: how many steps are left, and that one can be     *)
(* taken.  That the goroutines do take them is the fairness.                *)

\* The steps a heartbeat goroutine has left once its context has ended.
HbLeft(j) ==
    CASE hb[j] \in {"waiting", "calling"} -> 3
      [] hb[j] = "answered"               -> 2
      [] hb[j] = "losing"                 -> 1
      [] OTHER                            -> 0

\* The steps dispatch has left once it has stopped the heartbeat.
DispatchLeft(j) ==
    CASE pc[j] = "joining"     -> 5
      [] pc[j] = "checking"    -> 4
      [] pc[j] = "finalizing"  -> 3
      [] pc[j] = "authorizing" -> 2
      [] pc[j] = "reporting"   -> 1
      [] OTHER                 -> 0

\* A heartbeat goroutine whose context has ended goes straight to its end: its
\* context does not come back, and no step of it leads back.
WindsDown(j) ==
    HbCtxDone(j) /\ hb[j] # "off"
        => /\ HbCtxDone(j)'
           /\ hb'[j] # hb[j] => HbLeft(j)' < HbLeft(j)

HeartbeatWindsDown == \A j \in Jobs : WindsDown(j)

\* So does dispatch, which waits for it.
Closes(j) ==
    hbStopped[j]
        => /\ hbStopped'[j]
           /\ <<pc[j], hb[j]>>' # <<pc[j], hb[j]>>
                  => DispatchLeft(j)' + HbLeft(j)' < DispatchLeft(j) + HbLeft(j)

DispatchCloses == \A j \in Jobs : Closes(j)

\* A dispatch whose handler has returned waits for nothing but a token and an
\* answer that has a deadline: the guard of one of its steps, or of its
\* heartbeat's, holds, unless the whole process has crashed.
CanGoOn(j) ==
    \/ pc[j] \in {"returned", "checking", "finalizing", "authorizing",
                  "reporting"}
    \/ pc[j] = "joining" /\ hb[j] = "done"
    \/ HbCtxDone(j) /\ hb[j] \in {"waiting", "answered", "losing"}
    \/ hb[j] = "calling"

NeverStuck ==
    \A j \in Jobs : pc[j] \notin {"idle", "handling", "ended"} => CanGoOn(j)

\* A heartbeat answered 404 or 409 leads to the end of ctx, and nothing between
\* the two lets the goroutine forget the answer.
Heeded(j) ==
    /\ hb[j] = "answered" /\ hbAnswer[j] = "gone" /\ ~HbCtxDone(j)
           => UNCHANGED <<hb[j], hbAnswer[j]>> \/ hb'[j] = "losing"
    /\ hb[j] = "losing" => hb'[j] = "losing" \/ lockLost'[j]

ConflictHeeded == \A j \in Jobs : Heeded(j)

\* A step of dispatch leaves the heartbeat of the others alone, and goes on.
LEMMA ClosingStep ==
    ASSUME Inv, NEW j \in Jobs, StepOf(j), NEW k \in Jobs
    PROVE  WindsDown(k) /\ Closes(k) /\ Heeded(k)
<1> USE DEF Inv, TypeOK, Phased, Joined, WindsDown, Closes, Heeded, HbLeft,
            DispatchLeft, HbCtxDone, CtxDone, Goto, HbGoto
<1>1. CASE Start(j)
  BY <1>1 DEF Start
<1>2. CASE Handler(j)
  BY <1>2 DEF Handler, HandlerReturns, hbVars
<1>3. CASE StopHeartbeat(j)
  BY <1>3 DEF StopHeartbeat, hbVars
<1>4. CASE JoinHeartbeat(j)
  BY <1>4 DEF JoinHeartbeat, hbVars
<1>5. CASE CheckCtx(j)
  BY <1>5 DEF CheckCtx, hbVars
<1>6. CASE SendReport(j)
  BY <1>6 DEF SendReport, hbVars
<1>7. CASE PanicOutside(j) \/ BuildReport(j) \/ NoToken(j)
  BY <1>7 DEF PanicOutside, BuildReport, NoToken, Goto, hbVars
<1>8. CASE ReportAnswered(j)
  BY <1>8 DEF ReportAnswered, hbVars
<1>9. CASE HbStop(j)
  BY <1>9 DEF HbStop
<1>10. CASE Beat(j)
  BY <1>10 DEF Beat
<1>11. ASSUME NEW a \in HbAnswers, BeatAnswered(j, a)
       PROVE  WindsDown(k) /\ Closes(k) /\ Heeded(k)
  BY <1>11 DEF BeatAnswered
<1>12. CASE HbSwitch(j)
  BY <1>12 DEF HbSwitch, AfterAnswer
<1>13. CASE LoseLock(j)
  BY <1>13 DEF LoseLock
<1> QED
  BY <1>1, <1>2, <1>3, <1>4, <1>5, <1>6, <1>7, <1>8, <1>9, <1>10, <1>11,
     <1>12, <1>13 DEF StepOf, Finalize, Heartbeat

\* So does every step.
LEMMA ClosingNext ==
    Inv /\ [Next]_vars
        => [HeartbeatWindsDown /\ DispatchCloses /\ ConflictHeeded]_vars
<1>1. ASSUME Inv, CancelJobs, NEW k \in Jobs
      PROVE  WindsDown(k) /\ Closes(k) /\ Heeded(k)
  BY <1>1 DEF CancelJobs, hbVars, WindsDown, Closes, Heeded, HbLeft,
              DispatchLeft, HbCtxDone, CtxDone
<1> QED
  BY <1>1, ClosingStep
     DEF Next, StepOf, HeartbeatWindsDown, DispatchCloses, ConflictHeeded

\* Once the shutdown timeout has passed, or the handler has returned, or the
\* lock is known to be lost, a heartbeat goroutine has at most three steps
\* left, whatever the server answers: TimeoutSilencesHeartbeats without the
\* fairness.
THEOREM HeartbeatsEnd == Spec => [][HeartbeatWindsDown]_vars
<1>1. Inv /\ [Next]_vars => [HeartbeatWindsDown]_vars
  BY ClosingNext
<1> QED BY <1>1, Invariance, PTL DEF Spec

\* From its stopHeartbeat on a dispatch and its heartbeat have at most eight
\* steps left between them ...
THEOREM DispatchesEnd == Spec => [][DispatchCloses]_vars
<1>1. Inv /\ [Next]_vars => [DispatchCloses]_vars
  BY ClosingNext
<1> QED BY <1>1, Invariance, PTL DEF Spec

\* ... and none of them waits for the other in vain: ReturnedDispatchEnds
\* without the fairness.
THEOREM DispatchNeverStuck == Spec => []NeverStuck
<1>1. Inv => NeverStuck
  BY DEF Inv, TypeOK, PCs, HbStates, Phased, Joined, NeverStuck, CanGoOn,
         HbCtxDone, CtxDone
<1> QED BY <1>1, Invariance, PTL

\* A heartbeat that is answered 404 or 409 is not forgotten:
\* ConflictCancelsHandler without the fairness.
THEOREM ConflictsHeeded == Spec => [][ConflictHeeded]_vars
<1>1. Inv /\ [Next]_vars => [ConflictHeeded]_vars
  BY ClosingNext
<1> QED BY <1>1, Invariance, PTL DEF Spec
=============================================================================
