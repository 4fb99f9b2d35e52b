------------------------- MODULE WorkerSystemProofs -------------------------
(***************************************************************************)
(* Theorems about WorkerSystem, for any number of jobs, slots and retries. *)
(*                                                                         *)
(* Every step of the system is a step of TaskLoop or leaves the loop's     *)
(* variables alone, and the same of JobDispatch, so what is proved of the  *)
(* components holds in the system (LoopStep, DispatchStep).  What the      *)
(* system adds is how the two go together: Tied says where the dispatch of *)
(* a delivery is, given where the loop has it.                             *)
(***************************************************************************)
EXTENDS WorkerSystem, FiniteSetTheorems, TLAPS

LoopP     == INSTANCE TaskLoopProofs    WITH Jobs <- Deliveries
DispatchP == INSTANCE JobDispatchProofs WITH Jobs <- Deliveries

USE DEF Dispatch!reportVars, DispatchP!reportVars

\* Deliveries are finitely many.
LEMMA DeliveriesFinite == IsFiniteSet(Deliveries)
<1>1. IsFiniteSet(1..Retries + 1)
  BY SystemAssumption, FS_Interval
<1> QED BY <1>1, SystemAssumption, FS_Product DEF Deliveries

\* An instance has the standard operators under names of its own.
LEMMA SameFinite == LoopP!IsFiniteSet(Deliveries)
  BY DeliveriesFinite DEF IsFiniteSet, LoopP!IsFiniteSet

LEMMA SameCardinality ==
    \A S : /\ LoopP!Cardinality(S) = Cardinality(S)
           /\ Loop!Cardinality(S) = Cardinality(S)
  BY DEF Cardinality, LoopP!Cardinality, Loop!Cardinality, IsFiniteSet,
         LoopP!IsFiniteSet, Loop!IsFiniteSet

-----------------------------------------------------------------------------
(* The system and the loop. *)

\* A step of the loop in the system is one of the loop by itself.
LEMMA LoopAloneStep == LoopAlone => LoopP!Next
<1> USE DEF Loop!Goto, LoopP!Goto
<1>1. Loop!Cancel => LoopP!Cancel
  BY DEF Loop!Cancel, LoopP!Cancel
<1>2. Loop!LoopStep => LoopP!LoopStep
  <2>1. /\ Loop!Check => LoopP!Check
        /\ Loop!AcquireFirst => LoopP!AcquireFirst
        /\ Loop!AcquireCancelled => LoopP!AcquireCancelled
        /\ Loop!AcquireMore => LoopP!AcquireMore
        /\ Loop!SendPoll => LoopP!SendPoll
        /\ Loop!Backoff => LoopP!Backoff
    BY DEF Loop!Check, LoopP!Check, Loop!AcquireFirst, LoopP!AcquireFirst,
           Loop!AcquireCancelled, LoopP!AcquireCancelled, Loop!AcquireMore,
           LoopP!AcquireMore, Loop!SendPoll, LoopP!SendPoll, Loop!Backoff,
           LoopP!Backoff
  <2>2. Loop!Polled = LoopP!Polled
    BY DEF Loop!Polled, LoopP!Polled, Loop!In, LoopP!In
  <2>3. /\ Loop!GiveBack => LoopP!GiveBack
        /\ Loop!GiveBackDone => LoopP!GiveBackDone
        /\ Loop!SpawnDone => LoopP!SpawnDone
    BY <2>2, SameCardinality
       DEF Loop!GiveBack, LoopP!GiveBack, Loop!GiveBackDone,
           LoopP!GiveBackDone, Loop!SpawnDone, LoopP!SpawnDone
  <2>4. \A d \in Deliveries : Loop!Spawn(d) => LoopP!Spawn(d)
    BY DEF Loop!Spawn, LoopP!Spawn
  <2>5. /\ Loop!AwaitDone => LoopP!AwaitDone
        /\ Loop!AwaitTimeout => LoopP!AwaitTimeout
    BY DEF Loop!AwaitDone, LoopP!AwaitDone, Loop!AwaitTimeout,
           LoopP!AwaitTimeout, Loop!Return, LoopP!Return
  <2> QED
    BY <2>1, <2>3, <2>4, <2>5 DEF Loop!LoopStep, LoopP!LoopStep
<1>3. Loop!PollReturns => LoopP!PollReturns
  BY DEF Loop!PollReturns, LoopP!PollReturns, Loop!PollAnswered,
         LoopP!PollAnswered, Loop!PollFailed, LoopP!PollFailed, Loop!Move,
         LoopP!Move, Loop!In, LoopP!In
<1>4. Loop!TimerFires => LoopP!TimerFires
  BY DEF Loop!TimerFires, LoopP!TimerFires
<1>5. \A d \in Deliveries : Loop!Unwind(d) => LoopP!Unwind(d)
  BY DEF Loop!Unwind, LoopP!Unwind, Loop!ReleaseSlot, LoopP!ReleaseSlot,
         Loop!JobDone, LoopP!JobDone
<1> QED
  BY <1>1, <1>2, <1>3, <1>4, <1>5 DEF LoopAlone, OfLoop, LoopP!Next

\* A poll is granted deliveries.
LEMMA GrantStep == ASSUME NEW S, Grant(S) PROVE LoopP!Next
<1> DEFINE js == {<<k, attempt[k] + 1>> : k \in S}
<1>1. Loop!ServerGrants(js)
  BY DEF Grant
<1>2. LoopP!ServerGrants(js)
  BY <1>1, SameCardinality
     DEF Loop!ServerGrants, LoopP!ServerGrants, Loop!Move, LoopP!Move,
         Loop!In, LoopP!In
<1>3. js \in SUBSET Deliveries
  BY <1>1 DEF Loop!ServerGrants, Loop!In
<1> HIDE DEF js
<1> QED
  BY <1>2, <1>3 DEF LoopP!Next

\* Every step is one of the loop, or leaves its variables alone.
LEMMA LoopStep == [Next]_vars => [LoopP!Next]_(LoopP!vars)
<1> SUFFICES ASSUME [Next]_vars PROVE [LoopP!Next]_(LoopP!vars)
  OBVIOUS
<1> USE DEF LoopP!vars, loopVars
<1>1. CASE UNCHANGED vars
  BY <1>1 DEF vars
<1>2. CASE LoopAlone
  BY <1>2, LoopAloneStep
<1>3. ASSUME NEW d \in Deliveries,
             DispatchAlone(d) \/ HandlerReturns(d) \/ HeartbeatAlone(d)
             \/ HeartbeatReply(d)
      PROVE  UNCHANGED LoopP!vars
  <2>1. UNCHANGED loopVars
    BY <1>3 DEF DispatchAlone, HandlerReturns, HeartbeatAlone, HeartbeatReply,
                OfDispatch
  <2>2. UNCHANGED jobsDone
    BY <1>3 DEF DispatchAlone, HandlerReturns, HeartbeatAlone, HeartbeatReply,
                OfDispatch, Dispatch!Start, Dispatch!Finalize,
                Dispatch!StopHeartbeat, Dispatch!JoinHeartbeat,
                Dispatch!CheckCtx, Dispatch!BuildReport,
                Dispatch!PanicOutside, Dispatch!NoToken,
                Dispatch!SendReport, Dispatch!ReportAnswered,
                Dispatch!Handler, Dispatch!HandlerReturns, Dispatch!HbStop,
                Dispatch!Beat, Dispatch!HbSwitch, Dispatch!LoseLock,
                Dispatch!BeatAnswered
  <2> QED
    BY <2>1, <2>2
<1>4. ASSUME NEW d \in Deliveries, Unwind(d) PROVE LoopP!Next
  BY <1>4 DEF Unwind, Loop!DispatchReturns, LoopP!DispatchReturns, LoopP!Next
<1>5. ASSUME NEW S \in SUBSET WorkJobs, Grant(S) PROVE LoopP!Next
  BY <1>5, GrantStep
<1>6. ASSUME NEW d \in Deliveries, ReportArrives(d)
      PROVE  UNCHANGED LoopP!vars
  BY <1>6 DEF ReportArrives
<1>7. ASSUME NEW k \in WorkJobs,
             RunOut(k) \/ InstanceEnds(k) \/ OtherPolls(k) \/ OtherReports(k)
      PROVE  UNCHANGED LoopP!vars
  BY <1>7 DEF RunOut, InstanceEnds, OtherPolls, OtherReports, ServerAlone
<1> QED
  BY <1>1, <1>2, <1>3, <1>4, <1>5, <1>6, <1>7 DEF Next, WorkerStep, Worker

\* What is proved of the loop holds in the system.
LEMMA LoopInvariant == Spec => []LoopP!Inv
<1>1. Init => LoopP!Inv
  <2>1. Init => LoopP!Init
    BY DEF Init, Loop!Init, LoopP!Init
  <2> QED
    BY <2>1, LoopP!InvInit, SameFinite, SystemAssumption
<1>2. LoopP!Inv /\ [Next]_vars => LoopP!Inv'
  BY LoopStep, LoopP!InvStep, SameFinite, SystemAssumption
<1> QED BY <1>1, <1>2, PTL DEF Spec

-----------------------------------------------------------------------------
(* The system and the dispatches. *)

\* Run's return ends jobsCtx, and no other step of the loop does.
LEMMA LoopEndsContext ==
    ASSUME LoopP!Inv, LoopAlone, ~crashed
    PROVE  DispatchP!CancelJobs \/ UNCHANGED DispatchP!vars
<1>1. UNCHANGED dispatchVars
  BY DEF LoopAlone, OfLoop
<1>2. (~jobsDone /\ jobsDone' = TRUE) \/ jobsDone' = jobsDone
  <2>1. CASE Loop!AwaitDone \/ Loop!AwaitTimeout
    BY <2>1 DEF Loop!AwaitDone, Loop!AwaitTimeout, Loop!Return, Loop!Goto,
                LoopP!Inv, LoopP!Placed, LoopP!TypeOK
  <2>2. CASE ~(Loop!AwaitDone \/ Loop!AwaitTimeout)
    BY <2>2
       DEF LoopAlone, OfLoop, Loop!Cancel, Loop!LoopStep, Loop!PollReturns,
           Loop!TimerFires, Loop!Unwind, Loop!Check, Loop!AcquireFirst,
           Loop!AcquireCancelled, Loop!AcquireMore, Loop!SendPoll,
           Loop!GiveBack, Loop!GiveBackDone, Loop!Backoff, Loop!Spawn,
           Loop!SpawnDone, Loop!PollAnswered, Loop!PollFailed,
           Loop!ReleaseSlot, Loop!JobDone
  <2> QED
    BY <2>1, <2>2
<1> QED
  BY <1>1, <1>2
     DEF dispatchVars, DispatchP!CancelJobs, DispatchP!vars, DispatchP!hbVars

\* A step of a dispatch in the system is one of the dispatch by itself.
LEMMA DispatchAloneStep ==
    ASSUME NEW d \in Deliveries, ~crashed,
           DispatchAlone(d) \/ HandlerReturns(d) \/ HeartbeatAlone(d)
           \/ HeartbeatReply(d)
    PROVE  DispatchP!StepOf(d)
<1> USE DEF Dispatch!Goto, DispatchP!Goto, Dispatch!HbGoto, DispatchP!HbGoto,
            Dispatch!hbVars, DispatchP!hbVars
<1>1. Dispatch!Start(d) => DispatchP!Start(d)
  BY DEF Dispatch!Start, DispatchP!Start
<1>2. Dispatch!Finalize(d) => DispatchP!Finalize(d)
  <2>1. /\ Dispatch!StopHeartbeat(d) => DispatchP!StopHeartbeat(d)
        /\ Dispatch!JoinHeartbeat(d) => DispatchP!JoinHeartbeat(d)
        /\ Dispatch!CheckCtx(d) => DispatchP!CheckCtx(d)
        /\ Dispatch!NoToken(d) => DispatchP!NoToken(d)
        /\ Dispatch!ReportAnswered(d) => DispatchP!ReportAnswered(d)
    BY DEF Dispatch!StopHeartbeat, DispatchP!StopHeartbeat,
           Dispatch!JoinHeartbeat, DispatchP!JoinHeartbeat,
           Dispatch!CheckCtx, DispatchP!CheckCtx, Dispatch!CtxDone,
           DispatchP!CtxDone, Dispatch!NoToken, DispatchP!NoToken,
           Dispatch!ReportAnswered, DispatchP!ReportAnswered
  <2>2. /\ Dispatch!BuildReport(d) => DispatchP!BuildReport(d)
        /\ Dispatch!PanicOutside(d) => DispatchP!PanicOutside(d)
    BY DEF Dispatch!BuildReport, DispatchP!BuildReport, Dispatch!Unsendable,
           DispatchP!Unsendable, Dispatch!PanicOutside,
           DispatchP!PanicOutside, Dispatch!Panicking, DispatchP!Panicking
  <2>3. Dispatch!SendReport(d) => DispatchP!SendReport(d)
    BY DEF Dispatch!SendReport, DispatchP!SendReport, Dispatch!ReportFor,
           DispatchP!ReportFor, Dispatch!SafeRun, DispatchP!SafeRun
  <2> QED
    BY <2>1, <2>2, <2>3 DEF Dispatch!Finalize, DispatchP!Finalize
<1>3. Dispatch!Handler(d) => DispatchP!Handler(d)
  BY DEF Dispatch!Handler, DispatchP!Handler, Dispatch!HandlerReturns,
         DispatchP!HandlerReturns
<1>4. \A a : Dispatch!BeatAnswered(d, a) => DispatchP!BeatAnswered(d, a)
  BY DEF Dispatch!BeatAnswered, DispatchP!BeatAnswered
<1>5. /\ Dispatch!HbStop(d) => DispatchP!HbStop(d)
      /\ Dispatch!Beat(d) => DispatchP!Beat(d)
      /\ Dispatch!HbSwitch(d) => DispatchP!HbSwitch(d)
      /\ Dispatch!LoseLock(d) => DispatchP!LoseLock(d)
  BY DEF Dispatch!HbStop, DispatchP!HbStop, Dispatch!Beat, DispatchP!Beat,
         Dispatch!HbSwitch, DispatchP!HbSwitch, Dispatch!AfterAnswer,
         DispatchP!AfterAnswer, Dispatch!LoseLock, DispatchP!LoseLock,
         Dispatch!HbCtxDone, DispatchP!HbCtxDone, Dispatch!CtxDone,
         DispatchP!CtxDone
<1>6. HeartbeatAlone(d) => DispatchP!Heartbeat(d)
  BY <1>4, <1>5 DEF HeartbeatAlone, OfDispatch, DispatchP!Heartbeat,
                    DispatchP!HbAnswers
<1>7. HeartbeatReply(d) => DispatchP!Heartbeat(d)
  BY <1>4 DEF HeartbeatReply, Lease!HeartbeatAnswer, DispatchP!Heartbeat,
              DispatchP!HbAnswers
<1> QED
  BY <1>1, <1>2, <1>3, <1>6, <1>7
     DEF DispatchAlone, HandlerReturns, OfDispatch, DispatchP!StepOf

\* Every step is one of the dispatches, or leaves their variables alone.
LEMMA DispatchStep ==
    LoopP!Inv /\ [Next]_vars => [DispatchP!Next]_(DispatchP!vars)
<1> SUFFICES ASSUME LoopP!Inv, [Next]_vars
             PROVE  [DispatchP!Next]_(DispatchP!vars)
  OBVIOUS
<1> USE DEF DispatchP!vars, dispatchVars
<1>1. CASE UNCHANGED vars
  BY <1>1 DEF vars
<1>2. CASE LoopAlone /\ ~crashed
  BY <1>2, LoopEndsContext DEF DispatchP!Next
<1>3. ASSUME NEW d \in Deliveries, ~crashed,
             DispatchAlone(d) \/ HandlerReturns(d) \/ HeartbeatAlone(d)
             \/ HeartbeatReply(d)
      PROVE  DispatchP!Next
  BY <1>3, DispatchAloneStep DEF DispatchP!Next, DispatchP!StepOf
<1>4. ASSUME NEW d \in Deliveries, Unwind(d) PROVE UNCHANGED DispatchP!vars
  BY <1>4 DEF Unwind, Loop!DispatchReturns
<1>5. ASSUME NEW S \in SUBSET WorkJobs, Grant(S)
      PROVE  UNCHANGED DispatchP!vars
  BY <1>5 DEF Grant, Loop!ServerGrants
<1>6. ASSUME NEW d \in Deliveries, ReportArrives(d)
      PROVE  UNCHANGED DispatchP!vars
  BY <1>6 DEF ReportArrives
<1>7. ASSUME NEW k \in WorkJobs,
             RunOut(k) \/ InstanceEnds(k) \/ OtherPolls(k) \/ OtherReports(k)
      PROVE  UNCHANGED DispatchP!vars
  BY <1>7 DEF RunOut, InstanceEnds, OtherPolls, OtherReports, ServerAlone
<1> QED
  BY <1>1, <1>2, <1>3, <1>4, <1>5, <1>6, <1>7 DEF Next, WorkerStep, Worker

\* What is proved of a dispatch holds in the system.
LEMMA DispatchInvariant == Spec => []DispatchP!Inv
<1> USE SystemAssumption
<1>1. Init => DispatchP!Inv
  <2>1. Init => DispatchP!Init
    BY DEF Init, Dispatch!Init, DispatchP!Init
  <2>2. DispatchP!Init => DispatchP!TypeOK
    BY DispatchP!TypeInit
  <2>3. DispatchP!Init => \A d \in Deliveries : DispatchP!Phased(d)
    BY DEF DispatchP!Init, DispatchP!Phased, DispatchP!Joined
  <2> QED
    BY <2>1, <2>2, <2>3 DEF DispatchP!Inv
<1>2. LoopP!Inv /\ DispatchP!Inv /\ [Next]_vars => DispatchP!Inv'
  BY DispatchStep, DispatchP!InvStep
<1> QED BY <1>1, <1>2, LoopInvariant, PTL DEF Spec

-----------------------------------------------------------------------------
(* How the two go together. *)

\* A dispatch runs in the goroutine the loop has spawned for it, which unwinds
\* only after it; and what it reports is what the handler returned.
Tied(d) ==
    /\ pc[d] # "idle"
           => job[d] \in {"running", "releasing", "finishing", "gone"}
    /\ job[d] \in {"releasing", "finishing", "gone"} => pc[d] = "ended"
    /\ sent[d] = "complete" => outcome[d] = "vars"

AllTied == \A d \in Deliveries : Tied(d)

\* The variables of a dispatch that Tied is about.
LEMMA TiedInit == Init => AllTied
  BY DEF Init, Loop!Init, Dispatch!Init, AllTied, Tied

\* A step of a dispatch keeps it tied to its goroutine.
LEMMA TiedDispatch ==
    ASSUME DispatchP!Inv, AllTied, UNCHANGED job,
           NEW d \in Deliveries, DispatchP!StepOf(d),
           pc[d] = "idle" => job[d] = "running"
    PROVE  AllTied'
<1> USE DEF AllTied, Tied, DispatchP!Inv, DispatchP!TypeOK, DispatchP!Phased,
            DispatchP!Goto, DispatchP!HbGoto, DispatchP!hbVars
<1>1. CASE DispatchP!Start(d)
  BY <1>1 DEF DispatchP!Start
<1>2. CASE DispatchP!Handler(d)
  BY <1>2 DEF DispatchP!Handler, DispatchP!HandlerReturns
<1>3. CASE DispatchP!Finalize(d)
  <2>1. CASE DispatchP!StopHeartbeat(d)
    BY <2>1 DEF DispatchP!StopHeartbeat
  <2>2. CASE DispatchP!JoinHeartbeat(d)
    BY <2>2 DEF DispatchP!JoinHeartbeat
  <2>3. CASE DispatchP!CheckCtx(d)
    BY <2>3 DEF DispatchP!CheckCtx
  <2>4. CASE DispatchP!SendReport(d)
    <3>1. DispatchP!ReportFor(DispatchP!SafeRun(outcome[d])) = "complete"
              => outcome[d] \in {"vars", "badVars"}
      BY DEF DispatchP!ReportFor, DispatchP!SafeRun
    <3> QED
      BY <2>4, <3>1 DEF DispatchP!SendReport, DispatchP!Unsendable
  <2>5. CASE DispatchP!PanicOutside(d)
    BY <2>5 DEF DispatchP!PanicOutside
  <2>6. CASE DispatchP!ReportAnswered(d)
    BY <2>6 DEF DispatchP!ReportAnswered
  <2>7. CASE DispatchP!BuildReport(d)
    BY <2>7 DEF DispatchP!BuildReport
  <2>8. CASE DispatchP!NoToken(d)
    BY <2>8 DEF DispatchP!NoToken
  <2> QED
    BY <1>3, <2>1, <2>2, <2>3, <2>4, <2>5, <2>6, <2>7, <2>8
       DEF DispatchP!Finalize
<1>4. CASE DispatchP!Heartbeat(d)
  BY <1>4 DEF DispatchP!Heartbeat, DispatchP!HbStop, DispatchP!Beat,
              DispatchP!BeatAnswered, DispatchP!HbSwitch, DispatchP!LoseLock
<1> QED
  BY <1>1, <1>2, <1>3, <1>4 DEF DispatchP!StepOf

\* So does every other step.
LEMMA TiedStep ==
    LoopP!Inv /\ DispatchP!Inv /\ AllTied /\ [Next]_vars => AllTied'
<1> SUFFICES ASSUME LoopP!Inv, DispatchP!Inv, AllTied, [Next]_vars
             PROVE  AllTied'
  OBVIOUS
<1> USE DEF LoopP!Inv, LoopP!TypeOK
<1>1. CASE UNCHANGED vars
  BY <1>1 DEF vars, loopVars, dispatchVars, AllTied, Tied
<1>2. CASE LoopAlone
  <2>1. UNCHANGED <<pc, sent, outcome>>
    BY <1>2 DEF LoopAlone, OfLoop, dispatchVars
  <2> DEFINE Placed(d) ==
          /\ pc[d] # "idle"
               => job'[d] \in {"running", "releasing", "finishing", "gone"}
          /\ job'[d] \in {"releasing", "finishing", "gone"} => pc[d] = "ended"
  <2>2. ASSUME NEW e \in Deliveries PROVE Placed(e)
    <3> USE DEF AllTied, Tied
    <3>1. CASE UNCHANGED job
      BY <3>1
    <3>2. CASE Loop!PollReturns
      BY <3>2 DEF Loop!PollReturns, Loop!PollAnswered, Loop!PollFailed,
                  Loop!Move, Loop!In
    <3>3. ASSUME NEW d \in Deliveries,
                 Loop!Spawn(d) \/ Loop!ReleaseSlot(d) \/ Loop!JobDone(d)
          PROVE  Placed(e)
      BY <3>3 DEF Loop!Spawn, Loop!ReleaseSlot, Loop!JobDone
    <3> QED
      BY <1>2, <3>1, <3>2, <3>3
         DEF LoopAlone, OfLoop, Loop!Cancel, Loop!LoopStep, Loop!TimerFires,
             Loop!Unwind, Loop!Check, Loop!AcquireFirst,
             Loop!AcquireCancelled, Loop!AcquireMore, Loop!SendPoll,
             Loop!GiveBack, Loop!GiveBackDone, Loop!Backoff, Loop!SpawnDone,
             Loop!AwaitDone, Loop!AwaitTimeout, Loop!Return
  <2> QED
    BY <2>1, <2>2 DEF AllTied, Tied
<1>3. ASSUME NEW d \in Deliveries, ~crashed,
             DispatchAlone(d) \/ HandlerReturns(d) \/ HeartbeatAlone(d)
             \/ HeartbeatReply(d)
      PROVE  AllTied'
  <2>1. DispatchP!StepOf(d)
    BY <1>3, DispatchAloneStep
  <2>2. UNCHANGED job
    BY <1>3 DEF DispatchAlone, HandlerReturns, HeartbeatAlone, HeartbeatReply,
                OfDispatch, loopVars
  <2>3. pc[d] = "idle" => job[d] = "running"
    <3>1. CASE DispatchAlone(d)
      BY <3>1 DEF DispatchAlone
    <3>2. CASE HandlerReturns(d)
      BY <3>2 DEF HandlerReturns, OfDispatch, Dispatch!Handler,
                  Dispatch!HandlerReturns, Dispatch!Goto
    <3>3. CASE HeartbeatAlone(d) \/ HeartbeatReply(d)
      <4>1. hb[d] # "off"
        BY <3>3 DEF HeartbeatAlone, HeartbeatReply, OfDispatch,
                    Dispatch!HbStop, Dispatch!Beat, Dispatch!HbSwitch,
                    Dispatch!LoseLock, Dispatch!BeatAnswered, Dispatch!HbGoto
      <4> QED
        BY <4>1 DEF DispatchP!Inv, DispatchP!Phased
    <3> QED
      BY <1>3, <3>1, <3>2, <3>3
  <2> QED
    BY <2>1, <2>2, <2>3, TiedDispatch
<1>4. ASSUME NEW d \in Deliveries, Unwind(d) PROVE AllTied'
  BY <1>4 DEF Unwind, Loop!DispatchReturns, dispatchVars, AllTied, Tied
<1>5. ASSUME NEW S \in SUBSET WorkJobs, Grant(S) PROVE AllTied'
  BY <1>5 DEF Grant, Loop!ServerGrants, Loop!Move, Loop!In, dispatchVars,
              AllTied, Tied
<1>6. ASSUME NEW d \in Deliveries, ReportArrives(d) PROVE AllTied'
  BY <1>6 DEF ReportArrives, loopVars, dispatchVars, AllTied, Tied
<1>7. ASSUME NEW k \in WorkJobs,
             RunOut(k) \/ InstanceEnds(k) \/ OtherPolls(k) \/ OtherReports(k)
      PROVE  AllTied'
  BY <1>7 DEF RunOut, InstanceEnds, OtherPolls, OtherReports, ServerAlone,
              loopVars, dispatchVars, AllTied, Tied
<1> QED
  BY <1>1, <1>2, <1>3, <1>4, <1>5, <1>6, <1>7 DEF Next, WorkerStep, Worker

\* What is proved of the components, and that they go together.
LEMMA WorkerInvariant == Spec => [](LoopP!Inv /\ DispatchP!Inv /\ AllTied)
  BY TiedInit, TiedStep, LoopInvariant, DispatchInvariant, PTL DEF Spec

\* Run leaves nothing running behind it, unless the shutdown timeout passed.
THEOREM ExitClean == Spec => []CleanExit
<1>1. LoopP!Inv /\ DispatchP!Inv /\ AllTied => CleanExit
  BY DEF LoopP!Inv, LoopP!Placed, LoopP!InFlight, LoopP!In, DispatchP!Inv,
         DispatchP!TypeOK, DispatchP!Phased, DispatchP!Joined, DispatchP!PCs,
         LoopP!TypeOK, LoopP!JobStates, AllTied, Tied, CleanExit
<1> QED BY <1>1, WorkerInvariant, PTL

\* No more locks are kept alive than there are slots, for any number of jobs.
THEOREM LocksAlwaysBounded == Spec => []LocksBounded
<1>1. LoopP!Inv /\ DispatchP!Inv /\ AllTied => LocksBounded
  <2> SUFFICES ASSUME LoopP!Inv, DispatchP!Inv, AllTied
               PROVE  Cardinality(LiveLocks) <= MaxJobs
    BY DEF LocksBounded
  <2>1. LiveLocks \subseteq LoopP!HoldsSlot
    BY DEF LiveLocks, LoopP!HoldsSlot, LoopP!In, LoopP!Inv, LoopP!TypeOK,
           LoopP!JobStates, DispatchP!Inv, DispatchP!TypeOK,
           DispatchP!Phased, DispatchP!Joined, AllTied, Tied
  <2>2. IsFiniteSet(LoopP!HoldsSlot)
    BY DeliveriesFinite, FS_Subset DEF LoopP!HoldsSlot, LoopP!In
  <2>3. /\ Cardinality(LiveLocks) \in Nat
        /\ Cardinality(LiveLocks) <= Cardinality(LoopP!HoldsSlot)
        /\ Cardinality(LoopP!HoldsSlot) \in Nat
    BY <2>1, <2>2, FS_Subset, FS_CardinalityType
  <2>4. Cardinality(LoopP!HoldsSlot) <= MaxJobs
    BY <2>3, SameCardinality, SystemAssumption
       DEF LoopP!Inv, LoopP!TypeOK, LoopP!SlotsAccounted
  <2> QED
    BY <2>3, <2>4, SystemAssumption
<1> QED BY <1>1, WorkerInvariant, PTL

-----------------------------------------------------------------------------
(* The server. *)

\* Every handing out of a job has cost a retry, but for the one under way.
Charged(k) ==
    /\ holder[k] # "none"
           => status[k] = "PENDING" /\ attempt[k] + retries[k] = Retries + 1
    /\ status[k] = "PENDING" /\ holder[k] = "none"
           => attempt[k] + retries[k] = Retries

LeaseInv ==
    /\ Lease!LeaseTypeOK
    /\ \A k \in WorkJobs : Charged(k)
    /\ arrived \subseteq Deliveries

\* The steps that change the server's account of a job.
LeaseStepOf(k) ==
    \/ Lease!RunOut(k) \/ Lease!Cancelled(k)
    \/ \E c \in {"me", "other"}, r \in DispatchP!Reports :
           Lease!Report(k, c, r)

\* They keep the account.
LEMMA ChargedStep ==
    ASSUME LeaseInv, NEW k \in WorkJobs, LeaseStepOf(k),
           arrived' \subseteq Deliveries
    PROVE  LeaseInv'
<1> USE SystemAssumption
        DEF LeaseInv, Charged, Lease!LeaseTypeOK, Lease!Statuses, Lease!Holders
<1>1. ASSUME NEW s \in {"COMPLETED", "BPMN_ERROR", "FAILED", "CANCELED"},
             Lease!End(k, s)
      PROVE  LeaseInv'
  BY <1>1 DEF Lease!End
<1>2. ASSUME Lease!ChargeRetry(k), holder[k] # "none" PROVE LeaseInv'
  <2>1. CASE retries[k] = 0
    BY <1>1, <1>2, <2>1 DEF Lease!ChargeRetry
  <2>2. CASE retries[k] # 0
    BY <1>2, <2>2 DEF Lease!ChargeRetry
  <2> QED
    BY <2>1, <2>2
<1>3. CASE Lease!RunOut(k)
  BY <1>2, <1>3 DEF Lease!RunOut
<1>4. CASE Lease!Cancelled(k)
  BY <1>1, <1>4 DEF Lease!Cancelled
<1>5. ASSUME NEW c \in {"me", "other"}, NEW r \in DispatchP!Reports,
             Lease!Report(k, c, r)
      PROVE  LeaseInv'
  <2>1. CASE holder[k] # c
    BY <1>5, <2>1 DEF Lease!Report, Lease!lvars
  <2>2. CASE holder[k] = c /\ r = "complete"
    BY <1>1, <1>5, <2>2 DEF Lease!Report
  <2>3. CASE holder[k] = c /\ r = "bpmnError"
    BY <1>1, <1>5, <2>3 DEF Lease!Report
  <2>4. CASE holder[k] = c /\ r = "workerError"
    BY <1>2, <1>5, <2>4 DEF Lease!Report
  <2> QED
    BY <2>1, <2>2, <2>3, <2>4 DEF DispatchP!Reports
<1> QED
  BY <1>3, <1>4, <1>5 DEF LeaseStepOf

\* So does a poll, of the worker or of another client.
LEMMA HandOutStep ==
    ASSUME LeaseInv, NEW S \in SUBSET WorkJobs, NEW c \in {"me", "other"},
           Lease!HandOut(S, c), UNCHANGED arrived
    PROVE  LeaseInv'
<1> USE SystemAssumption
        DEF LeaseInv, Charged, Lease!LeaseTypeOK, Lease!Statuses,
            Lease!Holders, Lease!HandOut, Lease!Free
<1>1. attempt' \in [WorkJobs -> 0..Retries + 1]
  OBVIOUS
<1> QED
  BY <1>1

\* The server's account stays right.
LEMMA LeaseStep == DispatchP!Inv /\ LeaseInv /\ [Next]_vars => LeaseInv'
<1> SUFFICES ASSUME DispatchP!Inv, LeaseInv, [Next]_vars PROVE LeaseInv'
  OBVIOUS
<1>1. CASE UNCHANGED leaseVars /\ UNCHANGED arrived
  BY <1>1 DEF leaseVars, LeaseInv, Lease!LeaseTypeOK, Charged
<1>2. ASSUME NEW S \in SUBSET WorkJobs, Grant(S) PROVE LeaseInv'
  BY <1>2, HandOutStep DEF Grant
<1>3. ASSUME NEW d \in Deliveries, ReportArrives(d) PROVE LeaseInv'
  <2>1. JobOf(d) \in WorkJobs /\ sent[d] \in DispatchP!Reports
    BY <1>3 DEF Deliveries, JobOf, ReportArrives, DispatchP!Inv,
                DispatchP!TypeOK
  <2> QED
    BY <1>3, <2>1, ChargedStep DEF ReportArrives, LeaseStepOf, LeaseInv
<1>4. ASSUME NEW k \in WorkJobs, RunOut(k) \/ InstanceEnds(k) PROVE LeaseInv'
  BY <1>4, ChargedStep
     DEF RunOut, InstanceEnds, ServerAlone, LeaseStepOf, LeaseInv
<1>5. ASSUME NEW k \in WorkJobs, OtherPolls(k) PROVE LeaseInv'
  BY <1>5, HandOutStep DEF OtherPolls, ServerAlone
<1>6. ASSUME NEW k \in WorkJobs, OtherReports(k) PROVE LeaseInv'
  BY <1>6, ChargedStep, SystemAssumption
     DEF OtherReports, ServerAlone, LeaseStepOf, LeaseInv, DispatchP!Reports
<1>7. ASSUME NEW d \in Deliveries,
             DispatchAlone(d) \/ HandlerReturns(d) \/ HeartbeatAlone(d)
             \/ HeartbeatReply(d) \/ Unwind(d)
      PROVE  UNCHANGED leaseVars /\ UNCHANGED arrived
  BY <1>7 DEF DispatchAlone, HandlerReturns, HeartbeatAlone, HeartbeatReply,
              Unwind, OfDispatch
<1>8. LoopAlone => UNCHANGED leaseVars /\ UNCHANGED arrived
  BY DEF LoopAlone, OfLoop
<1> QED
  BY <1>1, <1>2, <1>3, <1>4, <1>5, <1>6, <1>7, <1>8
     DEF vars, Next, WorkerStep, Worker

-----------------------------------------------------------------------------
(* Completion. *)

\* The server has only acted on reports that were sent.
Reported == \A d \in arrived : d \in Deliveries /\ sent[d] # "none"

\* A report and the outcome it is about do not change once it is sent.
LEMMA ReportKept ==
    ASSUME LoopP!Inv, DispatchP!Inv, [Next]_vars,
           NEW d \in Deliveries, sent[d] # "none"
    PROVE  sent'[d] = sent[d] /\ outcome'[d] = outcome[d]
<1>1. [DispatchP!Next]_(DispatchP!vars)
  BY DispatchStep
<1> USE DEF DispatchP!Inv, DispatchP!TypeOK, DispatchP!Phased,
            DispatchP!Goto, DispatchP!HbGoto, DispatchP!hbVars
<1>2. CASE UNCHANGED DispatchP!vars
  BY <1>2 DEF DispatchP!vars
<1>3. CASE DispatchP!CancelJobs
  BY <1>3 DEF DispatchP!CancelJobs
<1>4. ASSUME NEW e \in Deliveries, DispatchP!StepOf(e)
      PROVE  sent'[d] = sent[d] /\ outcome'[d] = outcome[d]
  <2>1. CASE DispatchP!Handler(e)
    BY <2>1 DEF DispatchP!Handler, DispatchP!HandlerReturns
  <2>2. CASE DispatchP!SendReport(e)
    BY <2>2 DEF DispatchP!SendReport
  <2>3. CASE UNCHANGED <<sent, outcome>>
    BY <2>3
  <2> QED
    BY <1>4, <2>1, <2>2, <2>3
       DEF DispatchP!StepOf, DispatchP!Start, DispatchP!Finalize,
           DispatchP!StopHeartbeat, DispatchP!JoinHeartbeat,
           DispatchP!CheckCtx, DispatchP!BuildReport,
           DispatchP!PanicOutside, DispatchP!NoToken,
           DispatchP!ReportAnswered, DispatchP!Heartbeat, DispatchP!HbStop,
           DispatchP!Beat, DispatchP!BeatAnswered, DispatchP!HbSwitch,
           DispatchP!LoseLock
<1> QED
  BY <1>1, <1>2, <1>3, <1>4 DEF DispatchP!Next, DispatchP!StepOf

\* What the server does about one job leaves the others as they are.
LEMMA CompletedBy ==
    ASSUME LeaseInv, NEW k \in WorkJobs, NEW c, NEW r \in DispatchP!Reports,
           Lease!Report(k, c, r),
           NEW l \in WorkJobs, status'[l] = "COMPLETED"
    PROVE  status[l] = "COMPLETED" \/ (l = k /\ r = "complete")
  BY DEF LeaseInv, Lease!LeaseTypeOK, Lease!Report, Lease!ChargeRetry,
         Lease!End, Lease!lvars, DispatchP!Reports

\* A job that is completed in a step was so before, or a report completes it.
LEMMA CompletedNow ==
    ASSUME DispatchP!Inv, LeaseInv, [Next]_vars,
           NEW k \in WorkJobs, status'[k] = "COMPLETED"
    PROVE  \/ status[k] = "COMPLETED"
           \/ "complete" \in OthersReport
           \/ \E d \in Deliveries : /\ JobOf(d) = k /\ sent[d] = "complete"
                                    /\ arrived' = arrived \union {d}
<1> DEFINE Goal ==
        \/ status[k] = "COMPLETED"
        \/ "complete" \in OthersReport
        \/ \E d \in Deliveries : /\ JobOf(d) = k /\ sent[d] = "complete"
                                 /\ arrived' = arrived \union {d}
<1>1. CASE UNCHANGED status
  BY <1>1
<1>2. ASSUME NEW d \in Deliveries, ReportArrives(d) PROVE Goal
  <2>1. JobOf(d) \in WorkJobs /\ sent[d] \in DispatchP!Reports
    BY <1>2 DEF Deliveries, JobOf, ReportArrives, DispatchP!Inv,
                DispatchP!TypeOK
  <2> QED
    BY <1>2, <2>1, CompletedBy DEF ReportArrives
<1>3. ASSUME NEW l \in WorkJobs, OtherReports(l) PROVE Goal
  <2>1. PICK r \in OthersReport : Lease!Report(l, "other", r)
    BY <1>3 DEF OtherReports, ServerAlone
  <2>2. r \in DispatchP!Reports
    BY SystemAssumption DEF DispatchP!Reports
  <2> QED
    BY <2>1, <2>2, CompletedBy
<1>4. ASSUME NEW l \in WorkJobs, RunOut(l) \/ InstanceEnds(l) PROVE Goal
  BY <1>4 DEF RunOut, InstanceEnds, ServerAlone, Lease!RunOut,
              Lease!Cancelled, Lease!ChargeRetry, Lease!End, LeaseInv,
              Lease!LeaseTypeOK
<1>5. ASSUME NEW l \in WorkJobs, OtherPolls(l) PROVE UNCHANGED status
  BY <1>5 DEF OtherPolls, ServerAlone, Lease!HandOut
<1>6. ASSUME NEW S \in SUBSET WorkJobs, Grant(S) PROVE UNCHANGED status
  BY <1>6 DEF Grant, Lease!HandOut
<1>7. ASSUME NEW d \in Deliveries,
             DispatchAlone(d) \/ HandlerReturns(d) \/ HeartbeatAlone(d)
             \/ HeartbeatReply(d) \/ Unwind(d)
      PROVE  UNCHANGED status
  BY <1>7 DEF DispatchAlone, HandlerReturns, HeartbeatAlone, HeartbeatReply,
              Unwind, OfDispatch, leaseVars
<1>8. LoopAlone => UNCHANGED status
  BY DEF LoopAlone, OfLoop, leaseVars
<1>9. UNCHANGED vars => UNCHANGED status
  BY DEF vars, leaseVars
<1> QED
  BY <1>1, <1>2, <1>3, <1>4, <1>5, <1>6, <1>7, <1>8, <1>9
     DEF Next, WorkerStep, Worker

Inv == LoopP!Inv /\ DispatchP!Inv /\ AllTied /\ LeaseInv

\* Completion is for success, step by step.
LEMMA CompletionStep ==
    ASSUME Inv, Reported, CompletedOnlyAfterSuccess, [Next]_vars
    PROVE  Reported' /\ CompletedOnlyAfterSuccess'
<1> USE DEF Inv
<1>1. \A d \in Deliveries : sent[d] # "none" =>
          sent'[d] = sent[d] /\ outcome'[d] = outcome[d]
  BY ReportKept
<1>2. Reported'
  <2>1. UNCHANGED arrived
        \/ \E d \in Deliveries : /\ arrived' = arrived \union {d}
                                 /\ sent[d] # "none"
    <3>1. ASSUME NEW d \in Deliveries, ReportArrives(d)
          PROVE  arrived' = arrived \union {d} /\ sent[d] # "none"
      BY <3>1 DEF ReportArrives
    <3>2. CASE ~ \E d \in Deliveries : ReportArrives(d)
      BY <3>2 DEF vars, Next, WorkerStep, Worker, LoopAlone, OfLoop,
                  DispatchAlone, HandlerReturns, HeartbeatAlone,
                  HeartbeatReply, OfDispatch, Unwind, Grant, RunOut,
                  InstanceEnds, OtherPolls, OtherReports, ServerAlone
    <3> QED
      BY <3>1, <3>2
  <2> QED
    BY <1>1, <2>1 DEF Reported
<1>3. ASSUME NEW k \in WorkJobs, status'[k] = "COMPLETED",
             "complete" \notin OthersReport
      PROVE  \E d \in arrived' : JobOf(d) = k /\ outcome'[d] = "vars"
  <2>1. CASE status[k] = "COMPLETED"
    <3>1. PICK d \in arrived : JobOf(d) = k /\ outcome[d] = "vars"
      BY <1>3, <2>1 DEF CompletedOnlyAfterSuccess
    <3>2. d \in arrived'
      BY DEF vars, Next, WorkerStep, Worker, LoopAlone, OfLoop,
             DispatchAlone, HandlerReturns, HeartbeatAlone, HeartbeatReply,
             OfDispatch, Unwind, Grant, ReportArrives, RunOut, InstanceEnds,
             OtherPolls, OtherReports, ServerAlone
    <3> QED
      BY <1>1, <3>1, <3>2 DEF Reported
  <2>2. ASSUME NEW d \in Deliveries, JobOf(d) = k, sent[d] = "complete",
               arrived' = arrived \union {d}
        PROVE  \E e \in arrived' : JobOf(e) = k /\ outcome'[e] = "vars"
    BY <1>1, <2>2 DEF AllTied, Tied
  <2> QED
    BY <1>3, <2>1, <2>2, CompletedNow
<1> QED
  BY <1>2, <1>3 DEF CompletedOnlyAfterSuccess

\* The initial state.
LEMMA LeaseInit == Init => LeaseInv /\ Reported /\ CompletedOnlyAfterSuccess
  BY SystemAssumption
     DEF Init, Lease!LeaseInit, LeaseInv, Lease!LeaseTypeOK, Lease!Statuses,
         Lease!Holders, Charged, Reported, CompletedOnlyAfterSuccess

\* All of it together.
LEMMA Invariance == Spec => [](Inv /\ Reported /\ CompletedOnlyAfterSuccess)
<1>1. Inv /\ [Next]_vars => LeaseInv'
  BY LeaseStep DEF Inv
<1>2. /\ Inv /\ Reported /\ CompletedOnlyAfterSuccess /\ [Next]_vars
         => Reported' /\ CompletedOnlyAfterSuccess'
  BY CompletionStep
<1>3. Spec => []Inv
  <2>1. LoopP!Inv /\ DispatchP!Inv /\ AllTied /\ LeaseInv <=> Inv
    BY DEF Inv
  <2>2. DispatchP!Inv /\ LeaseInv /\ [Next]_vars => LeaseInv'
    BY LeaseStep
  <2> QED
    BY <2>1, <2>2, LeaseInit, WorkerInvariant, PTL DEF Spec
<1> QED BY <1>2, <1>3, LeaseInit, PTL DEF Spec

\* No error and no panic of a handler ever completes a job, for any number of
\* jobs, retries and late reports.
THEOREM CompletionSound == Spec => []CompletedOnlyAfterSuccess
  BY Invariance, PTL

\* The variables of the system keep their types; no job is handed out more
\* often than its retry budget allows.
THEOREM TypeCorrect == Spec => []TypeOK
<1>1. LoopP!TypeOK => Loop!TypeOK
  BY DEF LoopP!TypeOK, Loop!TypeOK, LoopP!LoopStates, Loop!LoopStates,
         LoopP!JobStates, Loop!JobStates
<1>2. DispatchP!TypeOK => Dispatch!TypeOK
  BY DEF DispatchP!TypeOK, Dispatch!TypeOK, DispatchP!PCs, Dispatch!PCs,
         DispatchP!Reports, Dispatch!Reports, DispatchP!HbStates,
         Dispatch!HbStates, DispatchP!HbAnswers, Dispatch!HbAnswers
<1>3. Inv => TypeOK
  BY <1>1, <1>2 DEF Inv, LoopP!Inv, DispatchP!Inv, LeaseInv, TypeOK
<1> QED BY <1>3, Invariance, PTL

-----------------------------------------------------------------------------
(* The system keeps what its components promise.                            *)

\* The system is a TaskLoop, its fairness aside.
LEMMA SystemIsLoop == Spec => LoopP!Spec
<1>1. Init => LoopP!Init
  BY DEF Init, Loop!Init, LoopP!Init
<1> QED BY <1>1, LoopStep, PTL DEF Spec, LoopP!Spec

\* And it is a JobDispatch.
LEMMA SystemIsDispatch == Spec => DispatchP!Spec
<1>1. Init => DispatchP!Init
  BY DEF Init, Dispatch!Init, DispatchP!Init
<1> QED
  BY <1>1, DispatchStep, LoopInvariant, PTL DEF Spec, DispatchP!Spec

\* The worker beside the server and other clients is a GracefulPool: at most
\* MaxJobs handlers, nothing begun in the shutdown, and no end before the
\* timeout while something runs.
THEOREM SystemImplementsPool == Spec => LoopP!Pool!Spec
<1>1. LoopP!Spec => LoopP!Pool!Spec
  BY LoopP!LoopImplementsPool, SameFinite, SystemAssumption
<1> QED BY <1>1, SystemIsLoop, PTL

\* And it keeps the promise of Delivery about every delivery, although what
\* its heartbeats are answered is now what the server knows of the lock.
THEOREM SystemImplementsDelivery == Spec => DispatchP!ImplementsDelivery
<1>1. DispatchP!Spec => DispatchP!ImplementsDelivery
  BY DispatchP!DispatchImplementsDelivery, SystemAssumption
<1> QED BY <1>1, SystemIsDispatch, PTL

-----------------------------------------------------------------------------
(* The locks the worker has on the server. *)

\* The delivery of the current handing out of k.
Last(k) == <<k, attempt[k]>>

\* Every lock the worker has is that of a delivery it was granted, the latest
\* of its job, and the server has not acted on a report about that one: it is
\* still to be handled, or being handled, or its report is on the way, or it
\* was stranded or dropped and no heartbeat keeps it.
LockHasReason ==
    \A k \in WorkJobs :
        holder[k] = "me" => job[Last(k)] # "queued" /\ Last(k) \notin arrived

\* A delivery beyond the handings out of its job has not been granted.
NotYetGranted ==
    \A d \in Deliveries : job[d] # "queued" => AttemptOf(d) <= attempt[JobOf(d)]

LockInv == LockHasReason /\ NotYetGranted

\* Only a grant takes a delivery out of the queue, and none goes back.
LEMMA QueueStep ==
    ASSUME LoopP!Inv, [Next]_vars, ~ \E S \in SUBSET WorkJobs : Grant(S),
           NEW d \in Deliveries
    PROVE  job'[d] = "queued" <=> job[d] = "queued"
<1> USE DEF LoopP!Inv, LoopP!TypeOK
<1>1. CASE UNCHANGED job
  BY <1>1
<1>2. CASE LoopAlone
  <2>1. CASE Loop!PollReturns
    BY <2>1 DEF Loop!PollReturns, Loop!PollAnswered, Loop!PollFailed,
                Loop!Move, Loop!In
  <2>2. ASSUME NEW e \in Deliveries,
               Loop!Spawn(e) \/ Loop!ReleaseSlot(e) \/ Loop!JobDone(e)
        PROVE  job'[d] = "queued" <=> job[d] = "queued"
    BY <2>2 DEF Loop!Spawn, Loop!ReleaseSlot, Loop!JobDone
  <2> QED
    BY <1>1, <1>2, <2>1, <2>2
       DEF LoopAlone, OfLoop, Loop!Cancel, Loop!LoopStep, Loop!TimerFires,
           Loop!Unwind, Loop!Check, Loop!AcquireFirst, Loop!AcquireCancelled,
           Loop!AcquireMore, Loop!SendPoll, Loop!GiveBack, Loop!GiveBackDone,
           Loop!Backoff, Loop!SpawnDone, Loop!AwaitDone, Loop!AwaitTimeout,
           Loop!Return
<1>3. ASSUME NEW e \in Deliveries, Unwind(e)
      PROVE  job'[d] = "queued" <=> job[d] = "queued"
  BY <1>3 DEF Unwind, Loop!DispatchReturns
<1>4. ASSUME NEW e \in Deliveries,
             \/ DispatchAlone(e) \/ HandlerReturns(e) \/ HeartbeatAlone(e)
             \/ HeartbeatReply(e) \/ ReportArrives(e)
      PROVE  UNCHANGED job
  BY <1>4 DEF DispatchAlone, HandlerReturns, HeartbeatAlone, HeartbeatReply,
              ReportArrives, OfDispatch, loopVars
<1>5. ASSUME NEW k \in WorkJobs,
             RunOut(k) \/ InstanceEnds(k) \/ OtherPolls(k) \/ OtherReports(k)
      PROVE  UNCHANGED job
  BY <1>5 DEF RunOut, InstanceEnds, OtherPolls, OtherReports, ServerAlone,
              loopVars
<1>6. UNCHANGED vars => UNCHANGED job
  BY DEF vars, loopVars
<1> QED
  BY <1>1, <1>2, <1>3, <1>4, <1>5, <1>6 DEF Next, WorkerStep, Worker

\* Without a grant, the worker gets no lock, and the latest handing out of a
\* job it has locked stays the latest; no attempt is taken back.
LEMMA AttemptStep ==
    ASSUME DispatchP!Inv, LeaseInv, [Next]_vars,
           ~ \E S \in SUBSET WorkJobs : Grant(S), NEW k \in WorkJobs
    PROVE  /\ attempt'[k] >= attempt[k]
           /\ holder'[k] = "me" => holder[k] = "me" /\ attempt'[k] = attempt[k]
<1> DEFINE Goal == /\ attempt'[k] >= attempt[k]
                   /\ holder'[k] = "me"
                          => holder[k] = "me" /\ attempt'[k] = attempt[k]
<1> USE SystemAssumption DEF LeaseInv, Lease!LeaseTypeOK
<1>1. CASE UNCHANGED leaseVars
  BY <1>1 DEF leaseVars
<1>2. ASSUME NEW l \in WorkJobs, LeaseStepOf(l) PROVE Goal
  BY <1>2 DEF LeaseStepOf, Lease!RunOut, Lease!Cancelled, Lease!Report,
              Lease!ChargeRetry, Lease!End, Lease!lvars, DispatchP!Reports
<1>3. ASSUME NEW d \in Deliveries, ReportArrives(d) PROVE Goal
  <2>1. JobOf(d) \in WorkJobs /\ sent[d] \in DispatchP!Reports
    BY <1>3 DEF Deliveries, JobOf, ReportArrives, DispatchP!Inv,
                DispatchP!TypeOK
  <2> QED
    BY <1>2, <1>3, <2>1 DEF ReportArrives, LeaseStepOf
<1>4. ASSUME NEW l \in WorkJobs,
             RunOut(l) \/ InstanceEnds(l) \/ OtherReports(l)
      PROVE  Goal
  BY <1>2, <1>4 DEF RunOut, InstanceEnds, OtherReports, ServerAlone,
                    LeaseStepOf, DispatchP!Reports
<1>5. ASSUME NEW l \in WorkJobs, OtherPolls(l) PROVE Goal
  BY <1>5 DEF OtherPolls, ServerAlone, Lease!HandOut
<1>6. ASSUME NEW d \in Deliveries,
             DispatchAlone(d) \/ HandlerReturns(d) \/ HeartbeatAlone(d)
             \/ HeartbeatReply(d) \/ Unwind(d)
      PROVE  UNCHANGED leaseVars
  BY <1>6 DEF DispatchAlone, HandlerReturns, HeartbeatAlone, HeartbeatReply,
              Unwind, OfDispatch
<1>7. LoopAlone \/ UNCHANGED vars => UNCHANGED leaseVars
  BY DEF LoopAlone, OfLoop, vars
<1> QED
  BY <1>1, <1>3, <1>4, <1>5, <1>6, <1>7 DEF Next, WorkerStep, Worker

\* What was reported was granted before.
LEMMA ReportedIsGranted ==
    ASSUME DispatchP!Inv, AllTied, NEW d \in Deliveries, sent[d] # "none"
    PROVE  job[d] # "queued"
  BY DEF DispatchP!Inv, DispatchP!Phased, AllTied, Tied

\* Once the server acts on the report of a delivery, it is not the one that
\* has the lock.
LEMMA ReportFrees ==
    ASSUME DispatchP!Inv, LeaseInv, NEW d \in Deliveries, ReportArrives(d)
    PROVE  holder'[JobOf(d)] # "me"
<1>1. JobOf(d) \in WorkJobs /\ sent[d] \in DispatchP!Reports
  BY DEF Deliveries, JobOf, ReportArrives, DispatchP!Inv, DispatchP!TypeOK
<1> QED
  BY <1>1 DEF ReportArrives, LeaseInv, Lease!LeaseTypeOK, Lease!Report,
              Lease!ChargeRetry, Lease!End, Lease!lvars, DispatchP!Reports

\* A grant locks the deliveries that come next.
LEMMA LockGrant ==
    ASSUME Inv, Reported, LockInv, NEW S \in SUBSET WorkJobs, Grant(S)
    PROVE  LockInv'
<1> DEFINE js == {<<k, attempt[k] + 1>> : k \in S}
<1>1. js \subseteq Deliveries /\ \A d \in js : job[d] = "queued"
  BY DEF Grant, Loop!ServerGrants, Loop!In
<1>2. \A d \in Deliveries :
          job'[d] = IF d \in js THEN "granted" ELSE job[d]
  BY DEF Grant, Loop!ServerGrants, Loop!Move
<1>3. /\ \A k \in WorkJobs : /\ holder'[k] = IF k \in S THEN "me" ELSE holder[k]
                             /\ attempt'[k] = attempt[k] + (IF k \in S THEN 1 ELSE 0)
      /\ arrived' = arrived
  BY DEF Grant, Lease!HandOut
<1>4. \A k \in WorkJobs : attempt[k] \in Nat
  BY SystemAssumption DEF Inv, LeaseInv, Lease!LeaseTypeOK
<1>5. \A d \in js : d \notin arrived
  BY <1>1, ReportedIsGranted DEF Inv, Reported
<1>6. ASSUME NEW k \in WorkJobs, holder'[k] = "me"
      PROVE  job'[Last(k)'] # "queued" /\ Last(k)' \notin arrived'
  <2>1. CASE k \in S
    <3>1. Last(k)' \in js
      BY <1>3, <2>1 DEF Last
    <3> QED BY <1>1, <1>2, <1>3, <1>5, <3>1
  <2>2. CASE k \notin S
    <3>1. holder[k] = "me" /\ Last(k)' = Last(k)
      BY <1>3, <1>4, <1>6, <2>2 DEF Last
    <3>2. job[Last(k)] # "queued" /\ Last(k) \notin arrived
      BY <3>1 DEF LockInv, LockHasReason
    <3>3. Last(k) \in Deliveries
      BY <3>1, SystemAssumption
         DEF Last, Deliveries, Inv, LeaseInv, Lease!LeaseTypeOK, Charged
    <3> QED BY <1>2, <1>3, <3>1, <3>2, <3>3
  <2> QED BY <2>1, <2>2
<1>7. ASSUME NEW d \in Deliveries, job'[d] # "queued"
      PROVE  AttemptOf(d) <= attempt'[JobOf(d)]
  <2>1. JobOf(d) \in WorkJobs
    BY DEF Deliveries, JobOf
  <2>2. CASE d \in js
    BY <1>3, <1>4, <2>1, <2>2 DEF JobOf, AttemptOf
  <2>3. CASE d \notin js
    <3>1. AttemptOf(d) <= attempt[JobOf(d)]
      BY <1>2, <1>7, <2>3 DEF LockInv, NotYetGranted
    <3>2. AttemptOf(d) \in Nat
      BY SystemAssumption DEF Deliveries, AttemptOf
    <3> QED BY <1>3, <1>4, <2>1, <3>1, <3>2
  <2> QED BY <2>2, <2>3
<1> QED
  BY <1>6, <1>7 DEF LockInv, LockHasReason, NotYetGranted

\* The server has acted on a report more, and nothing else is new to it.
LEMMA ArrivedStep ==
    ASSUME [Next]_vars, NEW d, d \in arrived' \ arrived
    PROVE  d \in Deliveries /\ ReportArrives(d)
  BY DEF vars, Next, WorkerStep, Worker, LoopAlone, OfLoop, DispatchAlone,
         HandlerReturns, HeartbeatAlone, HeartbeatReply, OfDispatch, Unwind,
         Grant, ReportArrives, RunOut, InstanceEnds, OtherPolls, OtherReports,
         ServerAlone

\* The account of the locks is kept by every step.
LEMMA LockStep ==
    ASSUME Inv, Reported, LockInv, [Next]_vars
    PROVE  LockInv'
<1> USE DEF Inv
<1>1. CASE \E S \in SUBSET WorkJobs : Grant(S)
  BY <1>1, LockGrant
<1>2. CASE ~ \E S \in SUBSET WorkJobs : Grant(S)
  <2>1. ASSUME NEW k \in WorkJobs, holder'[k] = "me"
        PROVE  job'[Last(k)'] # "queued" /\ Last(k)' \notin arrived'
    <3>1. holder[k] = "me" /\ Last(k)' = Last(k)
      BY <1>2, <2>1, AttemptStep DEF Last
    <3>2. job[Last(k)] # "queued" /\ Last(k) \notin arrived
      BY <3>1 DEF LockInv, LockHasReason
    <3>3. Last(k) \in Deliveries /\ JobOf(Last(k)) = k
      BY <3>1, SystemAssumption
         DEF Last, JobOf, Deliveries, LeaseInv, Lease!LeaseTypeOK, Charged
    <3>4. Last(k) \notin arrived'
      BY <2>1, <3>2, <3>3, ArrivedStep, ReportFrees
    <3> QED BY <1>2, <3>1, <3>2, <3>3, <3>4, QueueStep
  <2>2. ASSUME NEW d \in Deliveries, job'[d] # "queued"
        PROVE  AttemptOf(d) <= attempt'[JobOf(d)]
    <3>1. AttemptOf(d) <= attempt[JobOf(d)]
      BY <1>2, <2>2, QueueStep DEF LockInv, NotYetGranted
    <3>2. JobOf(d) \in WorkJobs /\ AttemptOf(d) \in Nat
      BY SystemAssumption DEF Deliveries, JobOf, AttemptOf
    <3>3. attempt'[JobOf(d)] >= attempt[JobOf(d)]
      BY <1>2, <3>2, AttemptStep
    <3>4. attempt[JobOf(d)] \in Nat /\ attempt'[JobOf(d)] \in Nat
      <4>1. LeaseInv'
        BY LeaseStep
      <4> QED
        BY <3>2, <4>1, SystemAssumption DEF LeaseInv, Lease!LeaseTypeOK
    <3> QED BY <3>1, <3>2, <3>3, <3>4
  <2> QED BY <2>1, <2>2 DEF LockInv, LockHasReason, NotYetGranted
<1> QED BY <1>1, <1>2

\* It holds in every reachable state.
LEMMA LockInvariance == Spec => [](Inv /\ Reported /\ LockInv)
<1>1. Init => LockInv
  BY DEF Init, Loop!Init, Lease!LeaseInit, LockInv, LockHasReason,
         NotYetGranted
<1>2. Inv /\ Reported /\ LockInv /\ [Next]_vars => LockInv'
  BY LockStep
<1>3. Spec => [](Inv /\ Reported)
  BY Invariance, PTL
<1> QED BY <1>1, <1>2, <1>3, PTL DEF Spec

\* No lock of the worker outlives the report about it, and none is a lock the
\* worker was never granted, for any number of jobs and handings out.
THEOREM LocksHaveReason == Spec => []LockHasReason
<1>1. LockInv => LockHasReason
  BY DEF LockInv
<1> QED BY <1>1, LockInvariance, PTL

\* A report that takes effect finds the worker itself holding the job: it is
\* about the delivery that has the lock, or an earlier one of the same job.
OnlyOwnLock ==
    \A d \in arrived' \ arrived :
        leaseVars' # leaseVars
            => /\ holder[JobOf(d)] = "me"
               /\ status[JobOf(d)] = "PENDING"
               /\ AttemptOf(d) <= attempt[JobOf(d)]

\* A stale report may end the worker's own later delivery of the job, but
\* never another client's, nor a job that has ended.
THEOREM StaleReportsSpareOthers == Spec => [][OnlyOwnLock]_vars
<1>1. Inv /\ Reported /\ LockInv /\ [Next]_vars => [OnlyOwnLock]_vars
  <2> SUFFICES ASSUME Inv, Reported, LockInv, [Next]_vars,
                      NEW d \in arrived' \ arrived, leaseVars' # leaseVars
               PROVE  /\ holder[JobOf(d)] = "me"
                      /\ status[JobOf(d)] = "PENDING"
                      /\ AttemptOf(d) <= attempt[JobOf(d)]
    BY DEF OnlyOwnLock
  <2>1. d \in Deliveries /\ ReportArrives(d)
    BY ArrivedStep
  <2>2. JobOf(d) \in WorkJobs
    BY <2>1 DEF Deliveries, JobOf
  <2>3. holder[JobOf(d)] = "me"
    BY <2>1 DEF ReportArrives, Lease!Report, Lease!lvars, leaseVars
  <2>4. job[d] # "queued"
    BY <2>1, ReportedIsGranted DEF ReportArrives, Inv
  <2> QED
    BY <2>1, <2>2, <2>3, <2>4
       DEF LockInv, NotYetGranted, Inv, LeaseInv, Charged
<1> QED BY <1>1, LockInvariance, PTL DEF Spec

\* Without a retry budget a job is handed out once, and then no report is ever
\* stale: finding 4 of README.md takes a second delivery to the same worker.
THEOREM NoRetryNoStale ==
    ASSUME Retries = 0
    PROVE  Spec => StaleReportNeverApplies
<1> DEFINE Fresh == \A d \in arrived' \ arrived :
                        leaseVars' # leaseVars
                            => attempt[JobOf(d)] = AttemptOf(d)
<1>1. Inv /\ Reported /\ LockInv /\ [Next]_vars => [Fresh]_vars
  <2> SUFFICES ASSUME Inv, Reported, LockInv, [Next]_vars,
                      NEW d \in arrived' \ arrived, leaseVars' # leaseVars
               PROVE  attempt[JobOf(d)] = AttemptOf(d)
    OBVIOUS
  <2>1. d \in Deliveries /\ ReportArrives(d)
    BY ArrivedStep
  <2>2. JobOf(d) \in WorkJobs /\ AttemptOf(d) = 1
    BY <2>1 DEF Deliveries, JobOf, AttemptOf
  <2>3. job[d] # "queued"
    BY <2>1, ReportedIsGranted DEF ReportArrives, Inv
  <2>4. 1 <= attempt[JobOf(d)]
    BY <2>1, <2>2, <2>3 DEF LockInv, NotYetGranted
  <2> QED
    BY <2>2, <2>4 DEF Inv, LeaseInv, Lease!LeaseTypeOK
<1> QED
  BY <1>1, LockInvariance, PTL DEF Spec, StaleReportNeverApplies

-----------------------------------------------------------------------------
(* What is over stays over. *)

\* A job that has ended is left as it is.
Settled ==
    \A k \in WorkJobs :
        status[k] # "PENDING"
            => status'[k] = status[k] /\ holder'[k] = "none"

\* Whatever the server does for one job, it leaves one that has ended alone.
LEMMA SettledStep == ASSUME DispatchP!Inv, LeaseInv, [Next]_vars PROVE Settled
<1> SUFFICES ASSUME NEW k \in WorkJobs, status[k] # "PENDING"
             PROVE  status'[k] = status[k] /\ holder'[k] = "none"
  BY DEF Settled
<1> DEFINE Goal == status'[k] = status[k] /\ holder'[k] = "none"
<1> USE SystemAssumption DEF LeaseInv, Lease!LeaseTypeOK, Charged
<1>0. holder[k] = "none"
  BY DEF Lease!Holders
<1>1. CASE UNCHANGED leaseVars
  BY <1>0, <1>1 DEF leaseVars
<1>2. ASSUME NEW l \in WorkJobs, LeaseStepOf(l) PROVE Goal
  <2>1. CASE l = k
    BY <1>0, <1>2, <2>1
       DEF LeaseStepOf, Lease!RunOut, Lease!Cancelled, Lease!Report,
           Lease!lvars
  <2>2. CASE l # k
    BY <1>0, <1>2, <2>2
       DEF LeaseStepOf, Lease!RunOut, Lease!Cancelled, Lease!Report,
           Lease!ChargeRetry, Lease!End, Lease!lvars, DispatchP!Reports
  <2> QED BY <2>1, <2>2
<1>3. ASSUME NEW d \in Deliveries, ReportArrives(d) PROVE Goal
  <2>1. JobOf(d) \in WorkJobs /\ sent[d] \in DispatchP!Reports
    BY <1>3 DEF Deliveries, JobOf, ReportArrives, DispatchP!Inv,
                DispatchP!TypeOK
  <2> QED
    BY <1>2, <1>3, <2>1 DEF ReportArrives, LeaseStepOf
<1>4. ASSUME NEW l \in WorkJobs,
             RunOut(l) \/ InstanceEnds(l) \/ OtherReports(l)
      PROVE  Goal
  BY <1>2, <1>4 DEF RunOut, InstanceEnds, OtherReports, ServerAlone,
                    LeaseStepOf, DispatchP!Reports
<1>5. ASSUME NEW S \in SUBSET WorkJobs, NEW c, Lease!HandOut(S, c) PROVE Goal
  BY <1>0, <1>5 DEF Lease!HandOut, Lease!Free
<1>6. ASSUME NEW l \in WorkJobs, OtherPolls(l) PROVE Goal
  BY <1>5, <1>6 DEF OtherPolls, ServerAlone
<1>7. ASSUME NEW S \in SUBSET WorkJobs, Grant(S) PROVE Goal
  BY <1>5, <1>7 DEF Grant
<1>8. ASSUME NEW d \in Deliveries,
             DispatchAlone(d) \/ HandlerReturns(d) \/ HeartbeatAlone(d)
             \/ HeartbeatReply(d) \/ Unwind(d)
      PROVE  UNCHANGED leaseVars
  BY <1>8 DEF DispatchAlone, HandlerReturns, HeartbeatAlone, HeartbeatReply,
              Unwind, OfDispatch
<1>9. LoopAlone \/ UNCHANGED vars => UNCHANGED leaseVars
  BY DEF LoopAlone, OfLoop, vars
<1> QED
  BY <1>1, <1>3, <1>4, <1>6, <1>7, <1>8, <1>9 DEF Next, WorkerStep, Worker

\* A job ends once: no late report, no lock running out and no poll changes
\* how it ended or locks it again.
THEOREM EndedJobsSettled == Spec => [][Settled]_vars
<1>1. Inv /\ [Next]_vars => [Settled]_vars
  BY SettledStep DEF Inv
<1>2. Spec => []Inv
  BY Invariance, PTL
<1> QED BY <1>1, <1>2, PTL DEF Spec

\* A step in which nothing is spawned or sent for d, and its handler begins only
\* in a goroutine that the shutdown timeout has left behind.
QuietDelivery(d) ==
    /\ hb'[d] = "calling" => hb[d] = "calling"
    /\ job'[d] = "running" => job[d] = "running"
    /\ pc[d] = "idle" /\ pc'[d] # "idle" => timerFired /\ job[d] = "running"

\* When Run has returned, the worker polls no more, spawns no goroutine, and
\* sends no report and no heartbeat.  A handler may still begin: in a goroutine
\* that was spawned before and got to run only after the shutdown timeout had
\* ended the wait for it.
SilentAfterRun ==
    loop = "returned"
        => /\ loop' = "returned"
           /\ sent' = sent
           /\ \A d \in Deliveries : QuietDelivery(d)

\* The loop that has returned is left, and with it jobsCtx has ended.
LEMMA ReturnedStep ==
    ASSUME LoopP!Inv, [LoopP!Next]_(LoopP!vars), loop = "returned"
    PROVE  /\ loop' = "returned"
           /\ \A d \in Deliveries : job'[d] = "running" => job[d] = "running"
<1> DEFINE Goal ==
        /\ loop' = "returned"
        /\ \A d \in Deliveries : job'[d] = "running" => job[d] = "running"
<1> USE DEF LoopP!Inv, LoopP!TypeOK, LoopP!Goto
<1>1. CASE LoopP!Cancel \/ LoopP!TimerFires
  BY <1>1 DEF LoopP!Cancel, LoopP!TimerFires
<1>2. CASE LoopP!LoopStep
  BY <1>2
     DEF LoopP!LoopStep, LoopP!Check, LoopP!AcquireFirst,
         LoopP!AcquireCancelled, LoopP!AcquireMore, LoopP!SendPoll,
         LoopP!GiveBack, LoopP!GiveBackDone, LoopP!Backoff, LoopP!Spawn,
         LoopP!SpawnDone, LoopP!AwaitDone, LoopP!AwaitTimeout, LoopP!Return
<1>3. CASE \/ LoopP!PollReturns
           \/ \E js \in SUBSET Deliveries : LoopP!ServerGrants(js)
  BY <1>3 DEF LoopP!PollReturns, LoopP!PollAnswered, LoopP!PollFailed,
              LoopP!ServerGrants
<1>4. ASSUME NEW e \in Deliveries, LoopP!DispatchReturns(e) \/ LoopP!Unwind(e)
      PROVE  Goal
  BY <1>4 DEF LoopP!DispatchReturns, LoopP!Unwind, LoopP!ReleaseSlot,
              LoopP!JobDone
<1>5. CASE UNCHANGED LoopP!vars
  BY <1>5 DEF LoopP!vars
<1> QED BY <1>1, <1>2, <1>3, <1>4, <1>5 DEF LoopP!Next

\* Only a goroutine that the loop has spawned begins a handler.
LEMMA BegunWhereSpawned ==
    ASSUME DispatchP!Inv, [Next]_vars,
           NEW d \in Deliveries, pc[d] = "idle", pc'[d] # "idle"
    PROVE  job[d] = "running"
<1> USE DEF DispatchP!Inv, DispatchP!TypeOK
<1>1. CASE UNCHANGED dispatchVars
  BY <1>1 DEF dispatchVars
<1>2. ASSUME NEW e \in Deliveries, DispatchAlone(e) PROVE job[d] = "running"
  <2>1. CASE e = d
    BY <1>2, <2>1 DEF DispatchAlone
  <2>2. CASE e # d
    BY <1>2, <2>2
       DEF DispatchAlone, OfDispatch, Dispatch!Start, Dispatch!Finalize,
           Dispatch!StopHeartbeat, Dispatch!JoinHeartbeat, Dispatch!CheckCtx,
           Dispatch!BuildReport, Dispatch!PanicOutside, Dispatch!NoToken,
           Dispatch!SendReport, Dispatch!ReportAnswered, Dispatch!Goto
  <2> QED BY <2>1, <2>2
<1>3. ASSUME NEW e \in Deliveries,
             HandlerReturns(e) \/ HeartbeatAlone(e) \/ HeartbeatReply(e)
      PROVE  \/ UNCHANGED pc
             \/ pc[e] # "idle" /\ pc' = [pc EXCEPT ![e] = pc'[e]]
  BY <1>3 DEF HandlerReturns, HeartbeatAlone, HeartbeatReply, OfDispatch,
              Dispatch!Handler, Dispatch!HandlerReturns, Dispatch!Goto,
              Dispatch!HbStop, Dispatch!Beat, Dispatch!HbSwitch,
              Dispatch!LoseLock, Dispatch!BeatAnswered
<1>4. ASSUME NEW e \in Deliveries, Unwind(e) \/ ReportArrives(e)
      PROVE  UNCHANGED dispatchVars
  BY <1>4 DEF Unwind, ReportArrives
<1>5. ASSUME NEW S \in SUBSET WorkJobs, Grant(S) PROVE UNCHANGED dispatchVars
  BY <1>5 DEF Grant
<1>6. ASSUME NEW k \in WorkJobs,
             RunOut(k) \/ InstanceEnds(k) \/ OtherPolls(k) \/ OtherReports(k)
      PROVE  UNCHANGED dispatchVars
  BY <1>6 DEF RunOut, InstanceEnds, OtherPolls, OtherReports, ServerAlone
<1>7. LoopAlone \/ UNCHANGED vars => UNCHANGED dispatchVars
  BY DEF LoopAlone, OfLoop, vars
<1> QED
  BY <1>1, <1>2, <1>3, <1>4, <1>5, <1>6, <1>7 DEF Next, WorkerStep, Worker

\* A step after Run has returned.
LEMMA QuietStep ==
    ASSUME LoopP!Inv, DispatchP!Inv, AllTied, [Next]_vars,
           [DispatchP!Silent]_(DispatchP!vars), loop = "returned"
    PROVE  /\ loop' = "returned" /\ sent' = sent
           /\ \A d \in Deliveries : QuietDelivery(d)
<1>1. jobsDone /\ (timerFired \/ LoopP!InFlight = {})
  BY DEF LoopP!Inv, LoopP!Placed
<1>2. /\ sent' = sent
      /\ \A d \in Deliveries : hb'[d] = "calling" => hb[d] = "calling"
  BY <1>1 DEF DispatchP!Silent, DispatchP!vars
<1>3. [LoopP!Next]_(LoopP!vars)
  BY LoopStep
<1>4. loop' = "returned"
      /\ \A d \in Deliveries : job'[d] = "running" => job[d] = "running"
  BY <1>3, ReturnedStep
<1>5. ASSUME NEW d \in Deliveries, pc[d] = "idle", pc'[d] # "idle"
      PROVE  timerFired /\ job[d] = "running"
  <2>1. job[d] = "running"
    BY <1>5, BegunWhereSpawned
  <2>2. LoopP!InFlight # {}
    BY <2>1 DEF LoopP!InFlight, LoopP!In
  <2> QED BY <1>1, <2>1, <2>2
<1> QED BY <1>2, <1>4, <1>5 DEF QuietDelivery

\* The process is silent after Run, for any number of handlers left running.
THEOREM SilenceAfterRun == Spec => [][SilentAfterRun]_vars
<1>1. LoopP!Inv /\ DispatchP!Inv /\ AllTied /\ [Next]_vars
      /\ [DispatchP!Silent]_(DispatchP!vars) => [SilentAfterRun]_vars
  BY QuietStep DEF SilentAfterRun
<1>2. Spec => [][DispatchP!Silent]_(DispatchP!vars)
  <2>1. DispatchP!Spec => DispatchP!NothingSentAfterTimeout
    BY DispatchP!TimeoutSilences, SystemAssumption
  <2> QED BY <2>1, SystemIsDispatch, PTL DEF DispatchP!NothingSentAfterTimeout
<1> QED BY <1>1, <1>2, WorkerInvariant, PTL DEF Spec

\* The deliveries that have a goroutine in dispatch.
InDispatch == {d \in Deliveries : pc[d] \notin {"idle", "ended"}}

DispatchesBounded == Cardinality(InDispatch) <= MaxJobs

\* Never more deliveries are between the start of their handler and the answer
\* to their report than WithMaxJobs: a slot is given back after all of that.
THEOREM DispatchesAlwaysBounded == Spec => []DispatchesBounded
<1>1. LoopP!Inv /\ DispatchP!Inv /\ AllTied => DispatchesBounded
  <2> SUFFICES ASSUME LoopP!Inv, DispatchP!Inv, AllTied
               PROVE  Cardinality(InDispatch) <= MaxJobs
    BY DEF DispatchesBounded
  <2>1. InDispatch \subseteq LoopP!HoldsSlot
    BY DEF InDispatch, LoopP!HoldsSlot, LoopP!In, LoopP!Inv, LoopP!TypeOK,
           LoopP!JobStates, AllTied, Tied
  <2>2. IsFiniteSet(LoopP!HoldsSlot)
    BY DeliveriesFinite, FS_Subset DEF LoopP!HoldsSlot, LoopP!In
  <2>3. /\ Cardinality(InDispatch) \in Nat
        /\ Cardinality(InDispatch) <= Cardinality(LoopP!HoldsSlot)
        /\ Cardinality(LoopP!HoldsSlot) \in Nat
    BY <2>1, <2>2, FS_Subset, FS_CardinalityType
  <2>4. Cardinality(LoopP!HoldsSlot) <= MaxJobs
    BY <2>3, SameCardinality, SystemAssumption
       DEF LoopP!Inv, LoopP!TypeOK, LoopP!SlotsAccounted
  <2> QED
    BY <2>3, <2>4, SystemAssumption
<1> QED BY <1>1, WorkerInvariant, PTL
=============================================================================
