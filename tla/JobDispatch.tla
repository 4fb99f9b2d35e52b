---------------------------- MODULE JobDispatch ----------------------------
(***************************************************************************)
(* Worker.dispatch and Worker.heartbeat (workers/worker.go): for every     *)
(* delivered job one goroutine runs the handler and finalizes the job,     *)
(* while a second one keeps its lock.  The two share a tree of contexts:   *)
(*                                                                         *)
(*    jobsCtx -> spanCtx -> ctx -> hbCtx -> reqCtx                         *)
(*                  \-> finalCtx                                           *)
(*                                                                         *)
(* jobsCtx ends at the shutdown timeout (jobsDone), ctx also when the      *)
(* heartbeat learns that the lock is lost (lockLost), and hbCtx also when  *)
(* the handler has returned (hbStopped).                                   *)
(*                                                                         *)
(* The server is not in this module: an answer is any answer.  A request   *)
(* made with a context that has ended fails and is never sent, which is    *)
(* what net/http's client does.  A report is "sent" once it is handed to   *)
(* that client; that it may get lost on the way is WorkerSystem's matter.  *)
(*                                                                         *)
(* Panics are those of the handler and of what it returns.  The code of    *)
(* the caller that the worker calls besides - token provider, logger,      *)
(* tracer, HTTP transport - is taken not to panic, and the handler not to  *)
(* call runtime.Goexit.                                                    *)
(***************************************************************************)
EXTENDS Naturals, FiniteSets

CONSTANTS
    Jobs,       \* the deliveries, one dispatch each
    Outcomes    \* the ways the registered handler may return

ASSUME OutcomesAssumption ==
    Outcomes \subseteq {"vars",     \* variables, and a nil error
                        "badVars",  \* variables that JSON cannot encode,
                                    \* with a nil error or a *BpmnError
                        "bpmn",     \* a *BpmnError
                        "error",    \* any other error
                        "panic",    \* it panics
                        "nilBpmn",  \* a nil *BpmnError in a non-nil error
                        "badError", \* an error whose methods panic
                        "panicVars"}\* like badVars, but their MarshalJSON
                                    \* panics instead of failing

\* What dispatch makes of these it makes of them outside safeRun's recover.
Panicking == {"nilBpmn", "badError", "panicVars"}

VARIABLES
    jobsDone,   \* jobsCtx has ended
    crashed,    \* a panic outside safeRun has ended the process
    pc,         \* pc[j]: where the dispatch of j is
    outcome,    \* outcome[j]: how the handler of j returned
    sent,       \* sent[j]: the report the dispatch of j has sent
    noToken,    \* noToken[j]: the report of j was given up for want of a token
    hb,         \* hb[j]: where the heartbeat goroutine of j is
    hbAnswer,   \* hbAnswer[j]: the answer its switch has not looked at yet
    hbStopped,  \* hbStopped[j]: stopHeartbeat has been called
    lockLost    \* lockLost[j]: the heartbeat has cancelled ctx

reportVars == <<sent, noToken>>
hbVars     == <<hb, hbAnswer, lockLost>>
vars       == <<jobsDone, crashed, pc, outcome, sent, noToken, hb, hbAnswer,
                hbStopped, lockLost>>

PCs       == {"idle", "handling", "returned", "joining", "checking",
              "finalizing", "authorizing", "reporting", "ended"}
Reports   == {"complete", "bpmnError", "workerError"}
HbStates  == {"off", "waiting", "calling", "answered", "losing", "done"}
\* 2xx; 404 or 409; another status; no usable answer within the 10 s.
HbAnswers == {"ok", "gone", "status", "error"}

-----------------------------------------------------------------------------
\* ctx.Err() # nil in dispatch, and in heartbeat, whose ctx is hbCtx.
CtxDone(j) == jobsDone \/ lockLost[j]

HbCtxDone_Mutant(j) == lockLost[j] \/ hbStopped[j] \* detached from jobsCtx
HbCtxDone(j)        == CtxDone(j) \/ hbStopped[j]

\* The error dispatch sees: safeRun turns a panic into a plain error.
SafeRun_Mutant(o) == IF o = "panic" THEN "vars" ELSE o \* err left nil
SafeRun(o)        == IF o = "panic" THEN "error" ELSE o

\* The call that finalizes the job.  isBpmnError also holds of a nil
\* *BpmnError, and what Panicking names gets no further than PanicOutside.
ReportFor_Mutant(e) == e
ReportFor(e) ==
    CASE e \in {"vars", "badVars"}  -> "complete"
      [] e \in {"bpmn", "nilBpmn"}  -> "bpmnError"
      [] OTHER                     -> "workerError"

Init ==
    /\ jobsDone  = FALSE
    /\ crashed   = FALSE
    /\ pc        = [j \in Jobs |-> "idle"]
    /\ outcome   = [j \in Jobs |-> "none"]
    /\ sent      = [j \in Jobs |-> "none"]
    /\ noToken   = [j \in Jobs |-> FALSE]
    /\ hb        = [j \in Jobs |-> "off"]
    /\ hbAnswer  = [j \in Jobs |-> "none"]
    /\ hbStopped = [j \in Jobs |-> FALSE]
    /\ lockLost  = [j \in Jobs |-> FALSE]

Goto(j, from, to) ==
    /\ pc[j] = from
    /\ pc' = [pc EXCEPT ![j] = to]

-----------------------------------------------------------------------------
(* The goroutine of dispatch. *)

\* The goroutine runs after it was spawned, perhaps when jobsCtx has ended:
\* nothing looks at the context before the handler is called.
Start(j) ==
    /\ Goto(j, "idle", "handling")
    /\ hb' = [hb EXCEPT ![j] = "waiting"]
    /\ UNCHANGED <<jobsDone, crashed, outcome, reportVars, hbAnswer, hbStopped,
                   lockLost>>

HandlerReturns(j, o) ==
    /\ Goto(j, "handling", "returned")
    /\ outcome' = [outcome EXCEPT ![j] = o]
    /\ UNCHANGED <<jobsDone, crashed, reportVars, hbStopped, hbVars>>

StopHeartbeat_Mutant(j) ==          \* stopHeartbeat() forgotten
    /\ Goto(j, "returned", "joining")
    /\ UNCHANGED <<jobsDone, crashed, outcome, reportVars, hbStopped, hbVars>>

StopHeartbeat(j) ==
    /\ Goto(j, "returned", "joining")
    /\ hbStopped' = [hbStopped EXCEPT ![j] = TRUE]
    /\ UNCHANGED <<jobsDone, crashed, outcome, reportVars, hbVars>>

JoinHeartbeat_Mutant(j) ==          \* <-hbDone forgotten
    /\ Goto(j, "joining", "checking")
    /\ UNCHANGED <<jobsDone, crashed, outcome, reportVars, hbStopped, hbVars>>

\* <-hbDone
JoinHeartbeat(j) ==
    /\ hb[j] = "done"
    /\ Goto(j, "joining", "checking")
    /\ UNCHANGED <<jobsDone, crashed, outcome, reportVars, hbStopped, hbVars>>

CheckCtx_Mutant(j) ==               \* asks spanCtx instead of ctx
    /\ Goto(j, "checking", IF jobsDone THEN "ended" ELSE "finalizing")
    /\ UNCHANGED <<jobsDone, crashed, outcome, reportVars, hbStopped, hbVars>>

CheckCtx(j) ==
    /\ Goto(j, "checking", IF CtxDone(j) THEN "ended" ELSE "finalizing")
    /\ UNCHANGED <<jobsDone, crashed, outcome, reportVars, hbStopped, hbVars>>

\* The result goes into the body of the request, which only json.Marshal can
\* fail to build; complete and throwError log that and return.
Unsendable(j) == outcome[j] = "badVars"

BuildReport(j) ==
    /\ outcome[j] \notin Panicking
    /\ Goto(j, "finalizing", IF Unsendable(j) THEN "ended" ELSE "authorizing")
    /\ UNCHANGED <<jobsDone, crashed, outcome, reportVars, hbStopped, hbVars>>

\* errors.As found a nil *BpmnError and dispatch reads be.Code, or a method of
\* the error or of the variables panics: nothing recovers.
PanicOutside(j) ==
    /\ pc[j] = "finalizing"
    /\ outcome[j] \in Panicking
    /\ crashed' = TRUE
    /\ UNCHANGED <<jobsDone, pc, outcome, reportVars, hbStopped, hbVars>>

\* The request editor gets no token: Token fails, or comes back when the 15 s
\* of finalCtx are over.  The report is not sent, which is logged, and not
\* tried again.
NoToken(j) ==
    /\ Goto(j, "authorizing", "ended")
    /\ noToken' = [noToken EXCEPT ![j] = TRUE]
    /\ UNCHANGED <<jobsDone, crashed, outcome, sent, hbStopped, hbVars>>

SendReport_Mutant(j) ==             \* finalCtx from context.Background()
    /\ Goto(j, "authorizing", "reporting")
    /\ sent' = [sent EXCEPT ![j] = ReportFor(SafeRun(outcome[j]))]
    /\ UNCHANGED <<jobsDone, crashed, outcome, noToken, hbStopped, hbVars>>

\* finalCtx derives from spanCtx: a shutdown timeout that passed after
\* CheckCtx makes the call fail unsent, and the dispatch ends.
SendReport(j) ==
    /\ IF jobsDone
       THEN /\ Goto(j, "authorizing", "ended")
            /\ sent' = sent
       ELSE /\ Goto(j, "authorizing", "reporting")
            /\ sent' = [sent EXCEPT ![j] = ReportFor(SafeRun(outcome[j]))]
    /\ UNCHANGED <<jobsDone, crashed, outcome, noToken, hbStopped, hbVars>>

\* Any answer, or none within 15 s or before jobsCtx ended, is only logged.
ReportAnswered(j) ==
    /\ Goto(j, "reporting", "ended")
    /\ UNCHANGED <<jobsDone, crashed, outcome, reportVars, hbStopped, hbVars>>

-----------------------------------------------------------------------------
(* The goroutine of heartbeat. *)

HbGoto(j, from, to) ==
    /\ hb[j] = from
    /\ hb' = [hb EXCEPT ![j] = to]

\* The select sees ctx.Done().
HbStop(j) ==
    /\ HbCtxDone(j)
    /\ HbGoto(j, "waiting", "done")
    /\ UNCHANGED <<jobsDone, crashed, pc, outcome, reportVars, hbAnswer,
                   hbStopped, lockLost>>

\* The select takes a tick, which it may also do when ctx has ended: the
\* request then fails unsent.  Its wait for a token counts as the call, and a
\* token that does not come as an "error".
Beat(j) ==
    /\ IF HbCtxDone(j)
       THEN /\ HbGoto(j, "waiting", "answered")
            /\ hbAnswer' = [hbAnswer EXCEPT ![j] = "error"]
       ELSE /\ HbGoto(j, "waiting", "calling")
            /\ hbAnswer' = hbAnswer
    /\ UNCHANGED <<jobsDone, crashed, pc, outcome, reportVars, hbStopped,
                   lockLost>>

\* An answer that was already in when ctx ended may be any answer.
BeatAnswered(j, a) ==
    /\ HbGoto(j, "calling", "answered")
    /\ hbAnswer' = [hbAnswer EXCEPT ![j] = a]
    /\ UNCHANGED <<jobsDone, crashed, pc, outcome, reportVars, hbStopped,
                   lockLost>>

\* The switch after the call: ctx.Err() comes first.  A 409 whose body does
\* not decode is an "error", and the heartbeat goes on.
AfterAnswer_QuitMutant(j) ==        \* returns on an error
    CASE HbCtxDone(j)          -> "done"
      [] hbAnswer[j] = "gone"  -> "losing"
      [] hbAnswer[j] = "error" -> "done"
      [] OTHER                 -> "waiting"
AfterAnswer_KeepMutant(j) ==        \* does not know 409 and 404
    IF HbCtxDone(j) THEN "done" ELSE "waiting"
AfterAnswer(j) ==
    CASE HbCtxDone(j)         -> "done"
      [] hbAnswer[j] = "gone" -> "losing"
      [] OTHER                -> "waiting"

HbSwitch(j) ==
    /\ HbGoto(j, "answered", AfterAnswer(j))
    /\ hbAnswer' = [hbAnswer EXCEPT ![j] = "none"]
    /\ UNCHANGED <<jobsDone, crashed, pc, outcome, reportVars, hbStopped,
                   lockLost>>

\* lockLost() cancels ctx, even if stopHeartbeat came after the switch.
LoseLock(j) ==
    /\ HbGoto(j, "losing", "done")
    /\ lockLost' = [lockLost EXCEPT ![j] = TRUE]
    /\ UNCHANGED <<jobsDone, crashed, pc, outcome, reportVars, hbAnswer,
                   hbStopped>>

-----------------------------------------------------------------------------
\* awaitJobs: the shutdown timeout passes (see TaskLoop).
CancelJobs ==
    /\ ~jobsDone
    /\ jobsDone' = TRUE
    /\ UNCHANGED <<crashed, pc, outcome, reportVars, hbStopped, hbVars>>

Handler(j)   == \E o \in Outcomes : HandlerReturns(j, o)
Finalize(j)  == \/ StopHeartbeat(j) \/ JoinHeartbeat(j) \/ CheckCtx(j)
                \/ BuildReport(j) \/ PanicOutside(j) \/ NoToken(j)
                \/ SendReport(j) \/ ReportAnswered(j)
Heartbeat(j) == \/ HbStop(j) \/ Beat(j)
                \/ \E a \in HbAnswers : BeatAnswered(j, a)
                \/ HbSwitch(j) \/ LoseLock(j)

Next ==
    /\ ~crashed
    /\ \/ CancelJobs
       \/ \E j \in Jobs : Start(j) \/ Handler(j) \/ Finalize(j) \/ Heartbeat(j)

Spec == Init /\ [][Next]_vars

(***************************************************************************)
(* Go runs a goroutine that can run, and both requests carry a timeout, so *)
(* the steps of dispatch after the handler and those of heartbeat happen - *)
(* provided that Token comes back at some time, if not in time, which is   *)
(* taken of every token provider (see TokenProvider).  Nothing makes a     *)
(* handler return.                                                         *)
(***************************************************************************)
Fairness ==
    \A j \in Jobs : /\ WF_vars(~crashed /\ Start(j))
                    /\ WF_vars(~crashed /\ Finalize(j))
                    /\ WF_vars(~crashed /\ Heartbeat(j))

FairSpec == Spec /\ Fairness

-----------------------------------------------------------------------------
\* Every variable has its type.
TypeOK ==
    /\ jobsDone  \in BOOLEAN
    /\ crashed   \in BOOLEAN
    /\ pc        \in [Jobs -> PCs]
    /\ outcome   \in [Jobs -> Outcomes \union {"none"}]
    /\ sent      \in [Jobs -> Reports \union {"none"}]
    /\ noToken   \in [Jobs -> BOOLEAN]
    /\ hb        \in [Jobs -> HbStates]
    /\ hbAnswer  \in [Jobs -> HbAnswers \union {"none"}]
    /\ hbStopped \in [Jobs -> BOOLEAN]
    /\ lockLost  \in [Jobs -> BOOLEAN]

\* "Stop heartbeating before finalizing so we don't race with the terminal
\* call": once the report is out no heartbeat is, and none will follow.
HeartbeatEndsBeforeReport ==
    \A j \in Jobs : sent[j] # "none" => hb[j] = "done"

\* A worker that has taken note of losing the lock reports nothing, however
\* late the heartbeat noted it: the 409 may be decided on before
\* stopHeartbeat and cancel ctx after it.
LostLockNotReported ==
    \A j \in Jobs : lockLost[j] => sent[j] = "none"

\* The lock is kept for as long as the handler runs: while it does, the
\* heartbeat goroutine ends only if the handler's context has ended, whatever
\* the heartbeats were answered.
HeartbeatUntilReturn ==
    \A j \in Jobs : pc[j] = "handling" /\ hb[j] = "done" => CtxDone(j)

\* Once the shutdown timeout has passed, no heartbeat and no report leaves
\* the worker any more: the locks run out on the server.
Silent ==
    jobsDone => /\ sent' = sent
                /\ \A j \in Jobs : hb'[j] = "calling" => hb[j] = "calling"

NothingSentAfterTimeout == [][Silent]_vars

\* A dispatch whose handler has returned ends, so its slot comes back: it
\* does not wait for its heartbeat for ever.
ReturnedDispatchEnds ==
    \A j \in Jobs : pc[j] = "returned" ~> pc[j] = "ended" \/ crashed

\* The shutdown timeout silences the heartbeat of every delivery, also of one
\* whose handler ignores its context and runs on.
TimeoutSilencesHeartbeats ==
    \A j \in Jobs : jobsDone /\ hb[j] # "off" ~> hb[j] = "done" \/ crashed

\* A heartbeat answered 404 or 409 cancels the handler's context, unless
\* that has ended or the handler has returned.
ConflictCancelsHandler ==
    \A j \in Jobs : hb[j] = "answered" /\ hbAnswer[j] = "gone"
                        ~> HbCtxDone(j) \/ crashed

\* The handler comment promises a report for every way to return.  It does
\* not hold: a nil *BpmnError ends the process, and so does an error or a
\* variable whose methods panic.
NeverCrashes == ~crashed

\* "(vars, nil) -> Complete": a delivery that was not revoked, and whose report
\* was given a token, is reported.  It does not hold: variables that cannot be
\* encoded end the call of complete in the client, and neither the result nor a
\* failure is ever reported.
ResultReported ==
    \A j \in Jobs :
        pc[j] = "ended" /\ ~CtxDone(j) /\ ~noToken[j] => sent[j] # "none"

-----------------------------------------------------------------------------
\* What Delivery calls the phase and the verdict of a dispatch.
PhaseOf(j) ==
    CASE pc[j] = "idle"                     -> "waiting"
      [] pc[j] = "handling"                 -> "running"
      [] pc[j] \in {"reporting", "ended"}   -> "settled"
      [] OTHER                              -> "returned"

VerdictOf(j) ==
    IF pc[j] = "ended" /\ sent[j] = "none" THEN "dropped" ELSE sent[j]

Promise == INSTANCE Delivery WITH
    phase   <- [j \in Jobs |-> PhaseOf(j)],
    result  <- outcome,
    verdict <- [j \in Jobs |-> VerdictOf(j)],
    revoked <- {j \in Jobs : CtxDone(j)},
    unauthorized <- {j \in Jobs : noToken[j]}

\* dispatch keeps the worker's promise about every delivery.
ImplementsDelivery == Promise!Spec
=============================================================================
