--------------------------- MODULE ApiCallsProofs ---------------------------
(***************************************************************************)
(* Theorems about ApiCalls, for every method, any set of error statuses,   *)
(* batches of any size and any number of redirects.                        *)
(***************************************************************************)
EXTENDS ApiCalls, TLAPS

\* What the argument needs of a method: it takes no error status for a
\* success, and no success for a reason.
SoundMethod(m) ==
    /\ m.rule \in {"body", "id", "2xx", "raw"}
    /\ m.rule \in {"body", "id"} => m.status \in Successes
    /\ m.reasons \intersect Successes = {}
    /\ m.rows \subseteq Nat
    /\ \A n \in m.rows : n <= MaxRows + 1

SoundTable(f) == \A m \in Entries(f) : SoundMethod(m)

\* What the program counter says about the request and the outcome.
Phased ==
    /\ pc # "idle" => method \in Methods
    /\ pc # "done" => outcome = "none"
    /\ pc \in {"idle", "encoding", "token"} => request = "none" /\ ~turned
    /\ turned => Requests[method.op].verb # "GET"
    /\ request # "served" => ~applied
    /\ request = "served" => reply \in Answers
    /\ request = "served" =>
          /\ applied => reply.status \in Successes \/ reply.status >= 500
          /\ reply.status \in Successes =>
                \/ applied
                \/ turned /\ reply.status = 200 /\ HasTwin(method.op)
    /\ outcome \in {"result", "reason", "unexpected"} => request = "served"

Inv == TypeOK /\ Phased /\ OutcomeHonest

-----------------------------------------------------------------------------
\* Every method is sound.
LEMMA MethodsSound == \A m \in Methods : SoundMethod(m)
<1> USE ApiAssumption DEF SoundTable, Entries, SoundMethod, Successes
<1> USE DEF Gives, Does, Starts, Evaluates, Raw
<1>1. SoundTable(InstanceMethods)
  BY DEF InstanceMethods
<1>2. SoundTable(ResourceMethods)
  BY DEF ResourceMethods
<1>3. SoundTable(ResourceLists)
  BY DEF ResourceLists
<1>4. SoundTable(MessagingMethods)
  BY DEF MessagingMethods
<1>5. SoundTable(ProcessMethods)
  BY DEF ProcessMethods
<1>6. SoundTable(UserTaskMethods)
  BY DEF UserTaskMethods
<1>7. SoundTable(EvaluateMethod)
  BY DEF EvaluateMethod
<1>8. SoundTable(DesignMethods)
  BY DEF DesignMethods
<1>9. \A m \in RawMethods : SoundMethod(m)
  BY DEF RawMethods
<1> QED
  BY <1>1, <1>2, <1>3, <1>4, <1>5, <1>6, <1>7, <1>8, <1>9
     DEF Methods, SoundTable

-----------------------------------------------------------------------------
(* Which methods can take the answer to a GET for their own.               *)

\* The operations that are a GET, of those the clients' methods use.
ReadOps ==
    {"GetBpmnInstance", "ListBpmnInstances", "GetBpmnInstanceChildren",
     "GetBpmnInstanceHistory", "GetBpmnInstanceHistoryEntry",
     "GetBpmnInstanceVariables", "GetBpmnResource", "ListBpmnResources",
     "ListLatestBpmnResources", "ListBpmnResourcesByDefinitionsID",
     "ListBpmnProcesses", "ListBpmnProcessVersions", "GetBpmnProcessVersion",
     "ListBpmnUserTasks", "ListBpmnUserTasksForCaller", "GetBpmnUserTask"}

\* Those that write and have no GET beside them, and their paths.
LoneOps ==
    {"ResolveBpmnIncident", "DeployBpmnResource", "ValidateBpmnXml",
     "PublishBpmnMessage", "PublishBpmnSignal", "CompleteBpmnUserTask",
     "ThrowBpmnUserTaskError", "EvaluateByDefinitionsID", "EvaluateDesign",
     "EvaluateDesignBatch"}
LonePaths ==
    {"bpmn/instances/%s/incidents/%s/resolve", "bpmn/resources/%s/deploy",
     "bpmn/validate", "bpmn/messages", "bpmn/signals",
     "bpmn/user-tasks/%s/complete", "bpmn/user-tasks/%s/error",
     "dmn/definitions/by-definitions-id/%s/evaluate", "/dmn/evaluate/design",
     "/dmn/evaluate/design/batch"}

Sorted(t) ==
    \A op \in DOMAIN t :
        /\ op \in ReadOps => t[op].verb = "GET"
        /\ op \in LoneOps => t[op].path \in LonePaths
        /\ t[op].verb = "GET" => t[op].path \notin LonePaths

\* A merged table is made of the tables' own entries.
LEMMA MergeChooses ==
    ASSUME NEW tables, NEW op \in DOMAIN Merge(tables)
    PROVE  \E t \in tables : op \in DOMAIN t /\ Merge(tables)[op] = t[op]
  BY DEF Merge

\* The request of every operation is sorted.
LEMMA RequestsSorted == Sorted(Requests)
<1> USE DEF Sorted, ReadOps, LoneOps, LonePaths, Get, Bare, Json
<1>1. Sorted(DesignRequests)
  BY DEF DesignRequests
<1>2. Sorted(JobListRequests)
  BY DEF JobListRequests
<1>3. Sorted(JobBatchRequests)
  BY DEF JobBatchRequests
<1>4. Sorted(JobDepthRequests)
  BY DEF JobDepthRequests
<1>5. Sorted(JobReportRequests)
  BY DEF JobReportRequests
<1>6. Sorted(JobHoldRequests)
  BY DEF JobHoldRequests
<1>7. Sorted(IncidentListRequests)
  BY DEF IncidentListRequests
<1>8. Sorted(InstanceListRequests)
  BY DEF InstanceListRequests
<1>9. Sorted(InstanceRequests)
  BY DEF InstanceRequests
<1>10. Sorted(AdHocRequests)
  BY DEF AdHocRequests
<1>11. Sorted(HistoryRequests)
  BY DEF HistoryRequests
<1>12. Sorted(RepairRequests)
  BY DEF RepairRequests
<1>13. Sorted(MigrationRequests)
  BY DEF MigrationRequests
<1>14. Sorted(SuspensionRequests)
  BY DEF SuspensionRequests
<1>15. Sorted(VariableRequests)
  BY DEF VariableRequests
<1>16. Sorted(ProcessListRequests)
  BY DEF ProcessListRequests
<1>17. Sorted(VersionListRequests)
  BY DEF VersionListRequests
<1>18. Sorted(VersionRequests)
  BY DEF VersionRequests
<1>19. Sorted(ResourceRequests)
  BY DEF ResourceRequests
<1>20. Sorted(ResourceListRequests)
  BY DEF ResourceListRequests
<1>21. Sorted(LatestResourceRequests)
  BY DEF LatestResourceRequests
<1>22. Sorted(DraftRequests)
  BY DEF DraftRequests
<1>23. Sorted(SignalRequests)
  BY DEF SignalRequests
<1>24. Sorted(TaskListRequests)
  BY DEF TaskListRequests
<1>25. Sorted(OwnTaskRequests)
  BY DEF OwnTaskRequests
<1>26. Sorted(TaskRequests)
  BY DEF TaskRequests
<1>27. Sorted(TaskErrorRequests)
  BY DEF TaskErrorRequests
<1>28. Sorted(DecisionRequests)
  BY DEF DecisionRequests
<1>29. Sorted(DefinitionListRequests)
  BY DEF DefinitionListRequests
<1>30. Sorted(CreateDefinitionRequests)
  BY DEF CreateDefinitionRequests
<1>31. Sorted(EvaluationRequests)
  BY DEF EvaluationRequests
<1>32. Sorted(DefinitionVersionRequests)
  BY DEF DefinitionVersionRequests
<1>33. Sorted(LatestDefinitionRequests)
  BY DEF LatestDefinitionRequests
<1>34. Sorted(DefinitionRequests)
  BY DEF DefinitionRequests
<1>35. Sorted(DeployRequests)
  BY DEF DeployRequests
<1>36. Sorted(ExecutionListRequests)
  BY DEF ExecutionListRequests
<1>37. Sorted(ExecutionRequests)
  BY DEF ExecutionRequests
<1>38. \A t \in RequestTables : Sorted(t)
  BY <1>1, <1>2, <1>3, <1>4, <1>5, <1>6, <1>7, <1>8, <1>9, <1>10, <1>11,
     <1>12, <1>13, <1>14, <1>15, <1>16, <1>17, <1>18, <1>19, <1>20, <1>21,
     <1>22, <1>23, <1>24, <1>25, <1>26, <1>27, <1>28, <1>29, <1>30, <1>31,
     <1>32, <1>33, <1>34, <1>35, <1>36, <1>37 DEF RequestTables
<1> QED
  BY <1>38, MergeChooses DEF Sorted, Requests

\* The clients' methods call operations of the generated client.
LEMMA OpsExist == ReadOps \union LoneOps \subseteq Operations
<1>1. Operations = UNION {DOMAIN t : t \in RequestTables}
  BY DEF Operations, Requests, Merge
<1>2. ReadOps \union LoneOps \subseteq
          UNION {DOMAIN t : t \in
              {DesignRequests, InstanceListRequests, InstanceRequests,
               HistoryRequests, RepairRequests, VariableRequests,
               ProcessListRequests, VersionListRequests, VersionRequests,
               ResourceRequests, ResourceListRequests,
               LatestResourceRequests, DraftRequests, SignalRequests,
               TaskListRequests, OwnTaskRequests, TaskRequests,
               TaskErrorRequests, EvaluationRequests}}
  BY DEF ReadOps, LoneOps, DesignRequests, InstanceListRequests,
         InstanceRequests, HistoryRequests, RepairRequests, VariableRequests,
         ProcessListRequests, VersionListRequests, VersionRequests,
         ResourceRequests, ResourceListRequests, LatestResourceRequests,
         DraftRequests, SignalRequests, TaskListRequests, OwnTaskRequests,
         TaskRequests, TaskErrorRequests, EvaluationRequests
<1> QED
  BY <1>1, <1>2 DEF RequestTables

\* A method is one of the five, or it reads, or no GET has its path, or it
\* does not expect 200.
Placed(m) ==
    \/ m \in Mistakable
    \/ m.op \in ReadOps \union LoneOps
    \/ m.rule \in {"body", "id"} /\ m.status # 200
    \/ m.rule = "raw"

PlacedTable(f) == \A m \in Entries(f) : Placed(m)

\* Every method is in its place.
LEMMA MethodsPlaced == \A m \in Methods : Placed(m)
<1> USE DEF PlacedTable, Entries, Placed, ReadOps, LoneOps
<1> USE DEF Gives, Does, Starts, Evaluates, Raw
<1>1. PlacedTable(InstanceMethods)
  BY DEF InstanceMethods, Mistakable
<1>2. PlacedTable(ResourceMethods)
  BY DEF ResourceMethods, Mistakable
<1>3. PlacedTable(ResourceLists)
  BY DEF ResourceLists
<1>4. PlacedTable(MessagingMethods)
  BY DEF MessagingMethods
<1>5. PlacedTable(ProcessMethods)
  BY DEF ProcessMethods
<1>6. PlacedTable(UserTaskMethods)
  BY DEF UserTaskMethods, Mistakable
<1>7. PlacedTable(EvaluateMethod)
  BY DEF EvaluateMethod
<1>8. PlacedTable(DesignMethods)
  BY DEF DesignMethods
<1>9. \A m \in RawMethods : Placed(m)
  BY DEF RawMethods
<1> QED
  BY <1>1, <1>2, <1>3, <1>4, <1>5, <1>6, <1>7, <1>8, <1>9
     DEF Methods, PlacedTable

\* Only the five take the 200 of another operation's GET for success.
LEMMA OnlyFiveMistaken ==
    ASSUME NEW m \in Methods, NEW a \in Answers, a.status = 200,
           Requests[m.op].verb # "GET", HasTwin(m.op),
           OutcomeOf(m, a) = "result"
    PROVE  m \in Mistakable
<1>1. m.op \notin ReadOps
  BY OpsExist, RequestsSorted DEF Sorted, Operations
<1>2. m.op \notin LoneOps
  BY OpsExist, RequestsSorted DEF Sorted, Operations, HasTwin
<1>3. Succeeds(m, a) /\ m.rule # "raw"
  BY DEF OutcomeOf, ErrorOf
<1>4. ~(m.rule \in {"body", "id"} /\ m.status # 200)
  BY <1>3 DEF Succeeds, HasBody
<1> QED
  BY <1>1, <1>2, <1>3, <1>4, MethodsPlaced DEF Placed

-----------------------------------------------------------------------------
\* The initial state satisfies the invariant.
LEMMA InvInit == Init => Inv
<1> SUFFICES ASSUME Init PROVE Inv
  OBVIOUS
<1>1. TypeOK
  <2>1. left \in 0..(MaxRows + 1) /\ hops \in 0..MaxHops
    BY ApiAssumption DEF Init
  <2>2. method \in Methods \union {NoMethod}
    BY Zenon DEF Init
  <2>3. reply \in Answers \union {NoAnswer}
    BY Zenon DEF Init
  <2>4. outcome \in Outcomes
    BY DEF Init, Outcomes
  <2>5. /\ pc = "idle" /\ request = "none"
        /\ ctxEnded = FALSE /\ turned = FALSE /\ applied = FALSE
    BY DEF Init
  <2> QED BY <2>1, <2>2, <2>3, <2>4, <2>5 DEF TypeOK
<1>2. Phased /\ OutcomeHonest
  BY DEF Init, Phased, OutcomeHonest
<1> QED BY <1>1, <1>2 DEF Inv

\* An answer to a sound method is mapped to an honest outcome.
LEMMA OutcomeSound ==
    ASSUME NEW m \in Methods, NEW a \in Answers
    PROVE  /\ OutcomeOf(m, a) \in Outcomes \ {"none", "encoding"}
           /\ OutcomeOf(m, a) = "result" => a.status \in Successes
           /\ OutcomeOf(m, a) = "reason" => a.status \notin Successes
           /\ OutcomeOf(m, a) = "unexpected" /\ m.rule = "2xx" =>
                 a.status \notin Successes
<1>1. SoundMethod(m)
  BY MethodsSound
<1>2. Succeeds(m, a) => a.status \in Successes
  BY <1>1, ApiAssumption
     DEF Succeeds, SoundMethod, HasBody, Answers, Successes
<1>3. ErrorOf(m, a) \in {"reason", "unexpected"}
  BY DEF ErrorOf
<1>4. ErrorOf(m, a) = "reason" => a.status \notin Successes
  BY <1>1 DEF ErrorOf, SoundMethod
<1>5. m.rule = "2xx" /\ a.status \in Successes => Succeeds(m, a)
  BY DEF Succeeds, Successes
<1> QED BY <1>2, <1>3, <1>4, <1>5 DEF OutcomeOf, Outcomes

\* The steps of the caller up to the answer.
LEMMA CallerStep ==
    ASSUME Inv, (\E m \in Methods : Call(m)) \/ Prepare \/ Request
    PROVE  Inv'
<1> USE ApiAssumption DEF Inv, TypeOK, Phased, OutcomeHonest, Outcomes, Return
<1>1. ASSUME NEW m \in Methods, Call(m) PROVE Inv'
  BY <1>1, MethodsSound DEF Call, SoundMethod, path
<1>2. CASE Prepare
  BY <1>2 DEF Prepare, EncodeRow, RowFails, BodyFails, Encoded, path
<1>3. CASE Request
  BY <1>3 DEF Request, Send, NotSent, path
<1> QED BY <1>1, <1>2, <1>3

\* Every step keeps the invariant.
LEMMA InvStep == Inv /\ [Next]_vars => Inv'
<1> SUFFICES ASSUME Inv, [Next]_vars PROVE Inv'
  OBVIOUS
<1> USE ApiAssumption DEF Inv, TypeOK, Phased, OutcomeHonest, Outcomes, Return
<1>1. CASE UNCHANGED vars
  BY <1>1 DEF vars, path
<1>2. CASE AnswerArrives
  <2>1. method \in Methods /\ reply \in Answers
    BY <1>2 DEF AnswerArrives
  <2>2. OutcomeOf(method, reply) = "result" =>
            applied \/ (turned /\ method \in Mistakable)
    BY <1>2, <2>1, OutcomeSound, OnlyFiveMistaken DEF AnswerArrives
  <2> QED BY <1>2, <2>1, <2>2, OutcomeSound DEF AnswerArrives, path
<1>3. CASE CutOff \/ Break
  BY <1>3 DEF CutOff, Break, path
<1>4. CASE EndCtx
  BY <1>4 DEF EndCtx, path
<1>5. CASE Redirect
  <2>1. turned' \in BOOLEAN /\ (turned' => Requests[method.op].verb # "GET")
    <3>1. turned' = turned \/ turned' = (Requests[method.op].verb # "GET")
      BY <1>5 DEF Redirect
    <3>2. turned \in BOOLEAN /\ (turned => Requests[method.op].verb # "GET")
      OBVIOUS
    <3> HIDE DEF Inv, TypeOK, Phased, OutcomeHonest
    <3>3. turned' \in BOOLEAN
      BY <3>1, <3>2, Zenon
    <3>4. turned' => Requests[method.op].verb # "GET"
      BY <3>1, <3>2, Zenon
    <3> QED BY <3>3, <3>4, Zenon
  <2>2. hops' \in 0..MaxHops
    BY <1>5 DEF Redirect
  <2>3. UNCHANGED <<pc, method, left, ctxEnded, request, reply, applied,
                    outcome>>
    BY <1>5 DEF Redirect
  <2>4. request = "out"
    BY <1>5 DEF Redirect
  <2> QED BY <2>1, <2>2, <2>3, <2>4
<1>6. ASSUME NEW a \in Answers, Serve(a) PROVE Inv'
  <2>1. /\ reply' = a
        /\ a.status \in Successes /\ ~turned => applied'
        /\ applied' => a.status \in Successes \/ a.status >= 500
    BY <1>6 DEF Serve
  <2>2. applied' \in BOOLEAN
    BY <1>6 DEF Serve
  <2> HIDE DEF Phased, OutcomeHonest
  <2>3. TypeOK'
    BY <1>6, <2>1, <2>2 DEF Serve, path
  <2>4. Phased'
    BY <1>6, <2>1 DEF Serve, Phased, path
  <2>5. OutcomeHonest'
    BY <1>6 DEF Serve, Phased, OutcomeHonest, path
  <2> QED BY <2>3, <2>4, <2>5
<1>7. CASE (\E m \in Methods : Call(m)) \/ Prepare \/ Request
  BY <1>7, CallerStep
<1> QED BY <1>1, <1>2, <1>3, <1>4, <1>5, <1>6, <1>7 DEF Next

\* Inv holds in every reachable state.
LEMMA Invariance == Spec => []Inv
  BY InvInit, InvStep, PTL DEF Spec

-----------------------------------------------------------------------------
\* Every reachable state is type-correct; no answer makes a method panic.
THEOREM TypeCorrect == Spec => []TypeOK
<1>1. Inv => TypeOK
  BY DEF Inv
<1> QED BY <1>1, Invariance, PTL

\* What a method returns is true of the server, whatever it answers and
\* however late it acts.
THEOREM OutcomesHonest == Spec => []OutcomeHonest
<1>1. Inv => OutcomeHonest
  BY DEF Inv
<1> QED BY <1>1, Invariance, PTL
=============================================================================
