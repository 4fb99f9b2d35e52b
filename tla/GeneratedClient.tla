-------------------------- MODULE GeneratedClient --------------------------
(***************************************************************************)
(* The operations of the generated client (generated/client.gen.go), as    *)
(* the wrappers and the worker rely on them.  Every operation has a        *)
(* builder of its request and a function that parses its answer; the       *)
(* tables follow the file, so each stands for the functions of one stretch *)
(* of it, and a stretch ends where query parameters are put together.  The *)
(* methods between the two are all alike: build, attach ctx, run the       *)
(* request editors, Do, parse.  ApiCalls has those steps.                  *)
(*                                                                         *)
(* Path and query parameters are copied into the URL as they are and are   *)
(* left out.                                                               *)
(***************************************************************************)
\* A request: its verb, the template of its path, and whether a body is
\* encoded as JSON.  Paths continue /projects/%s/ unless they begin with a
\* slash.
Get(path)        == [verb |-> "GET", path |-> path, json |-> FALSE]
Bare(verb, path) == [verb |-> verb,  path |-> path, json |-> FALSE]
Json(verb, path) == [verb |-> verb,  path |-> path, json |-> TRUE]

\* The function that is each of the tables on its domain.
Merge(tables) ==
    [op \in UNION {DOMAIN t : t \in tables} |->
        (CHOOSE t \in tables : op \in DOMAIN t)[op]]

-----------------------------------------------------------------------------
(* The request builders. *)

DesignRequests ==
    [EvaluateDesign |-> Json("POST", "/dmn/evaluate/design"),
     EvaluateDesignBatch |-> Json("POST", "/dmn/evaluate/design/batch"),
     ListProjects |-> Get("/projects"),
     GetProject |-> Get("/projects/%s")]
JobListRequests ==
    [ListBpmnExternalJobs |-> Get("bpmn/external-jobs")]
JobBatchRequests ==
    [CompleteBpmnExternalJobsBatch |->
         Json("POST", "bpmn/external-jobs/batch/complete"),
     ThrowBpmnExternalJobErrorsBatch |->
         Json("POST", "bpmn/external-jobs/batch/error"),
     PollBpmnExternalJobs |-> Json("POST", "bpmn/external-jobs/poll")]
JobDepthRequests ==
    [GetBpmnExternalJobsQueueDepth |-> Get("bpmn/external-jobs/queue-depth")]
JobReportRequests ==
    [CompleteBpmnExternalJob |->
         Json("POST", "bpmn/external-jobs/%s/complete")]
JobHoldRequests ==
    [ThrowBpmnExternalJobError |-> Json("POST", "bpmn/external-jobs/%s/error"),
     HeartbeatBpmnExternalJob |->
         Json("POST", "bpmn/external-jobs/%s/heartbeat")]
IncidentListRequests ==
    [ListBpmnIncidents |-> Get("bpmn/incidents")]
InstanceListRequests ==
    [ListBpmnInstances |-> Get("bpmn/instances")]
InstanceRequests ==
    [StartBpmnInstance |-> Json("POST", "bpmn/instances"),
     CancelBpmnInstance |-> Bare("DELETE", "bpmn/instances/%s"),
     GetBpmnInstance |-> Get("bpmn/instances/%s")]
AdHocRequests ==
    [TriggerBpmnAdHocNode |->
         Json("POST", "bpmn/instances/%s/adhoc/%s/trigger"),
     SetBpmnAdHocVariables |->
         Json("POST", "bpmn/instances/%s/adhoc/%s/variables")]
HistoryRequests ==
    [GetBpmnInstanceChildren |-> Get("bpmn/instances/%s/children"),
     GetBpmnInstanceHistory |-> Get("bpmn/instances/%s/history")]
RepairRequests ==
    [GetBpmnInstanceHistoryEntry |-> Get("bpmn/instances/%s/history/%s"),
     ResolveBpmnIncident |->
         Json("POST", "bpmn/instances/%s/incidents/%s/resolve")]
MigrationRequests ==
    [MigrateBpmnInstance |-> Json("POST", "bpmn/instances/%s/migrate"),
     ValidateBpmnInstanceMigration |->
         Json("POST", "bpmn/instances/%s/migrate/validate")]
SuspensionRequests ==
    [ModifyBpmnInstance |-> Json("POST", "bpmn/instances/%s/modify"),
     ResumeBpmnInstance |-> Bare("POST", "bpmn/instances/%s/resume"),
     SuspendBpmnInstance |-> Json("POST", "bpmn/instances/%s/suspend")]
VariableRequests ==
    [GetBpmnInstanceVariables |-> Get("bpmn/instances/%s/variables"),
     UpdateBpmnInstanceVariables |->
         Json("PUT", "bpmn/instances/%s/variables"),
     PublishBpmnMessage |-> Json("POST", "bpmn/messages")]
ProcessListRequests ==
    [ListBpmnProcesses |-> Get("bpmn/processes")]
VersionListRequests ==
    [ListBpmnProcessVersions |-> Get("bpmn/processes/%s/versions")]
VersionRequests ==
    [GetBpmnProcessVersion |-> Get("bpmn/processes/%s/versions/%s")]
ResourceRequests ==
    [ResumeBpmnDefinition |->
         Bare("POST", "bpmn/processes/%s/versions/%s/resume"),
     SuspendBpmnDefinition |->
         Json("POST", "bpmn/processes/%s/versions/%s/suspend"),
     ListBpmnResources |-> Get("bpmn/resources")]
ResourceListRequests ==
    [CreateBpmnResource |-> Json("POST", "bpmn/resources"),
     ListBpmnResourcesByDefinitionsID |->
         Get("bpmn/resources/by-definitions-id/%s")]
LatestResourceRequests ==
    [ListLatestBpmnResources |-> Get("bpmn/resources/latest")]
DraftRequests ==
    [DeleteBpmnResource |-> Bare("DELETE", "bpmn/resources/%s"),
     GetBpmnResource |-> Get("bpmn/resources/%s"),
     UpdateBpmnResource |-> Json("PUT", "bpmn/resources/%s")]
SignalRequests ==
    [DeployBpmnResource |-> Bare("POST", "bpmn/resources/%s/deploy"),
     StartBpmnTestInstance |-> Json("POST", "bpmn/resources/%s/test"),
     PublishBpmnSignal |-> Json("POST", "bpmn/signals")]
TaskListRequests ==
    [ListBpmnUserTasks |-> Get("bpmn/user-tasks")]
OwnTaskRequests ==
    [ListBpmnUserTasksForCaller |-> Get("bpmn/user-tasks/me")]
TaskRequests ==
    [GetBpmnUserTask |-> Get("bpmn/user-tasks/%s"),
     UpdateBpmnUserTaskAssignment |-> Json("PATCH", "bpmn/user-tasks/%s"),
     CompleteBpmnUserTask |-> Json("POST", "bpmn/user-tasks/%s/complete")]
TaskErrorRequests ==
    [ThrowBpmnUserTaskError |-> Json("POST", "bpmn/user-tasks/%s/error"),
     ValidateBpmnXml |-> Json("POST", "bpmn/validate")]
DecisionRequests ==
    [ListDecisions |-> Get("dmn/decisions")]
DefinitionListRequests ==
    [ListDecisionVersions |-> Get("dmn/decisions/%s/versions"),
     ListDefinitions |-> Get("dmn/definitions")]
CreateDefinitionRequests ==
    [CreateDefinition |-> Json("POST", "dmn/definitions"),
     GetDefinitionByDefinitionsID |->
         Get("dmn/definitions/by-definitions-id/%s")]
EvaluationRequests ==
    [EvaluateByDefinitionsID |->
         Json("POST", "dmn/definitions/by-definitions-id/%s/evaluate")]
DefinitionVersionRequests ==
    [ListDefinitionVersions |->
         Get("dmn/definitions/by-definitions-id/%s/versions")]
LatestDefinitionRequests ==
    [ListLatestDefinitions |-> Get("dmn/definitions/latest")]
DefinitionRequests ==
    [DeleteDefinition |-> Bare("DELETE", "dmn/definitions/%s"),
     GetDefinition |-> Get("dmn/definitions/%s"),
     UpdateDefinition |-> Json("PUT", "dmn/definitions/%s")]
DeployRequests ==
    [DeployDefinition |-> Bare("POST", "dmn/definitions/%s/deploy")]
ExecutionListRequests ==
    [ListProjectExecutions |-> Get("dmn/executions")]
ExecutionRequests ==
    [GetExecution |-> Get("dmn/executions/%s"),
     GetVersion |-> Get("/version")]

RequestTables ==
    {DesignRequests, JobListRequests, JobBatchRequests, JobDepthRequests,
     JobReportRequests, JobHoldRequests, IncidentListRequests,
     InstanceListRequests, InstanceRequests, AdHocRequests, HistoryRequests,
     RepairRequests, MigrationRequests, SuspensionRequests, VariableRequests,
     ProcessListRequests, VersionListRequests, VersionRequests,
     ResourceRequests, ResourceListRequests, LatestResourceRequests,
     DraftRequests, SignalRequests, TaskListRequests, OwnTaskRequests,
     TaskRequests, TaskErrorRequests, DecisionRequests,
     DefinitionListRequests, CreateDefinitionRequests, EvaluationRequests,
     DefinitionVersionRequests, LatestDefinitionRequests, DefinitionRequests,
     DeployRequests, ExecutionListRequests, ExecutionRequests}
Requests == Merge(RequestTables)

Operations == DOMAIN Requests

-----------------------------------------------------------------------------
(* The statuses whose JSON body the parse function decodes.  A body that   *)
(* does not decode makes the whole call an error.                          *)

DesignBodies ==
    [EvaluateDesign |-> {200, 400, 500},
     EvaluateDesignBatch |-> {200, 400, 500}, ListProjects |-> {200, 500}]
ProjectBodies ==
    [GetProject |-> {200, 400, 404, 500}, ListBpmnExternalJobs |-> {200},
     CompleteBpmnExternalJobsBatch |-> {200},
     ThrowBpmnExternalJobErrorsBatch |-> {200}]
JobBodies ==
    [PollBpmnExternalJobs |-> {200, 400},
     GetBpmnExternalJobsQueueDepth |-> {200},
     CompleteBpmnExternalJob |-> {404, 409},
     ThrowBpmnExternalJobError |-> {404, 409}]
InstanceBodies ==
    [HeartbeatBpmnExternalJob |-> {400, 404, 409},
     ListBpmnIncidents |-> {200}, ListBpmnInstances |-> {200},
     StartBpmnInstance |-> {201, 400, 401, 404, 500}]
InstanceStateBodies ==
    [CancelBpmnInstance |-> {400, 404}, GetBpmnInstance |-> {200, 404},
     TriggerBpmnAdHocNode |-> {}, SetBpmnAdHocVariables |-> {},
     GetBpmnInstanceChildren |-> {200}]
HistoryBodies ==
    [GetBpmnInstanceHistory |-> {200, 404},
     GetBpmnInstanceHistoryEntry |-> {200, 404}, ResolveBpmnIncident |-> {},
     MigrateBpmnInstance |-> {}, ValidateBpmnInstanceMigration |-> {200}]
VariableBodies ==
    [ModifyBpmnInstance |-> {400, 404}, ResumeBpmnInstance |-> {},
     SuspendBpmnInstance |-> {}, GetBpmnInstanceVariables |-> {200},
     UpdateBpmnInstanceVariables |-> {}, PublishBpmnMessage |-> {400}]
ProcessBodies ==
    [ListBpmnProcesses |-> {200, 401, 500},
     ListBpmnProcessVersions |-> {200, 401, 500},
     GetBpmnProcessVersion |-> {200, 401, 404, 500}]
ResourceListBodies ==
    [ResumeBpmnDefinition |-> {}, SuspendBpmnDefinition |-> {},
     ListBpmnResources |-> {200}, CreateBpmnResource |-> {201, 409},
     ListBpmnResourcesByDefinitionsID |-> {200, 401, 500}]
ResourceBodies ==
    [ListLatestBpmnResources |-> {200, 401, 500},
     DeleteBpmnResource |-> {409}, GetBpmnResource |-> {200, 404},
     UpdateBpmnResource |-> {200, 409}]
DraftBodies ==
    [DeployBpmnResource |-> {400, 401, 404, 409, 500},
     StartBpmnTestInstance |-> {201, 400, 401, 404, 500},
     PublishBpmnSignal |-> {400}]
UserTaskBodies ==
    [ListBpmnUserTasks |-> {200}, ListBpmnUserTasksForCaller |-> {200},
     GetBpmnUserTask |-> {200}, UpdateBpmnUserTaskAssignment |-> {200, 400},
     CompleteBpmnUserTask |-> {409}]
DecisionBodies ==
    [ThrowBpmnUserTaskError |-> {409}, ValidateBpmnXml |-> {200},
     ListDecisions |-> {200, 500}, ListDecisionVersions |-> {200, 500}]
DefinitionListBodies ==
    [ListDefinitions |-> {200, 400, 404, 500},
     CreateDefinition |-> {201, 400, 404, 409, 500},
     GetDefinitionByDefinitionsID |-> {200, 404, 500}]
EvaluationBodies ==
    [EvaluateByDefinitionsID |-> {200, 400, 404, 500},
     ListDefinitionVersions |-> {200, 400, 404, 500},
     ListLatestDefinitions |-> {200, 400, 404, 500}]
DefinitionBodies ==
    [DeleteDefinition |-> {400, 404, 409, 500},
     GetDefinition |-> {200, 400, 404, 500},
     UpdateDefinition |-> {200, 400, 404, 409, 500}]
ExecutionBodies ==
    [DeployDefinition |-> {200, 400, 404, 409, 500},
     ListProjectExecutions |-> {200, 400, 404, 500},
     GetExecution |-> {200, 400, 404, 500}]
VersionBodies ==
    [GetVersion |-> {200}]

Decoded ==
    Merge({DesignBodies, ProjectBodies, JobBodies, InstanceBodies,
            InstanceStateBodies, HistoryBodies, VariableBodies, ProcessBodies,
            ResourceListBodies, ResourceBodies, DraftBodies, UserTaskBodies,
            DecisionBodies, DefinitionListBodies, EvaluationBodies,
            DefinitionBodies, ExecutionBodies, VersionBodies})

-----------------------------------------------------------------------------
\* A GET of the same path: what a request becomes if a redirect makes
\* net/http send it again as a GET.
HasTwin(op) ==
    \E twin \in Operations : /\ Requests[twin].verb = "GET"
                            /\ Requests[twin].path = Requests[op].path
=============================================================================
