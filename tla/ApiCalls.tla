----------------------------- MODULE ApiCalls -----------------------------
(***************************************************************************)
(* A call of a method of bpmn.Client or dmn.Client, or of an operation of  *)
(* the generated client itself (Client.Raw).  The methods share no state,  *)
(* so one call stands for all: variables are encoded, the request gets its *)
(* token and goes out, and the answer becomes a result or an error.  What  *)
(* the methods differ in is a table.                                       *)
(*                                                                         *)
(* The server and what lies before it are external.  A request may be      *)
(* redirected on its way; it is acted on or refused, possibly long after   *)
(* the caller has given up on it; and the answer may be one the method     *)
(* does not expect.                                                        *)
(***************************************************************************)
EXTENDS Integers, GeneratedClient

CONSTANTS
    MaxRows,        \* bound on the rows of a batch evaluation
    MaxHops,        \* bound on the redirects that net/http follows
    Refusals        \* the error statuses the server may answer with

ASSUME ApiAssumption ==
    MaxRows \in Nat /\ MaxHops \in Nat /\ Refusals \subseteq 400..599

VARIABLES
    pc,         \* where the call is
    method,     \* the method called
    left,       \* the contexts still to be encoded
    ctxEnded,   \* the caller's ctx has ended
    request,    \* "none", "out" on its way, "served"
    hops,       \* the redirects followed
    turned,     \* a redirect has made the request a GET
    reply,      \* the server's answer
    applied,    \* the server has done what the call asks for
    outcome     \* what the call returned

path == <<hops, turned>>
vars == <<pc, method, left, ctxEnded, request, path, reply, applied, outcome>>

-----------------------------------------------------------------------------
(* The methods: the operation behind each, which answer is a success,      *)
(* which error bodies are turned into the error's text, and how many       *)
(* contexts are encoded first.                                             *)

Gives(op, status, reasons) ==
    [op |-> op, rule |-> "body", status |-> status, reasons |-> reasons,
     rows |-> {0}]
Starts(op) ==
    [op |-> op, rule |-> "id", status |-> 201, reasons |-> {}, rows |-> {0}]
Does(op, reasons) ==
    [op |-> op, rule |-> "2xx", status |-> 0, reasons |-> reasons,
     rows |-> {0}]
Evaluates(op, reasons, rows) ==
    [op |-> op, rule |-> "body", status |-> 200, reasons |-> reasons,
     rows |-> rows]
\* The answer is handed to the caller as it is.
Raw(op) ==
    [op |-> op, rule |-> "raw", status |-> 0, reasons |-> {}, rows |-> {0}]

InstanceMethods ==
    [StartInstance           |-> Starts("StartBpmnInstance"),
     GetInstance             |-> Gives("GetBpmnInstance", 200, {}),
     CancelInstance          |-> Does("CancelBpmnInstance", {}),
     ListInstances           |-> Gives("ListBpmnInstances", 200, {}),
     GetInstanceChildren     |-> Gives("GetBpmnInstanceChildren", 200, {}),
     GetInstanceHistory      |-> Gives("GetBpmnInstanceHistory", 200, {404}),
     GetInstanceHistoryEntry |->
         Gives("GetBpmnInstanceHistoryEntry", 200, {404}),
     GetInstanceVariables    |-> Gives("GetBpmnInstanceVariables", 200, {}),
     UpdateInstanceVariables |-> Does("UpdateBpmnInstanceVariables", {}),
     ResolveIncident         |-> Does("ResolveBpmnIncident", {})]

ResourceMethods ==
    [CreateResource    |-> Gives("CreateBpmnResource", 201, {409}),
     UpdateResource    |-> Gives("UpdateBpmnResource", 200, {}),
     DeleteResource    |-> Does("DeleteBpmnResource", {}),
     GetResource       |-> Gives("GetBpmnResource", 200, {}),
     DeployResource    |-> Does("DeployBpmnResource", {400, 409, 500}),
     StartTestInstance |-> Starts("StartBpmnTestInstance"),
     ValidateXML       |-> Gives("ValidateBpmnXml", 200, {})]

ResourceLists ==
    [ListResources        |-> Gives("ListBpmnResources", 200, {}),
     ListLatestResources  |-> Gives("ListLatestBpmnResources", 200, {}),
     ListResourceVersions |->
         Gives("ListBpmnResourcesByDefinitionsID", 200, {})]

MessagingMethods ==
    [PublishMessage |-> Does("PublishBpmnMessage", {}),
     PublishSignal  |-> Does("PublishBpmnSignal", {})]

ProcessMethods ==
    [ListProcesses       |-> Gives("ListBpmnProcesses", 200, {}),
     ListProcessVersions |-> Gives("ListBpmnProcessVersions", 200, {}),
     GetProcessVersion   |-> Gives("GetBpmnProcessVersion", 200, {404})]

UserTaskMethods ==
    [ListUserTasks            |-> Gives("ListBpmnUserTasks", 200, {}),
     ListUserTasksForCaller   |-> Gives("ListBpmnUserTasksForCaller", 200, {}),
     GetUserTask              |-> Gives("GetBpmnUserTask", 200, {}),
     UpdateUserTaskAssignment |->
         Gives("UpdateBpmnUserTaskAssignment", 200, {}),
     CompleteUserTask         |-> Does("CompleteBpmnUserTask", {}),
     ThrowUserTaskError       |-> Does("ThrowBpmnUserTaskError", {})]

EvaluateMethod ==
    [Evaluate |-> Evaluates("EvaluateByDefinitionsID", {400, 404, 500}, {1})]
DesignMethods ==
    [EvaluateDesign      |-> Evaluates("EvaluateDesign", {400, 500}, {1}),
     EvaluateDesignBatch |->
         Evaluates("EvaluateDesignBatch", {400, 500}, 0..MaxRows)]

RawMethods == {Raw(op) : op \in Operations}

Entries(table) == {table[name] : name \in DOMAIN table}

Methods ==
    UNION {Entries(InstanceMethods), Entries(ResourceMethods),
           Entries(ResourceLists), Entries(MessagingMethods),
           Entries(ProcessMethods), Entries(UserTaskMethods),
           Entries(EvaluateMethod), Entries(DesignMethods), RawMethods}

NoMethod ==
    [op |-> "none", rule |-> "none", status |-> 0, reasons |-> {},
     rows |-> {0}]

-----------------------------------------------------------------------------
(* Answers. *)

Successes == {200, 201, 202, 204}

\* A JSON body may lack an optional field ("partial"), or not decode
\* ("broken").
Answers ==
    [status : Successes \union Refusals,
     body   : {"none", "full", "partial", "broken"}]
NoAnswer == [status |-> 0, body |-> "none"]

\* The generated client has decoded the body declared for the status.
HasBody(m, a, status) ==
    /\ a.status = status
    /\ status \in Decoded[m.op]
    /\ a.body \in {"full", "partial"}

\* It fails the call if that body is not the JSON it should be.
Undecodable(m, a) == a.status \in Decoded[m.op] /\ a.body = "broken"

Succeeds_Mutant(m, a) ==        \* the status is not looked at
    \/ m.rule = "body" /\ HasBody(m, a, m.status)
    \/ m.rule = "id"   /\ HasBody(m, a, m.status) /\ a.body = "full"
    \/ m.rule = "2xx"

Succeeds(m, a) ==
    \/ m.rule = "body" /\ HasBody(m, a, m.status)
    \/ m.rule = "id"   /\ HasBody(m, a, m.status) /\ a.body = "full"
    \/ m.rule = "2xx"  /\ a.status \in 200..299

\* errorFromResponses: the server's reason, or the bare status.
ErrorOf(m, a) ==
    IF a.status \in m.reasons /\ HasBody(m, a, a.status) THEN "reason"
    ELSE "unexpected"

OutcomeOf_Mutant(m, a) ==   \* the instance's id is read without a check
    IF Undecodable(m, a) THEN "transport"
    ELSE IF m.rule = "id" /\ HasBody(m, a, m.status)
         THEN IF a.body = "full" THEN "result" ELSE "nil dereference"
    ELSE IF m.rule = "raw" THEN "response"
    ELSE IF Succeeds(m, a) THEN "result" ELSE ErrorOf(m, a)

OutcomeOf(m, a) ==
    IF Undecodable(m, a) THEN "transport"
    ELSE IF m.rule = "raw" THEN "response"
    ELSE IF Succeeds(m, a) THEN "result"
    ELSE ErrorOf(m, a)

-----------------------------------------------------------------------------
Init ==
    /\ pc = "idle"
    /\ method = NoMethod
    /\ left = 0
    /\ ctxEnded = FALSE
    /\ request = "none"
    /\ hops = 0
    /\ turned = FALSE
    /\ reply = NoAnswer
    /\ applied = FALSE
    /\ outcome = "none"

Call(m) ==
    /\ pc = "idle"
    /\ method' = m
    /\ left' \in m.rows
    /\ pc' = "encoding"
    /\ UNCHANGED <<ctxEnded, request, path, reply, applied, outcome>>

Return(o) ==
    /\ pc' = "done"
    /\ outcome' = o

\* ToFeelContext encodes the next context.
EncodeRow ==
    /\ pc = "encoding"
    /\ left > 0
    /\ left' = left - 1
    /\ UNCHANGED <<pc, method, ctxEnded, request, path, reply, applied,
                   outcome>>

RowFails ==
    /\ pc = "encoding"
    /\ left > 0
    /\ Return("encoding")
    /\ UNCHANGED <<method, left, ctxEnded, request, path, reply, applied>>

\* The request builder marshals the body.
BodyFails ==
    /\ pc = "encoding"
    /\ left = 0
    /\ Requests[method.op].json
    /\ Return("encoding")
    /\ UNCHANGED <<method, left, ctxEnded, request, path, reply, applied>>

Encoded ==
    /\ pc = "encoding"
    /\ left = 0
    /\ pc' = "token"
    /\ UNCHANGED <<method, left, ctxEnded, request, path, reply, applied,
                   outcome>>

\* The request editor has the token, and the request goes out unless ctx has
\* ended.
Send ==
    /\ pc = "token"
    /\ ~ctxEnded
    /\ pc' = "out"
    /\ request' = "out"
    /\ UNCHANGED <<method, left, ctxEnded, path, reply, applied, outcome>>

\* No token, or ctx has ended.
NotSent ==
    /\ pc = "token"
    /\ Return("transport")
    /\ UNCHANGED <<method, left, ctxEnded, request, path, reply, applied>>

\* The answer is decoded and mapped to what the call returns.
AnswerArrives ==
    /\ pc = "out"
    /\ request = "served"
    /\ Return(OutcomeOf(method, reply))
    /\ UNCHANGED <<method, left, ctxEnded, request, path, reply, applied>>

\* ctx ends the wait for the answer, wherever the request is by then.
CutOff ==
    /\ pc = "out"
    /\ ctxEnded
    /\ Return("transport")
    /\ UNCHANGED <<method, left, ctxEnded, request, path, reply, applied>>

\* External: the connection breaks, or there are too many redirects.
Break ==
    /\ pc = "out"
    /\ Return("transport")
    /\ UNCHANGED <<method, left, ctxEnded, request, path, reply, applied>>

\* External: something before the server answers with a redirect, which
\* net/http follows.  301, 302 and 303 make any request a GET; 307 and 308
\* keep it as it is.
Redirect ==
    /\ pc = "out"
    /\ request = "out"
    /\ ~ctxEnded
    /\ hops < MaxHops
    /\ hops' = hops + 1
    /\ turned' \in {turned, Requests[method.op].verb # "GET"}
    /\ UNCHANGED <<pc, method, left, ctxEnded, request, reply, applied,
                   outcome>>

\* External: the server acts on the request, or refuses it.  It may have
\* acted and answer with a 5xx all the same, or something between may, when
\* the server's own answer does not get there.  A request that has become a
\* GET does nothing: it is refused, or answered as the GET of the same path,
\* which succeeds with 200.
Serve(a) ==
    /\ request = "out"
    /\ turned /\ a.status \in Successes => a.status = 200 /\ HasTwin(method.op)
    /\ request' = "served"
    /\ reply' = a
    /\ \/ applied' = (a.status \in Successes /\ ~turned)
       \/ applied' = TRUE /\ a.status >= 500 /\ ~turned
    /\ UNCHANGED <<pc, method, left, ctxEnded, path, outcome>>

\* External: the caller cancels ctx, or its deadline passes.
EndCtx ==
    /\ ~ctxEnded
    /\ pc # "done"
    /\ ctxEnded' = TRUE
    /\ UNCHANGED <<pc, method, left, request, path, reply, applied, outcome>>

Prepare == EncodeRow \/ RowFails \/ BodyFails \/ Encoded
Request == Send \/ NotSent

Next ==
    \/ \E m \in Methods : Call(m)
    \/ Prepare \/ Request \/ AnswerArrives \/ CutOff
    \/ Break \/ EndCtx \/ Redirect
    \/ \E a \in Answers : Serve(a)

Spec == Init /\ [][Next]_vars

-----------------------------------------------------------------------------
Outcomes ==
    {"none", "result", "response", "reason", "unexpected", "transport",
     "encoding"}

\* Every variable has its type: no answer makes a method panic.
TypeOK ==
    /\ pc       \in {"idle", "encoding", "token", "out", "done"}
    /\ method   \in Methods \union {NoMethod}
    /\ left     \in 0..(MaxRows + 1)
    /\ ctxEnded \in BOOLEAN
    /\ request  \in {"none", "out", "served"}
    /\ hops     \in 0..MaxHops
    /\ turned   \in BOOLEAN
    /\ reply    \in Answers \union {NoAnswer}
    /\ applied  \in BOOLEAN
    /\ outcome  \in Outcomes

\* The methods that may take the answer to a GET of their path for success:
\* it has one, and 200 is what they expect.
Mistakable ==
    {InstanceMethods.CancelInstance, InstanceMethods.UpdateInstanceVariables,
     ResourceMethods.UpdateResource, ResourceMethods.DeleteResource,
     UserTaskMethods.UpdateUserTaskAssignment}

\* What a call returns can be relied on: with no error the server has done
\* what was asked, unless a redirect made the request a GET and the method is
\* one of five; an error with the server's reason means that it answered, and
\* below 500, as with any status below 500 that is not a success, that it has
\* refused for good; and when a context or a body does not encode nothing was
\* sent, not even the rows before it.
OutcomeHonest ==
    /\ outcome = "result" => applied \/ (turned /\ method \in Mistakable)
    /\ outcome = "reason" =>
          request = "served" /\ (applied => reply.status >= 500)
    /\ outcome = "unexpected" /\ method.rule = "2xx" =>
          (applied => reply.status >= 500)
    /\ outcome = "encoding" => request = "none" /\ ~applied
=============================================================================
