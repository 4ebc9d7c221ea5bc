----------------------------- MODULE Capability -----------------------------
(***************************************************************************)
(* One request of a capability whose answer drives the web page: the host  *)
(* sends the model what it opens (agent_step, agent_row_plan and           *)
(* agent_task_step), and executeV2 asks for an answer, checks it, has an   *)
(* answer that fails repaired once, and stores the answer that passes or   *)
(* fails the request.  Gateway models what surrounds this loop.            *)
(***************************************************************************)
EXTENDS RowPlan, TaskStep

CONSTANTS
    StepRequests, PlanRequests, TaskRequests,   \* what hosts may send
    StepAnswers, PlanAnswers, TaskAnswers       \* what the model may answer

\* Requests are records of their fields, and their parts a list.
ASSUME RequestsAssumption ==
    /\ \A q \in StepRequests : DOMAIN q = StepFields /\ DOMAIN q.parts \subseteq Nat
    /\ \A t \in TaskRequests : DOMAIN t = TaskFields

MaxAttempts == 2

VARIABLES
    stage,     \* "none", "asking", "stored" or "failed"
    kind,      \* the capability
    request,
    calls,     \* model calls made for it
    answer,    \* the answer it ended with, None if it had none
    code       \* failure code

vars == <<stage, kind, request, calls, answer, code>>

Init ==
    /\ stage = "none" /\ kind = "none" /\ request = None
    /\ calls = 0 /\ answer = None /\ code = "none"

\* The handler of the capability: only valid requests are run.
Submit ==
    /\ stage = "none" /\ stage' = "asking"
    /\ \/ kind' = "agent_step" /\ request' \in {q \in StepRequests : ValidStep(q)}
       \/ kind' = "agent_row_plan" /\ request' \in {r \in PlanRequests : ValidRowPlan(r)}
       \/ kind' = "agent_task_step" /\ request' \in {t \in TaskRequests : ValidTask(t)}
    /\ UNCHANGED <<calls, answer, code>>

Answers ==
    CASE kind = "agent_step" -> StepAnswers
      [] kind = "agent_row_plan" -> PlanAnswers
      [] kind = "agent_task_step" -> TaskAnswers
      [] OTHER -> {}

\* spec.Post
Post(sent, a) ==
    CASE kind = "agent_step" -> validateAgentStepOutput(sent, a)
      [] kind = "agent_row_plan" -> validateAgentRowPlanOutput(sent, a)
      [] OTHER -> validateTaskAgentOutput(sent, a)
Verdict(a) == Post(request, a)

End(how, a, why) ==
    /\ stage' = how /\ answer' = a /\ code' = why
    /\ UNCHANGED <<kind, request>>

Accept(a) ==
    /\ stage = "asking" /\ Verdict(a) = "ok"
    /\ calls' = calls + 1 /\ End("stored", a, "none")

\* An answer that fails, or was cut off, goes back to the model with the reason, once.
Repair ==
    /\ stage = "asking" /\ calls + 1 < MaxAttempts
    /\ calls' = calls + 1
    /\ UNCHANGED <<stage, kind, request, answer, code>>
GiveUp ==
    /\ stage = "asking" /\ calls + 1 = MaxAttempts
    /\ calls' = calls + 1 /\ End("failed", None, "AI_OUTPUT_INVALID")
Truncated == Repair \/ GiveUp
Invalid(a) == stage = "asking" /\ Verdict(a) = "invalid" /\ (Repair \/ GiveUp)

\* The verdict that leaves the step to the host ends the request.
NotApplicable(a) ==
    /\ stage = "asking" /\ Verdict(a) = "not_applicable"
    /\ calls' = calls + 1 /\ End("failed", a, "AI_ACTION_NOT_APPLICABLE")

\* The call itself fails (upstream, budget, cancellation), or nothing could be sent.
CallFails ==
    /\ stage = "asking" /\ End("failed", None, "AI_EXECUTION_FAILED")
    /\ calls' \in {calls, calls + 1}

Next ==
    \/ Submit \/ Truncated \/ CallFails
    \/ \E a \in Answers : Accept(a) \/ Invalid(a) \/ NotApplicable(a)

Spec == Init /\ [][Next]_vars

-----------------------------------------------------------------------------
StoredStep == stage = "stored" /\ kind = "agent_step"
StoredPlan == stage = "stored" /\ kind = "agent_row_plan"
StoredTask == stage = "stored" /\ kind = "agent_task_step"

\* What a host does with an action: nodes it operates, text it writes, values it uses.
Operated(action) == {action.target, action.option} \ {None}
Written(action) == IF action.op = "replace-text" THEN {action.target} ELSE {}
Used(action) ==
    (IF action.op = "replace-text" THEN {action.valueRef} ELSE {})
    \cup (IF action.op = "run-skill" /\ action.inputs # None
          THEN {action.inputs[i] : i \in DOMAIN action.inputs} ELSE {})
    \cup (IF action.slice # None THEN {action.valueRef} ELSE {})

PartRefs(q) == IF q.version = 1 THEN {q.parts[i].ref : i \in DOMAIN q.parts} ELSE {}
\* What the model was shown of the value a reference stands for.
Shown(q, ref) ==
    (IF ref = q.valueRef THEN {q.hint} ELSE {})
    \cup {q.parts[i].hint : i \in {k \in DOMAIN q.parts :
             q.parts[k].ref = ref \/ (ref = q.valueRef /\ q.parts[k].id = "value")}}

StepGrounded(q, action) ==
    /\ Operated(action) \subseteq q.projected \ q.forbidden
    /\ q.version = 1 => Operated(action) \subseteq q.allowed
    /\ action.target \notin q.submit
    /\ Written(action) \cap q.readOnly = {}
    /\ Used(action) \subseteq {q.valueRef} \cup PartRefs(q)
    /\ action.op = "run-skill" => action.skill \in q.skills
    /\ action.slice # None =>
         \E hint \in Shown(q, action.valueRef) : action.slice.end <= hint

PlanGrounded(r, step) ==
    LET goal == r.goals[step.goal]
    IN  /\ Operated(step.action) \subseteq (r.projected \cap goal.actions)
                                             \ (r.submit \cup goal.forbidden)
        /\ Written(step.action) \cap r.readOnly = {}
        /\ Used(step.action) \subseteq {GoalValue}
        /\ step.action.op = "run-skill" => step.action.skill \in goal.skills
        /\ \A e \in step.evidence : e.node # None => e.node \in r.projected

TaskGrounded(t, call) ==
    /\ call.name \in DOMAIN t.tools
    /\ {p \in DOMAIN t.tools[call.name].parameters : t.tools[call.name].parameters[p].required}
         \subseteq DOMAIN call.arguments
    /\ DOMAIN call.arguments \subseteq DOMAIN t.tools[call.name].parameters
    /\ {"null", "oversized"} \cap {call.arguments[p] : p \in DOMAIN call.arguments} = {}

\* Whatever the model says, and in both versions of the protocol, an answer that is
\* stored operates only nodes, and uses only values, parts of values, skills and
\* tools, that its request opened; a step neither submits nor writes to a read-only
\* control, and a tool has its arguments (the three validate...Output functions).
AnswerIsGrounded ==
    /\ StoredStep /\ answer.status = "act" => StepGrounded(request, answer.action)
    /\ StoredPlan /\ answer.status = "planned" =>
         \A i \in DOMAIN answer.steps : PlanGrounded(request, answer.steps[i])
    /\ StoredTask /\ answer.status = "tool" => TaskGrounded(request, answer.tool)

\* The answer without the candidate it chose for a hand-over.
Unselected(a) ==
    [status |-> a.status, echoed |-> a.echoed, action |-> a.action, context |-> a.context,
     evidence |-> a.evidence, userRequest |-> a.userRequest, selection |-> None]

\* "只描述宿主冻结版本的局部子目标，不增加工具、节点或来源权限" (adapter_handoff.go):
\* what is accepted during a hand-over, of a step or of a task, would be without it.
HandoffAddsNoPermission ==
    StoredStep \/ StoredTask =>
      Post([request EXCEPT !.handoff = None],
           IF StoredStep THEN Unselected(answer) ELSE answer) = "ok"

\* The request and the answer of a single step with the goal of a row.
StepFor(r, goal, version) ==
    [version |-> version, recovery |-> 0, goalKind |-> "set-field-value",
     projected |-> r.projected, regions |-> r.regions, forbidden |-> goal.forbidden,
     allowed |-> IF version = 1 THEN goal.actions \ goal.forbidden ELSE {},
     submit |-> r.submit, readOnly |-> r.readOnly, skills |-> goal.skills,
     transforms |-> goal.transforms, valueRef |-> GoalValue, hint |-> 0, parts |-> <<>>,
     learning |-> FALSE, visual |-> FALSE, handoffId |-> None, handoff |-> None]
AsStep(step) ==
    [status |-> "act", echoed |-> TRUE, action |-> step.action, context |-> None,
     evidence |-> step.evidence, userRequest |-> FALSE, selection |-> None]

\* "与插件的单步/行计划协议一致" (interaction.go): the two checks are written apart, and
\* yet each step of a plan that is stored would pass as a single step for its goal, in
\* either version of the protocol (version 1 takes no key that is null).
PlanStepsAreSteps ==
    StoredPlan /\ answer.status = "planned" =>
      \A i \in DOMAIN answer.steps, version \in {0, 1} :
        version = 0 \/ answer.steps[i].action.null = {} =>
          LET step == answer.steps[i]
              q == StepFor(request, request.goals[step.goal], version)
          IN  ValidStep(q) /\ validateAgentStepOutput(q, AsStep(step)) = "ok"

\* "对于引用、权限和格式校验已通过的 readonly 文本写入，直接返回 422 …，不执行原有格式
\* 重试。其他协议错误仍按原规则处理": a request ends with AI_ACTION_NOT_APPLICABLE only
\* for a write that would have been stored if the control could be written to, and
\* that a host without recovery would have had repaired.
NotApplicableIsOtherwiseValid ==
    code = "AI_ACTION_NOT_APPLICABLE" =>
      /\ request.recovery = 1 /\ request.handoff = None
      /\ validateAgentStepOutput([request EXCEPT !.readOnly = {}], answer) = "ok"
      /\ validateAgentStepOutput([request EXCEPT !.recovery = 0], answer) = "invalid"
=============================================================================
