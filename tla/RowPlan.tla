------------------------------ MODULE RowPlan ------------------------------
(***************************************************************************)
(* What agent_row_plan lets through: one plan for the goals of a row, with *)
(* at most one step for each.  Its actions have the parameters of a single *)
(* step, but name the value by the placeholder GoalValue (valueRef and     *)
(* inputs stand for valueBinding and inputBindings).                       *)
(***************************************************************************)
EXTENDS AgentStep

CONSTANT GoalValue   \* "goal-value": the value of the step's own goal

ASSUME GoalValueAssumption == GoalValue # None

-----------------------------------------------------------------------------
\* AgentRowPlanReq.Validate; goals is a function from their ids.
ValidRowPlan(r) ==
    /\ None \notin r.projected \cup r.submit
    /\ r.readOnly \subseteq r.projected
    /\ DOMAIN r.goals # {}
    /\ \A id \in DOMAIN r.goals :
         LET goal == r.goals[id]
         IN  /\ goal.actions # {} /\ goal.evidence # {} /\ goal.transforms # {}
             /\ goal.actions \cup goal.evidence \subseteq r.projected

\* decodeAgentRowAction: the parameters an op has in a plan.
RowParameters(op) ==
    CASE op = "click" -> {"target"}
      [] op = "focus" -> {"target"}
      [] op = "replace-text" -> {"target", "valueRef", "transform"}
      [] op = "press-key" -> {"key", "target"}
      [] op = "select-native" -> {"target", "option"}
      [] op = "run-skill" -> {"skill", "target", "inputs"}
RowOps == {"click", "focus", "replace-text", "press-key", "select-native", "run-skill"}

CheckNode_AnyGoal(r, goal, node) ==   \* mutant: nodes of the other goals will do
    node \in r.projected /\ node \notin r.submit \cup goal.forbidden
CheckNode(r, goal, node) ==
    /\ node \notin r.submit \cup goal.forbidden
    /\ node # None /\ node \in r.projected \cap goal.actions

RowOperation(r, goal, action) ==
    \/ action.op \in {"click", "focus"}
    \/ /\ action.op = "replace-text" /\ action.target \notin r.readOnly
       /\ action.valueRef = GoalValue /\ TransformOf(action) \in goal.transforms
    \/ action.op = "press-key" /\ action.key \in SafeKeys
    \/ action.op = "select-native" /\ CheckNode(r, goal, action.option)
    \/ /\ action.op = "run-skill" /\ action.skill \in goal.skills
       /\ action.inputs = <<GoalValue>>

RowStep(r, step) ==
    LET goal == r.goals[step.goal]  action == step.action
    IN  /\ action # None /\ action.op \in RowOps
        /\ Sent(action) \subseteq RowParameters(action.op)
        /\ action.op # "run-skill" \/ action.target # None =>
             CheckNode(r, goal, action.target)
        /\ RowOperation(r, goal, action)
        /\ ExpectedEvidence(step.evidence, goal.evidence)

\* The goals a plan speaks of, those it defers last.
Mentioned(plan) == [i \in DOMAIN plan.steps |-> plan.steps[i].goal] \o plan.deferred

Planned(r, plan) ==
    /\ plan.status = "planned" /\ plan.steps # None
    /\ plan.context = None /\ ~plan.userRequest
    /\ \A i \in DOMAIN plan.steps :
         plan.steps[i].goal \in DOMAIN r.goals /\ RowStep(r, plan.steps[i])
    /\ \A i \in DOMAIN plan.deferred : plan.deferred[i] \in DOMAIN r.goals
    /\ \A i, j \in DOMAIN Mentioned(plan) :
         Mentioned(plan)[i] = Mentioned(plan)[j] => i = j

NotPlanned(r, plan) ==
    /\ plan.steps \in {None, <<>>} /\ plan.deferred = <<>>
    /\ \/ plan.status = "need-user" /\ plan.userRequest /\ plan.context = None
       \/ plan.status = "blocked" /\ ~plan.userRequest /\ plan.context = None
       \/ /\ plan.status = "need-context" /\ ~plan.userRequest /\ plan.context # None
          /\ ContextShown(plan.context, r.projected, r.regions)

validateAgentRowPlanOutput(r, plan) ==
    IF plan.echoed /\ (Planned(r, plan) \/ NotPlanned(r, plan)) THEN "ok" ELSE "invalid"
=============================================================================
