------------------------- MODULE Capability_proofs -------------------------
(***************************************************************************)
(* What is stored is grounded, and the checks agree with each other, for   *)
(* every set of requests and answers.  Each property is first proved of    *)
(* the check alone, then carried to the states by an invariant that says   *)
(* which verdict the stored answer had.                                    *)
(***************************************************************************)
EXTENDS Capability, TLAPS

-----------------------------------------------------------------------------
\* The last of the parts that stand for a value exists: ids and references being
\* unique, there are at most two.
LEMMA DisclosedIsShown ==
    ASSUME NEW q, NEW ref, ValidStep(q), DOMAIN q.parts \subseteq Nat, HasValueRef(q, ref)
    PROVE  DisclosedHint(q, ref) \in Shown(q, ref)
PROOF
<1> DEFINE standing == {i \in DOMAIN q.parts :
                          \/ q.parts[i].ref = ref
                          \/ ref = q.valueRef /\ q.parts[i].id = "value"}
           last(i) == i \in standing /\ \A j \in standing : j <= i
<1>1. CASE standing = {}
  <2>1. ref = q.valueRef
    BY <1>1 DEF HasValueRef
  <2>2. DisclosedHint(q, ref) = q.hint
    BY <1>1, <2>1 DEF DisclosedHint
  <2> QED
    BY <2>1, <2>2 DEF Shown
<1>2. CASE standing # {}
  <2>1. PICK i \in standing : TRUE
    BY <1>2
  <2>2. \E k : last(k)
    <3>1. CASE \A j \in standing : j <= i
      BY <2>1, <3>1
    <3>2. CASE \E j \in standing : ~(j <= i)
      <4>1. PICK j \in standing : ~(j <= i)
        BY <3>2
      <4>2. i \in Nat /\ j \in Nat /\ i # j
        BY <2>1, <4>1
      <4>3. ASSUME NEW k \in standing, ~(k <= j)
            PROVE  FALSE
        <5>1. k \in Nat /\ k # j /\ k # i
          BY <4>1, <4>2, <4>3
        <5>2. \A m, n \in standing : m # n => q.parts[m].id # q.parts[n].id
                                              /\ q.parts[m].ref # q.parts[n].ref
          BY DEF ValidStep, InteractionValid
        <5> QED
          BY <4>2, <5>1, <5>2
      <4> QED
        BY <4>1, <4>3
    <3> QED
      BY <3>1, <3>2
  <2>3. last(CHOOSE k \in standing : \A j \in standing : j <= k)
    BY <2>2
  <2>4. DisclosedHint(q, ref)
          = q.parts[CHOOSE k \in standing : \A j \in standing : j <= k].hint
    BY <1>2 DEF DisclosedHint
  <2>5. (CHOOSE k \in standing : \A j \in standing : j <= k) \in standing
    BY <2>3
  <2>6. \A k \in standing : q.parts[k].hint \in Shown(q, ref)
    BY DEF Shown
  <2> HIDE DEF standing
  <2> QED
    BY <2>4, <2>5, <2>6
<1> QED
  BY <1>1, <1>2

\* What the check accepts, as a list of facts.
LEMMA StepAccepted ==
    ASSUME NEW q, NEW a, validateAgentStepOutput(q, a) = "ok"
    PROVE  WellFormed(q, a) /\ ~WritesReadOnly(q, a)
PROOF
  BY DEF validateAgentStepOutput

\* An accepted action of a single step stays within what its request opens.
LEMMA StepIsGrounded ==
    ASSUME NEW q, NEW a, ValidStep(q), DOMAIN q.parts \subseteq Nat,
           validateAgentStepOutput(q, a) = "ok", a.status = "act"
    PROVE  StepGrounded(q, a.action)
PROOF
<1> DEFINE action == a.action
<1>1. ActionAllowed(q, a) /\ ~WritesReadOnly(q, a)
  BY StepAccepted DEF WellFormed
<1>2. OperationAllowed(q, action) /\ InteractionAction(q, action)
  BY <1>1 DEF ActionAllowed
<1>3. /\ action.target # None => Opened(q, action.target)
      /\ action.option # None => Opened(q, action.option)
      /\ action.target \in q.submit => action.op = "commit-form"
  BY <1>1 DEF ActionAllowed
<1>4. action.op # "commit-form"
  BY <1>2 DEF OperationAllowed
<1>5. action.slice # None => SliceDisclosed(q, action)
  <2>1. CASE q.version = 0
    <3>1. action.slice = None
      BY <1>2, <2>1 DEF InteractionAction, Sent, Given, Parameters
    <3> QED
      BY <3>1
  <2>2. CASE q.version # 0
    BY <1>2, <2>2 DEF InteractionAction
  <2> QED
    BY <2>1, <2>2
<1>6. Operated(action) \subseteq q.projected \ q.forbidden
  BY <1>3 DEF Operated, Opened
<1>7. q.version = 1 => Operated(action) \subseteq q.allowed
  BY <1>3 DEF Operated, Opened
<1>8. action.target \notin q.submit
  BY <1>3, <1>4
<1>9. Written(action) \cap q.readOnly = {}
  BY <1>1 DEF Written, WritesReadOnly
<1>10. Used(action) \subseteq {q.valueRef} \cup PartRefs(q)
  <2>1. \A ref : HasValueRef(q, ref) => ref \in {q.valueRef} \cup PartRefs(q)
    BY DEF HasValueRef, PartRefs
  <2>2. action.op = "replace-text" => HasValueRef(q, action.valueRef)
    BY <1>2 DEF OperationAllowed
  <2>3. action.slice # None => HasValueRef(q, action.valueRef)
    BY <1>5 DEF SliceDisclosed
  <2>4. action.op = "run-skill" /\ action.inputs # None =>
          \A i \in DOMAIN action.inputs : action.inputs[i] = q.valueRef
    BY <1>2 DEF OperationAllowed
  <2> QED
    BY <2>1, <2>2, <2>3, <2>4 DEF Used
<1>11. action.op = "run-skill" => action.skill \in q.skills
  BY <1>2 DEF OperationAllowed
<1>12. action.slice # None =>
         \E hint \in Shown(q, action.valueRef) : action.slice.end <= hint
  BY <1>5, DisclosedIsShown DEF SliceDisclosed
<1> QED
  BY <1>6, <1>7, <1>8, <1>9, <1>10, <1>11, <1>12 DEF StepGrounded

\* Each step of an accepted plan is about a goal of the row and passed its check.
LEMMA PlanAccepted ==
    ASSUME NEW r, NEW plan, plan.status = "planned",
           validateAgentRowPlanOutput(r, plan) = "ok", NEW i \in DOMAIN plan.steps
    PROVE  plan.steps[i].goal \in DOMAIN r.goals /\ RowStep(r, plan.steps[i])
PROOF
  BY DEF validateAgentRowPlanOutput, Planned, NotPlanned

\* What a row action may carry is what the op allows a single step, and less.
LEMMA RowParametersAreParameters ==
    ASSUME NEW op \in RowOps
    PROVE  /\ RowParameters(op) \subseteq AllowedParameters(op)
           /\ RowParameters(op) \cap {"part", "slice", "selected"} = {}
           /\ "option" \in RowParameters(op) => op = "select-native"
           /\ "valueRef" \in RowParameters(op) => op = "replace-text"
PROOF
  BY DEF RowOps, RowParameters, AllowedParameters

\* A row action has none of the parameters of protocol version 1, an option only to select
\* it and a value only to write it.
LEMMA RowParametersGiven ==
    ASSUME NEW action, action.op \in RowOps, Sent(action) \subseteq RowParameters(action.op)
    PROVE  /\ action.part = None /\ action.slice = None /\ action.selected = None
           /\ action.option # None => action.op = "select-native"
           /\ action.valueRef # None => action.op = "replace-text"
PROOF
<1>1. \A p \in Parameters : action[p] # None => p \in RowParameters(action.op)
  BY DEF Sent, Given
<1> QED
  BY <1>1, RowParametersAreParameters DEF Parameters

\* An accepted step of a plan stays within its own goal.
LEMMA PlanIsGrounded ==
    ASSUME NEW r, NEW plan, ValidRowPlan(r), plan.status = "planned",
           validateAgentRowPlanOutput(r, plan) = "ok", NEW i \in DOMAIN plan.steps
    PROVE  PlanGrounded(r, plan.steps[i])
PROOF
<1> DEFINE step == plan.steps[i]
           goal == r.goals[step.goal]
           action == step.action
<1>1. step.goal \in DOMAIN r.goals /\ RowStep(r, step)
  BY PlanAccepted
<1>2. /\ action.op \in RowOps /\ Sent(action) \subseteq RowParameters(action.op)
      /\ action.op # "run-skill" \/ action.target # None => CheckNode(r, goal, action.target)
      /\ RowOperation(r, goal, action)
      /\ ExpectedEvidence(step.evidence, goal.evidence)
  BY <1>1 DEF RowStep
<1>3. goal.evidence \subseteq r.projected
  BY <1>1 DEF ValidRowPlan
<1>4. action.slice = None /\ (action.option # None => action.op = "select-native")
  BY <1>2, RowParametersGiven
<1>5. Operated(action) \subseteq (r.projected \cap goal.actions) \ (r.submit \cup goal.forbidden)
  <2>1. action.target # None => CheckNode(r, goal, action.target)
    BY <1>2
  <2>2. action.option # None => CheckNode(r, goal, action.option)
    BY <1>2, <1>4 DEF RowOperation
  <2> QED
    BY <2>1, <2>2 DEF Operated, CheckNode
<1>6. Written(action) \cap r.readOnly = {}
  BY <1>2 DEF RowOperation, Written
<1>7. Used(action) \subseteq {GoalValue}
  <2>1. action.op = "replace-text" => action.valueRef = GoalValue
    BY <1>2 DEF RowOperation
  <2>2. action.op = "run-skill" => action.inputs = <<GoalValue>>
    BY <1>2 DEF RowOperation
  <2>3. {(<<GoalValue>>)[k] : k \in DOMAIN <<GoalValue>>} \subseteq {GoalValue}
    OBVIOUS
  <2>4. action.op = "run-skill" =>
          {action.inputs[k] : k \in DOMAIN action.inputs} \subseteq {GoalValue}
    BY <2>2, <2>3
  <2> QED
    BY <1>4, <2>1, <2>4 DEF Used
<1>8. action.op = "run-skill" => action.skill \in goal.skills
  BY <1>2 DEF RowOperation
<1>9. \A e \in step.evidence : e.node # None => e.node \in r.projected
  BY <1>2, <1>3 DEF ExpectedEvidence
<1> QED
  BY <1>5, <1>6, <1>7, <1>8, <1>9 DEF PlanGrounded

\* An accepted step of a plan passes as a single step.
LEMMA PlanStepIsStep ==
    ASSUME NEW r, NEW plan, ValidRowPlan(r), plan.status = "planned",
           validateAgentRowPlanOutput(r, plan) = "ok", NEW i \in DOMAIN plan.steps,
           NEW version \in {0, 1}, version = 0 \/ plan.steps[i].action.null = {}
    PROVE  LET q == StepFor(r, r.goals[plan.steps[i].goal], version)
           IN  ValidStep(q) /\ validateAgentStepOutput(q, AsStep(plan.steps[i])) = "ok"
PROOF
<1> DEFINE step == plan.steps[i]
           goal == r.goals[step.goal]
           action == step.action
           q == StepFor(r, goal, version)
           a == AsStep(step)
<1>1. step.goal \in DOMAIN r.goals /\ RowStep(r, step)
  BY PlanAccepted
<1>2. /\ action # None
      /\ action.op \in RowOps /\ Sent(action) \subseteq RowParameters(action.op)
      /\ action.op # "run-skill" \/ action.target # None => CheckNode(r, goal, action.target)
      /\ RowOperation(r, goal, action)
      /\ ExpectedEvidence(step.evidence, goal.evidence)
  BY <1>1 DEF RowStep
<1>3. goal.evidence \subseteq r.projected /\ goal.actions \subseteq r.projected
  BY <1>1 DEF ValidRowPlan
<1>4. /\ q.version = version /\ q.recovery = 0 /\ q.projected = r.projected
      /\ q.forbidden = goal.forbidden /\ q.submit = r.submit /\ q.readOnly = r.readOnly
      /\ q.allowed = IF version = 1 THEN goal.actions \ goal.forbidden ELSE {}
      /\ q.skills = goal.skills /\ q.transforms = goal.transforms
      /\ q.valueRef = GoalValue /\ q.parts = << >> /\ q.handoff = None
  BY DEF StepFor
<1>5. /\ a.status = "act" /\ a.echoed /\ a.action = action
      /\ a.evidence = step.evidence /\ a.selection = None
  BY DEF AsStep
<1> HIDE DEF q, a
<1>6. ValidStep(q)
  <2>1. None \notin q.projected \cup q.submit /\ q.readOnly \subseteq q.projected
    BY <1>4 DEF ValidRowPlan
  <2>2. InteractionValid(q)
    <3>1. q.allowed \subseteq q.projected \ q.forbidden
      BY <1>3, <1>4
    <3>2. DOMAIN q.parts = {}
      BY <1>4
    <3>3. q.version \in {0, 1} /\ (q.version = 0 => q.allowed = {})
      <4>1. CASE version = 0
        BY <1>4, <4>1
      <4>2. CASE version = 1
        BY <1>4, <4>2
      <4> QED
        BY <4>1, <4>2
    <3>4. q.parts = << >>
      BY <1>4
    <3> QED
      BY <3>1, <3>2, <3>3, <3>4, Zenon DEF InteractionValid
  <2> QED
    BY <1>4, <2>1, <2>2 DEF AdapterHandoff, ValidStep
<1>7. \A node : CheckNode(r, goal, node) => Opened(q, node) /\ node \notin q.submit
  BY <1>4 DEF CheckNode, Opened
<1>8. /\ action.part = None /\ action.slice = None
      /\ action.option # None => action.op = "select-native"
      /\ action.valueRef # None => action.op = "replace-text"
  BY <1>2, RowParametersGiven
<1>9. InteractionAction(q, action)
  <2>1. Sent(action) \subseteq AllowedParameters(action.op)
        /\ Sent(action) \cap {"part", "slice", "selected"} = {}
    BY <1>2, RowParametersAreParameters
  <2>2. action.op \in {"click", "select-native"} /\ action.valueRef # None
          => action.slice # None
    BY <1>8
  <2>3. q.version # 0 => action.null = {}
    BY <1>4
  <2> QED
    BY <1>8, <2>1, <2>2, <2>3 DEF InteractionAction
<1>10. OperationAllowed(q, action)
  <2>1. CASE action.op \in {"click", "focus"}
    BY <1>2, <1>7, <2>1 DEF OperationAllowed
  <2>2. CASE action.op = "replace-text"
    <3>1. action.valueRef = GoalValue /\ TransformOf(action) \in goal.transforms
      BY <1>2, <2>2 DEF RowOperation
    <3>2. action.valueRef # None
      BY <3>1, GoalValueAssumption
    <3> QED
      BY <1>2, <1>4, <1>7, <2>2, <3>1, <3>2 DEF OperationAllowed, HasValueRef
  <2>3. CASE action.op = "press-key"
    BY <1>2, <2>3 DEF OperationAllowed, RowOperation
  <2>4. CASE action.op = "select-native"
    BY <1>2, <1>7, <2>4 DEF OperationAllowed, RowOperation
  <2>5. CASE action.op = "run-skill"
    <3>1. action.skill \in q.skills /\ action.inputs = <<GoalValue>>
      BY <1>2, <1>4, <2>5 DEF RowOperation
    <3>2. \A j \in DOMAIN action.inputs : action.inputs[j] = q.valueRef
      BY <1>4, <3>1
    <3> QED
      BY <2>5, <3>1, <3>2 DEF OperationAllowed
  <2> QED
    BY <1>2, <2>1, <2>2, <2>3, <2>4, <2>5 DEF RowOps
<1>11. ActionAllowed(q, a)
  <2>1. SemanticSelection(q, a)
    BY <1>5 DEF SemanticSelection
  <2>2. action.target # None => Opened(q, action.target)
    BY <1>2, <1>7
  <2>3. action.option # None => Opened(q, action.option)
    BY <1>2, <1>7, <1>8 DEF RowOperation
  <2>4. action.target \notin q.submit
    BY <1>2, <1>6, <1>7 DEF ValidStep
  <2> QED
    BY <1>5, <1>9, <1>10, <2>1, <2>2, <2>3, <2>4 DEF ActionAllowed
<1>12. WellFormed(q, a)
  <2>1. ExpectedEvidence(a.evidence, q.projected)
    BY <1>2, <1>3, <1>4, <1>5 DEF ExpectedEvidence
  <2> QED
    BY <1>2, <1>5, <1>11, <2>1 DEF WellFormed
<1>13. ~WritesReadOnly(q, a)
  BY <1>2, <1>4, <1>5 DEF WritesReadOnly, RowOperation
<1>14. validateAgentStepOutput(q, a) = "ok"
  BY <1>12, <1>13 DEF validateAgentStepOutput
<1> QED
  BY <1>6, <1>14 DEF q, a

-----------------------------------------------------------------------------
\* Two requests with the same fields but for those that only the verdict uses.
Alike(q1, q2) ==
    /\ q1.version = q2.version /\ q1.goalKind = q2.goalKind
    /\ q1.projected = q2.projected /\ q1.regions = q2.regions
    /\ q1.forbidden = q2.forbidden /\ q1.allowed = q2.allowed /\ q1.submit = q2.submit
    /\ q1.skills = q2.skills /\ q1.transforms = q2.transforms
    /\ q1.valueRef = q2.valueRef /\ q1.hint = q2.hint /\ q1.parts = q2.parts
    /\ q1.learning = q2.learning /\ q1.visual = q2.visual /\ q1.handoffId = q2.handoffId

\* They open the same nodes and values.
LEMMA AlikeOpenTheSame ==
    ASSUME NEW q1, NEW q2, Alike(q1, q2), NEW action
    PROVE  /\ \A node : Opened(q1, node) <=> Opened(q2, node)
           /\ InteractionAction(q1, action) <=> InteractionAction(q2, action)
           /\ OperationAllowed(q1, action) <=> OperationAllowed(q2, action)
PROOF
<1>1. \A node : Opened(q1, node) <=> Opened(q2, node)
  BY DEF Alike, Opened
<1>2. \A ref : /\ HasValueRef(q1, ref) <=> HasValueRef(q2, ref)
               /\ DisclosedHint(q1, ref) = DisclosedHint(q2, ref)
  BY DEF Alike, HasValueRef, DisclosedHint
<1>3. SliceDisclosed(q1, action) <=> SliceDisclosed(q2, action)
  BY <1>2 DEF SliceDisclosed
<1>4. InteractionAction(q1, action) <=> InteractionAction(q2, action)
  BY <1>3 DEF Alike, InteractionAction
<1>5. OperationAllowed(q1, action) <=> OperationAllowed(q2, action)
  BY <1>1, <1>2 DEF Alike, OperationAllowed
<1> QED
  BY <1>1, <1>4, <1>5

\* What passes for one passes for the other, with the same hand-over or with none and
\* no candidate chosen.
LEMMA AlikeAcceptTheSame ==
    ASSUME NEW q1, NEW q2, Alike(q1, q2), NEW a1, NEW a2,
           a1.status = a2.status, a1.echoed = a2.echoed, a1.action = a2.action,
           a1.context = a2.context, a1.evidence = a2.evidence,
           a1.userRequest = a2.userRequest,
           \/ q1.handoff = q2.handoff /\ a1.selection = a2.selection
           \/ q2.handoff = None /\ a2.selection = None,
           WellFormed(q1, a1)
    PROVE  WellFormed(q2, a2)
PROOF
<1>1. ExpectedEvidence(a2.evidence, q2.projected)
  BY DEF WellFormed, Alike
<1>2. a2.echoed
  BY DEF WellFormed
<1>3. CASE a1.status = "need-adapter"
  <2>1. LearningProposed(q1, a1)
    BY <1>3 DEF WellFormed
  <2>2. LearningProposed(q2, a2)
    BY <2>1 DEF LearningProposed, Alike
  <2> QED
    BY <1>1, <1>2, <1>3, <2>2 DEF WellFormed
<1>4. CASE a1.status \in {"done", "need-context", "need-user", "blocked"}
  <2>1. /\ a1.selection = None /\ a1.action = None
        /\ a1.status = "need-context" => a1.context # None /\ ContextAllowed(q1, a1.context)
    BY <1>4 DEF WellFormed
  <2>2. a2.status = "need-context" => a2.context # None /\ ContextAllowed(q2, a2.context)
    BY <2>1 DEF ContextAllowed, Alike
  <2> QED
    BY <1>1, <1>2, <1>4, <2>1, <2>2 DEF WellFormed
<1>5. CASE a1.status = "act"
  <2>1. a1.action # None /\ ActionAllowed(q1, a1)
    BY <1>5 DEF WellFormed
  <2>2. SemanticSelection(q2, a2)
    <3>1. CASE a2.selection = None
      BY <3>1 DEF SemanticSelection
    <3>2. CASE a2.selection # None
      <4>1. a1.selection = a2.selection /\ q1.handoff = q2.handoff
        BY <3>2
      <4>2. SemanticSelection(q1, a1)
        BY <2>1 DEF ActionAllowed
      <4>3. \A node : Opened(q1, node) <=> Opened(q2, node)
        BY AlikeOpenTheSame
      <4> QED
        BY <3>2, <4>1, <4>2, <4>3, Zenon DEF SemanticSelection, Alike
    <3> QED
      BY <3>1, <3>2
  <2>3. ActionAllowed(q2, a2)
    <3>1. /\ \A node : Opened(q1, node) <=> Opened(q2, node)
          /\ InteractionAction(q1, a1.action) <=> InteractionAction(q2, a1.action)
          /\ OperationAllowed(q1, a1.action) <=> OperationAllowed(q2, a1.action)
      BY AlikeOpenTheSame
    <3> QED
      BY <2>1, <2>2, <3>1 DEF ActionAllowed, Alike
  <2> QED
    BY <1>1, <1>2, <1>5, <2>1, <2>3 DEF WellFormed
<1> QED
  BY <1>3, <1>4, <1>5 DEF WellFormed

\* Leaving the hand-over out of an accepted answer leaves it accepted.
LEMMA HandoffOpensNothing ==
    ASSUME NEW q \in StepRequests, NEW a, validateAgentStepOutput(q, a) = "ok"
    PROVE  validateAgentStepOutput([q EXCEPT !.handoff = None], Unselected(a)) = "ok"
PROOF
<1> DEFINE q2 == [q EXCEPT !.handoff = None]
           a2 == Unselected(a)
<1>1. DOMAIN q = StepFields
  BY RequestsAssumption
<1>2. Alike(q, q2) /\ q2.handoff = None /\ q2.readOnly = q.readOnly
  BY <1>1 DEF Alike, StepFields
<1>3. /\ a2.status = a.status /\ a2.echoed = a.echoed /\ a2.action = a.action
      /\ a2.context = a.context /\ a2.evidence = a.evidence
      /\ a2.userRequest = a.userRequest /\ a2.selection = None
  BY DEF Unselected
<1> HIDE DEF q2, a2
<1>4. WellFormed(q, a) /\ ~WritesReadOnly(q, a)
  BY StepAccepted
<1>5. WellFormed(q2, a2)
  BY <1>2, <1>3, <1>4, AlikeAcceptTheSame
<1>6. ~WritesReadOnly(q2, a2)
  BY <1>2, <1>3, <1>4 DEF WritesReadOnly
<1> QED
  BY <1>5, <1>6 DEF validateAgentStepOutput, q2, a2

\* The verdict that leaves a step to the host is about the read-only control alone.
LEMMA OnlyReadOnlyStands ==
    ASSUME NEW q \in StepRequests, NEW a, ValidStep(q),
           validateAgentStepOutput(q, a) = "not_applicable"
    PROVE  /\ q.recovery = 1 /\ q.handoff = None
           /\ validateAgentStepOutput([q EXCEPT !.readOnly = {}], a) = "ok"
           /\ validateAgentStepOutput([q EXCEPT !.recovery = 0], a) = "invalid"
PROOF
<1> DEFINE writable == [q EXCEPT !.readOnly = {}]
           old == [q EXCEPT !.recovery = 0]
<1>1. DOMAIN q = StepFields
  BY RequestsAssumption
<1>2. WellFormed(q, a) /\ WritesReadOnly(q, a) /\ q.recovery = 1
  BY DEF validateAgentStepOutput
<1>3. q.handoff = None
  BY <1>2 DEF ValidStep
<1>4. Alike(q, writable) /\ writable.handoff = q.handoff /\ writable.readOnly = {}
  BY <1>1 DEF Alike, StepFields
<1>5. Alike(q, old) /\ old.handoff = q.handoff /\ old.readOnly = q.readOnly /\ old.recovery = 0
  BY <1>1 DEF Alike, StepFields
<1> HIDE DEF writable, old
<1>6. WellFormed(writable, a) /\ WellFormed(old, a)
  BY <1>2, <1>4, <1>5, AlikeAcceptTheSame
<1>7. ~WritesReadOnly(writable, a) /\ WritesReadOnly(old, a)
  BY <1>2, <1>4, <1>5 DEF WritesReadOnly
<1>8. validateAgentStepOutput(writable, a) = "ok"
  BY <1>6, <1>7 DEF validateAgentStepOutput
<1>9. validateAgentStepOutput(old, a) = "invalid"
  BY <1>5, <1>6, <1>7 DEF validateAgentStepOutput
<1> QED
  BY <1>2, <1>3, <1>8, <1>9 DEF writable, old

\* An accepted tool call is of an offered tool, with the arguments it declares.
LEMMA TaskIsGrounded ==
    ASSUME NEW t, NEW out, ValidTask(t), out.status = "tool",
           validateTaskAgentOutput(t, out) = "ok"
    PROVE  TaskGrounded(t, out.tool)
PROOF
<1> DEFINE call == out.tool
           declared == t.tools[call.name].parameters
<1>1. ToolCall(t, call)
  BY DEF validateTaskAgentOutput
<1>2. /\ call.name \in DOMAIN t.tools
      /\ DOMAIN call.arguments \subseteq DOMAIN declared
      /\ \A p \in DOMAIN declared :
           IF p \in DOMAIN call.arguments THEN call.arguments[p] = declared[p].type
           ELSE ~declared[p].required
  BY <1>1 DEF ToolCall
<1>3. \A p \in DOMAIN declared : declared[p].type \in Types
  BY <1>2 DEF ValidTask
<1>4. \A p \in DOMAIN call.arguments : call.arguments[p] \notin {"null", "oversized"}
  BY <1>2, <1>3 DEF Types
<1>5. {p \in DOMAIN declared : declared[p].required} \subseteq DOMAIN call.arguments
  BY <1>2
<1> QED
  BY <1>2, <1>4, <1>5 DEF TaskGrounded

\* Leaving the hand-over out of a task leaves its accepted answers accepted.
LEMMA TaskHandoffOpensNothing ==
    ASSUME NEW t \in TaskRequests, NEW out, validateTaskAgentOutput(t, out) = "ok"
    PROVE  validateTaskAgentOutput([t EXCEPT !.handoff = None], out) = "ok"
PROOF
<1> DEFINE t2 == [t EXCEPT !.handoff = None]
<1>1. t2.handoff = None /\ t2.learning = t.learning /\ t2.fields = t.fields /\ t2.tools = t.tools
  BY RequestsAssumption DEF TaskFields
<1> HIDE DEF t2
<1>2. ToolCall(t2, out.tool) <=> ToolCall(t, out.tool)
  BY <1>1 DEF ToolCall
<1>3. validateTaskAgentOutput(t2, out) = "ok"
  BY <1>1, <1>2 DEF validateTaskAgentOutput
<1> QED
  BY <1>3 DEF t2

-----------------------------------------------------------------------------
\* The request that is being run was valid, and the answer that ended it had the
\* verdict that the state says.
IInv ==
    /\ stage = "none" => kind = "none" /\ code = "none"
    /\ stage # "none" =>
         \/ kind = "agent_step" /\ request \in StepRequests /\ ValidStep(request)
         \/ kind = "agent_row_plan" /\ request \in PlanRequests /\ ValidRowPlan(request)
         \/ kind = "agent_task_step" /\ request \in TaskRequests /\ ValidTask(request)
    /\ stage \in {"none", "asking"} => code = "none"
    /\ stage = "stored" => Verdict(answer) = "ok" /\ code = "none"
    /\ code = "AI_ACTION_NOT_APPLICABLE" =>
         stage = "failed" /\ Verdict(answer) = "not_applicable"

\* The verdict invariant holds in every state.
THEOREM Invariance == Spec => []IInv
PROOF
<1>1. Init => IInv
  BY DEF Init, IInv
<1>2. IInv /\ [Next]_vars => IInv'
  <2> SUFFICES ASSUME IInv, [Next]_vars
               PROVE  IInv'
    OBVIOUS
  <2>1. CASE Submit
    BY <2>1 DEF Submit, IInv
  <2>2. CASE CallFails
    BY <2>2 DEF CallFails, End, IInv
  <2>3. CASE Repair \/ GiveUp
    BY <2>3 DEF Repair, GiveUp, End, IInv
  <2>4. ASSUME NEW a \in Answers, Accept(a)
        PROVE  IInv'
    BY <2>4 DEF Accept, End, IInv, Verdict, Post
  <2>5. ASSUME NEW a \in Answers, NotApplicable(a)
        PROVE  IInv'
    BY <2>5 DEF NotApplicable, End, IInv, Verdict, Post
  <2>6. CASE UNCHANGED vars
    BY <2>6 DEF vars, IInv, Verdict, Post
  <2> QED
    BY <2>1, <2>2, <2>3, <2>4, <2>5, <2>6 DEF Next, Truncated, Invalid
<1> QED
  BY <1>1, <1>2, PTL DEF Spec

\* A stored answer stays within what its request opened.
THEOREM AnswersGrounded == Spec => []AnswerIsGrounded
PROOF
<1>1. IInv => AnswerIsGrounded
  <2> SUFFICES ASSUME IInv
               PROVE  AnswerIsGrounded
    OBVIOUS
  <2>1. ASSUME StoredStep, answer.status = "act"
        PROVE  StepGrounded(request, answer.action)
    <3>1. /\ request \in StepRequests /\ ValidStep(request)
          /\ validateAgentStepOutput(request, answer) = "ok"
      BY <2>1 DEF StoredStep, IInv, Verdict, Post
    <3>2. DOMAIN request.parts \subseteq Nat
      BY <3>1, RequestsAssumption
    <3> QED
      BY <2>1, <3>1, <3>2, StepIsGrounded
  <2>2. ASSUME StoredPlan, answer.status = "planned", NEW i \in DOMAIN answer.steps
        PROVE  PlanGrounded(request, answer.steps[i])
    <3>1. ValidRowPlan(request) /\ validateAgentRowPlanOutput(request, answer) = "ok"
      BY <2>2 DEF StoredPlan, IInv, Verdict, Post
    <3> QED
      BY <2>2, <3>1, PlanIsGrounded
  <2>3. ASSUME StoredTask, answer.status = "tool"
        PROVE  TaskGrounded(request, answer.tool)
    <3>1. ValidTask(request) /\ validateTaskAgentOutput(request, answer) = "ok"
      BY <2>3 DEF StoredTask, IInv, Verdict, Post
    <3> QED
      BY <2>3, <3>1, TaskIsGrounded
  <2> QED
    BY <2>1, <2>2, <2>3 DEF AnswerIsGrounded
<1> QED
  BY <1>1, Invariance, PTL

\* A hand-over adds no permission.
THEOREM HandoffNarrows == Spec => []HandoffAddsNoPermission
PROOF
<1>1. IInv => HandoffAddsNoPermission
  <2> SUFFICES ASSUME IInv
               PROVE  HandoffAddsNoPermission
    OBVIOUS
  <2>1. CASE StoredStep
    <3>1. request \in StepRequests /\ validateAgentStepOutput(request, answer) = "ok"
      BY <2>1 DEF StoredStep, IInv, Verdict, Post
    <3>2. validateAgentStepOutput([request EXCEPT !.handoff = None], Unselected(answer)) = "ok"
      BY <3>1, HandoffOpensNothing
    <3> QED
      BY <2>1, <3>2 DEF StoredStep, HandoffAddsNoPermission, Post
  <2>2. CASE StoredTask
    <3>1. request \in TaskRequests /\ validateTaskAgentOutput(request, answer) = "ok"
      BY <2>2 DEF StoredTask, IInv, Verdict, Post
    <3>2. validateTaskAgentOutput([request EXCEPT !.handoff = None], answer) = "ok"
      BY <3>1, TaskHandoffOpensNothing
    <3> QED
      BY <2>2, <3>2 DEF StoredStep, StoredTask, HandoffAddsNoPermission, Post
  <2> QED
    BY <2>1, <2>2 DEF HandoffAddsNoPermission
<1> QED
  BY <1>1, Invariance, PTL

\* The steps of a stored plan would pass one by one.
THEOREM PlansAreSteps == Spec => []PlanStepsAreSteps
PROOF
<1>1. IInv => PlanStepsAreSteps
  <2> SUFFICES ASSUME IInv, StoredPlan, answer.status = "planned",
                      NEW i \in DOMAIN answer.steps, NEW version \in {0, 1},
                      version = 0 \/ answer.steps[i].action.null = {}
               PROVE  LET q == StepFor(request, request.goals[answer.steps[i].goal], version)
                      IN  /\ ValidStep(q)
                          /\ validateAgentStepOutput(q, AsStep(answer.steps[i])) = "ok"
    BY DEF PlanStepsAreSteps
  <2>1. ValidRowPlan(request) /\ validateAgentRowPlanOutput(request, answer) = "ok"
    BY DEF StoredPlan, IInv, Verdict, Post
  <2> QED
    BY <2>1, PlanStepIsStep
<1> QED
  BY <1>1, Invariance, PTL

\* Only a write that nothing else stands against is left to the host.
THEOREM NotApplicableValid == Spec => []NotApplicableIsOtherwiseValid
PROOF
<1>1. IInv => NotApplicableIsOtherwiseValid
  <2> SUFFICES ASSUME IInv, code = "AI_ACTION_NOT_APPLICABLE"
               PROVE  NotApplicableIsOtherwiseValid
    BY DEF NotApplicableIsOtherwiseValid
  <2>1. Verdict(answer) = "not_applicable" /\ stage = "failed"
    BY DEF IInv
  <2>2. kind = "agent_step" /\ validateAgentStepOutput(request, answer) = "not_applicable"
    BY <2>1 DEF IInv, Verdict, Post, validateAgentRowPlanOutput, validateTaskAgentOutput
  <2>3. request \in StepRequests /\ ValidStep(request)
    BY <2>1, <2>2 DEF IInv
  <2> QED
    BY <2>2, <2>3, OnlyReadOnlyStands DEF NotApplicableIsOtherwiseValid
<1> QED
  BY <1>1, Invariance, PTL
=============================================================================
