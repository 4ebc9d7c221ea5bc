----------------------------- MODULE AgentStep -----------------------------
(***************************************************************************)
(* What agent_step lets through: the requests its handler accepts, and the *)
(* verdict of validateAgentStepOutput on what the model answered.  An      *)
(* answer names nodes, values and skills; the check compares them with     *)
(* what the request opens.                                                 *)
(*                                                                         *)
(* A request, an answer and the action in it are records with every field  *)
(* the check looks at; a field that says nothing is None, and the sets     *)
(* blank and null of an action hold the keys that were sent all the same.  *)
(* Lengths, history and the page itself are left out; a hint is its length.*)
(***************************************************************************)
EXTENDS Integers, Sequences

CONSTANT None   \* a field that is absent

\* The parameters an action may have beside its op.
Parameters == {"target", "option", "valueRef", "transform", "key", "skill", "inputs",
               "part", "slice", "selected", "direction", "amount", "block"}
Given(action) == {p \in Parameters : action[p] # None}
\* Its keys: those in blank came with nothing to say (an empty string or list; "other" is
\* a key that no check reads), those in null as null.
Sent(action) == Given(action) \cup action.blank \cup action.null

StepFields ==
    {"version", "recovery", "goalKind", "projected", "regions", "forbidden", "allowed", "submit",
     "readOnly", "skills", "transforms", "valueRef", "hint", "parts", "learning", "visual",
     "handoffId", "handoff"}

-----------------------------------------------------------------------------
\* AgentStepReq.Validate.  parts is <<>> without valueSemantics; handoff is None,
\* "goal", or "selection" for a hand-over that asks to choose a candidate.

InteractionValid(q) ==
    /\ q.version \in {0, 1}
    /\ q.version = 0 => q.parts = <<>> /\ q.allowed = {}
    /\ q.allowed \subseteq q.projected \ q.forbidden
    /\ \A i, j \in DOMAIN q.parts :
         i # j => q.parts[i].id # q.parts[j].id /\ q.parts[i].ref # q.parts[j].ref

\* A sub-goal that a program hands over is bound to the hand-over of the request.
AdapterHandoff(q) == q.handoff # None => q.handoffId # None

ValidStep(q) ==
    /\ None \notin q.projected \cup q.submit   \* lists hold no empty values
    /\ q.recovery \in {0, 1}
    /\ q.recovery = 1 => q.goalKind = "set-field-value" /\ q.handoff = None
    /\ q.readOnly \subseteq q.projected
    /\ InteractionValid(q)
    /\ AdapterHandoff(q)

-----------------------------------------------------------------------------
\* The parts of the check that row plans share.

EffectKinds == {"field-value-match", "state-change", "visible", "hidden", "expanded",
                "collapsed", "selected", "ready"}

\* Effects of a step are about nodes its goal knows.
ExpectedEvidence(effects, nodes) ==
    \A e \in effects :
      /\ e.kind \in EffectKinds
      /\ e.kind \notin {"field-value-match", "state-change"} => e.node # None
      /\ e.node # None => e.node \in nodes

SafeKeys == {"ArrowUp", "ArrowDown", "ArrowLeft", "ArrowRight", "Escape", "Tab", "Space",
             "Backspace"}

TransformOf(action) == IF action.transform = None THEN "identity" ELSE action.transform

\* context asks for more of the page: nodes or regions it has been shown.
ContextShown(context, nodes, regions) ==
    \/ context.kind = "expand-nodes" /\ context.nodes # {} /\ context.nodes \subseteq nodes
    \/ context.kind = "region-detail" /\ context.regions # {} /\ context.regions \subseteq regions

-----------------------------------------------------------------------------
\* Under protocol version 1 an action carries what its op allows, and no more.
AllowedParameters(op) ==
    CASE op = "click" -> {"target", "part", "valueRef", "slice"}
      [] op = "focus" -> {"target"}
      [] op = "replace-text" -> {"target", "valueRef", "transform", "slice"}
      [] op = "press-key" -> {"target", "key"}
      [] op = "select-native" -> {"target", "option", "selected", "valueRef", "slice"}
      [] op = "run-skill" -> {"target", "skill", "inputs"}
      [] op = "scroll-node" -> {"target", "block"}
      [] op = "scroll-page" -> {"direction", "amount"}
      [] OTHER -> {}

HasValueRef(q, ref) ==
    \/ ref = q.valueRef
    \/ q.version = 1 /\ \E i \in DOMAIN q.parts : q.parts[i].ref = ref

\* How much of a value the model was shown: the last part that stands for it wins.
DisclosedHint(q, ref) ==
    LET standing == {i \in DOMAIN q.parts :
                       \/ q.parts[i].ref = ref
                       \/ ref = q.valueRef /\ q.parts[i].id = "value"}
    IN  IF standing # {}
        THEN q.parts[CHOOSE i \in standing : \A j \in standing : j <= i].hint
        ELSE IF ref = q.valueRef THEN q.hint ELSE 0

MaxSliceEnd == 160

SliceDisclosed_UpToLimit(q, action) ==   \* mutant: whatever was shown of the value
    /\ action.valueRef # None /\ HasValueRef(q, action.valueRef) /\ action.part = None
    /\ action.slice.start \in 0 .. action.slice.end - 1 /\ action.slice.end <= MaxSliceEnd
    /\ action.transform \in {None, "identity"}

SliceDisclosed(q, action) ==
    /\ action.valueRef # None /\ HasValueRef(q, action.valueRef) /\ action.part = None
    /\ action.slice.start >= 0 /\ action.slice.start < action.slice.end
    /\ action.slice.end <= MaxSliceEnd
    /\ action.slice.end <= DisclosedHint(q, action.valueRef)
    /\ action.transform \in {None, "identity"}

\* validateInteractionAction, and its counterpart for version 0.
InteractionAction(q, action) ==
    IF q.version = 0 THEN Sent(action) \cap {"part", "slice", "selected"} = {}
    ELSE /\ Sent(action) \subseteq AllowedParameters(action.op) /\ action.null = {}
         /\ action.part # None => \E i \in DOMAIN q.parts : q.parts[i].id = action.part
         /\ action.slice # None => SliceDisclosed(q, action)
         /\ action.op \in {"click", "select-native"} /\ action.valueRef # None
              => action.slice # None

-----------------------------------------------------------------------------
\* The nodes an action may name ("projected" in the code).
Opened_ByHandoff(q, node) ==   \* mutant: a hand-over needs no list of allowed nodes
    /\ node # None /\ node \in q.projected \ q.forbidden
    /\ q.version = 1 /\ q.handoff = None => node \in q.allowed
Opened(q, node) ==
    /\ node # None /\ node \in q.projected \ q.forbidden
    /\ q.version = 1 => node \in q.allowed

\* A candidate chosen for a hand-over is clicked or selected, with no value of the
\* source.  selection says which hand-over it is for and which node it chose.
SemanticSelection(q, answer) ==
    answer.selection # None =>
      LET action == answer.action  chosen == answer.selection.candidate
      IN  /\ q.version = 1 /\ q.goalKind = "set-field-value"
          /\ q.handoffId # None /\ q.handoff = "selection" /\ answer.status = "act"
          /\ answer.selection.handoffId = q.handoffId /\ Opened(q, chosen)
          /\ action.op \in {"click", "select-native"}
          /\ action.op = "select-native" =>
               action.option = chosen /\ action.selected \in {None, TRUE}
          /\ action.valueRef = None /\ action.part = None /\ action.slice = None

OperationAllowed(q, action) ==
    \/ action.op \in {"click", "focus", "scroll-node"} /\ Opened(q, action.target)
    \/ /\ action.op = "replace-text" /\ Opened(q, action.target)
       /\ action.valueRef # None /\ HasValueRef(q, action.valueRef)
       /\ action.valueRef # q.valueRef => action.transform \in {None, "identity"}
       /\ TransformOf(action) \in q.transforms
    \/ action.op = "press-key" /\ action.key \in SafeKeys
    \/ /\ action.op = "select-native"
       /\ Opened(q, action.target) /\ Opened(q, action.option)
    \/ /\ action.op = "run-skill" /\ action.skill \in q.skills
       /\ action.inputs # None =>
            \A i \in DOMAIN action.inputs : action.inputs[i] = q.valueRef
    \/ /\ action.op = "scroll-page"
       /\ action.direction \in {"up", "down"} /\ action.amount \in {"small", "page"}

ActionAllowed(q, answer) ==
    LET action == answer.action
    IN  /\ SemanticSelection(q, answer)
        /\ InteractionAction(q, action)
        /\ action.target # None => Opened(q, action.target)
        /\ action.option # None => Opened(q, action.option)
        /\ action.target \in q.submit => action.op = "commit-form"
        /\ OperationAllowed(q, action)

WritesReadOnly(q, answer) ==
    answer.status = "act" /\ answer.action.op = "replace-text"
      /\ answer.action.target \in q.readOnly

\* A proposal to learn the field is opened by the host and carries nothing else.
LearningProposed(q, answer) ==
    /\ q.learning /\ q.goalKind = "set-field-value" /\ q.handoff = None
    /\ answer.action = None /\ answer.context = None /\ answer.selection = None
    /\ answer.evidence = {} /\ ~answer.userRequest

ContextAllowed(q, context) ==
    \/ ContextShown(context, q.projected, q.regions)
    \/ /\ context.kind = "local-screenshot" /\ q.visual
       /\ context.regions # {} /\ context.regions \subseteq q.regions

\* All that is checked before the read-only nodes.  echoed: versions and ids are those
\* of the request and there is an explanation.
WellFormed(q, answer) ==
    /\ answer.echoed
    /\ ExpectedEvidence(answer.evidence, q.projected)
    /\ \/ answer.status = "need-adapter" /\ LearningProposed(q, answer)
       \/ /\ answer.status \in {"done", "need-context", "need-user", "blocked"}
          /\ answer.selection = None /\ answer.action = None
          /\ answer.status = "need-context" =>
               answer.context # None /\ ContextAllowed(q, answer.context)
       \/ /\ answer.status = "act" /\ answer.action # None
          /\ ActionAllowed(q, answer)

\* The verdict: a text for a read-only control ends the request if its host can recover
\* from it (errActionNotApplicable), any other answer that fails is repaired once.
validateAgentStepOutput_ReadOnlyFirst(q, answer) ==   \* mutant: the other way round
    IF answer.action # None /\ WritesReadOnly(q, answer)
    THEN IF q.recovery = 1 THEN "not_applicable" ELSE "invalid"
    ELSE IF WellFormed(q, answer) THEN "ok" ELSE "invalid"
validateAgentStepOutput(q, answer) ==
    IF ~WellFormed(q, answer) THEN "invalid"
    ELSE IF ~WritesReadOnly(q, answer) THEN "ok"
    ELSE IF q.recovery = 1 THEN "not_applicable" ELSE "invalid"
=============================================================================
