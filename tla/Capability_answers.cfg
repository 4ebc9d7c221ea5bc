CONSTANTS
    None = None
    GoalValue = GoalValue
    N1 = N1
    N2 = N2
    Value = Value
    Part = Part
    Unknown = Unknown
    Handoff = Handoff
    StepRequests <- MCStepRequests
    StepAnswers <- MCStepAnswers
    PlanRequests <- MCPlanRequests
    PlanAnswers <- MCPlanAnswers
    TaskRequests <- MCTaskRequests
    TaskAnswers <- MCTaskAnswers
SPECIFICATION Spec
INVARIANTS AnswerIsGrounded HandoffAddsNoPermission PlanStepsAreSteps NotApplicableIsOtherwiseValid
\* A request that ended.
CHECK_DEADLOCK FALSE
