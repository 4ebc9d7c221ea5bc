------------------------------ MODULE TaskStep ------------------------------
(***************************************************************************)
(* What agent_task_step lets through: the next tool call of a task, or why *)
(* there is none.  The request describes the tools; an argument is the     *)
(* type its value decodes as, "null", or "oversized".                      *)
(***************************************************************************)
EXTENDS AgentStep

TaskFields == {"learning", "handoffId", "handoff", "fields", "tools"}

ToolEffects == {"read", "write", "upload", "commit"}
Types == {"string", "number", "boolean", "strings", "numbers"}

\* TaskAgentReq.Validate; tools is a function from their names.
ValidTask(t) ==
    /\ AdapterHandoff(t)
    /\ t.handoff # "selection"
    /\ DOMAIN t.tools # {}
    /\ \A name \in DOMAIN t.tools :
         /\ t.tools[name].effect \in ToolEffects
         /\ \A p \in DOMAIN t.tools[name].parameters :
              t.tools[name].parameters[p].type \in Types

ToolCall(t, call) ==
    /\ call # None /\ call.name \in DOMAIN t.tools
    /\ LET declared == t.tools[call.name].parameters
       IN  /\ DOMAIN call.arguments \subseteq DOMAIN declared
           /\ \A p \in DOMAIN declared :
                IF p \in DOMAIN call.arguments THEN call.arguments[p] = declared[p].type
                ELSE ~declared[p].required

QuestionKinds == {"missing-data", "ambiguity", "permission", "page-context", "capability",
                  "unknown-submit"}

validateTaskAgentOutput(t, out) ==
    IF /\ out.echoed
       /\ out.status # "tool" => out.tool = None
       /\ out.status # "need-user" => out.question = None
       /\ \/ out.status = "need-adapter" /\ t.learning /\ t.handoff = None
          \/ out.status = "tool" /\ ToolCall(t, out.tool)
          \/ /\ out.status = "need-user" /\ out.question # None
             /\ out.question.kind \in QuestionKinds /\ out.question.fields \subseteq t.fields
          \/ out.status \in {"done", "blocked"}
    THEN "ok" ELSE "invalid"
=============================================================================
