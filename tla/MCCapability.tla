---------------------------- MODULE MCCapability ----------------------------
\* Two nodes in every role they can have, a value of two parts, one skill and two
\* transforms; for each operation the parameters it takes, and some it does not.
EXTENDS Capability

CONSTANTS N1, N2, Value, Part, Unknown, Handoff

Nodes == {N1, N2}
Parts == <<[id |-> "value", ref |-> Part, hint |-> 2], [id |-> "year", ref |-> Value, hint |-> 1]>>

-----------------------------------------------------------------------------
Base ==
    [version |-> 0, recovery |-> 0, goalKind |-> "set-field-value",
     projected |-> Nodes, regions |-> {"region"}, forbidden |-> {}, allowed |-> {},
     submit |-> {}, readOnly |-> {}, skills |-> {"skill"}, transforms |-> {"identity", "date"},
     valueRef |-> Value, hint |-> 3, parts |-> <<>>, learning |-> TRUE, visual |-> FALSE,
     handoffId |-> None, handoff |-> None]

Variants ==
    {Base, [Base EXCEPT !.goalKind = "reach-page", !.visual = TRUE],
     [Base EXCEPT !.handoffId = Handoff, !.handoff = "goal"]}
    \cup {[Base EXCEPT !.recovery = 1, !.version = v, !.transforms = {"date"}] : v \in {0, 1}}
    \cup {[Base EXCEPT !.version = 1, !.parts = p, !.recovery = n] : p \in {<<>>, Parts}, n \in {0, 1}}
    \cup {[Base EXCEPT !.version = 1, !.parts = p, !.handoffId = Handoff, !.handoff = h] :
            p \in {<<>>, Parts}, h \in {"goal", "selection"}}

InRole(q, n, role) ==
    [q EXCEPT !.projected = IF role = "hidden" THEN @ \ {n} ELSE @,
              !.forbidden = IF role = "forbidden" THEN @ \cup {n} ELSE @,
              !.submit = IF role = "submit" THEN @ \cup {n} ELSE @,
              !.readOnly = IF role = "readOnly" THEN @ \cup {n} ELSE @,
              !.allowed = IF q.version = 1 /\ role \notin {"hidden", "shown", "forbidden"}
                          THEN @ \cup {n} ELSE @]

MCStepRequests ==
    {InRole(InRole(q, N1, role), N2, other) :
       q \in Variants, role \in {"hidden", "shown", "forbidden", "open", "submit", "readOnly"},
       other \in {"hidden", "open"}}

-----------------------------------------------------------------------------
Opt(S) == S \cup {None}
With(op) == [p \in Parameters \cup {"op", "blank", "null"} |->
               IF p = "op" THEN op ELSE IF p \in {"blank", "null"} THEN {} ELSE None]
Slices == {[start |-> 0, end |-> 1], [start |-> 1, end |-> 3], [start |-> 1, end |-> 1]}

Clicks == {[With("click") EXCEPT !.target = t, !.valueRef = v, !.part = p, !.slice = s] :
             t \in Opt(Nodes), v \in Opt({Value, Part, Unknown}), p \in Opt({"year"}),
             s \in Opt(Slices)}
Writes == {[With("replace-text") EXCEPT !.target = t, !.valueRef = v, !.transform = f, !.slice = s] :
             t \in Opt(Nodes), v \in Opt({Value, Part, Unknown}),
             f \in Opt({"identity", "date", "upper"}), s \in Opt(Slices)}
Selects == {[With("select-native") EXCEPT !.target = t, !.option = o, !.selected = b] :
              t \in Opt(Nodes), o \in Opt(Nodes), b \in Opt(BOOLEAN)}
Skills == {[With("run-skill") EXCEPT !.target = t, !.skill = k, !.inputs = i] :
             t \in Opt(Nodes), k \in Opt({"skill", "other"}),
             i \in Opt({<<Value>>, <<GoalValue>>, <<Value, Part>>})}
Keys == {[With("press-key") EXCEPT !.target = t, !.key = k] :
           t \in Opt(Nodes), k \in {"Tab", "Enter"}}
Others == {With("focus"), With("commit-form"), [With("commit-form") EXCEPT !.target = N1],
           [With("focus") EXCEPT !.target = N1, !.option = N2],
           [With("scroll-page") EXCEPT !.direction = "up", !.amount = "page"],
           [With("scroll-node") EXCEPT !.target = N1]}
\* Keys that are sent and say nothing.
Keyed == {[a EXCEPT !.blank = b, !.null = n] :
            a \in {[With("click") EXCEPT !.target = N1], [With("press-key") EXCEPT !.key = "Tab"],
                  [With("replace-text") EXCEPT !.target = N2, !.valueRef = GoalValue],
                  [With("replace-text") EXCEPT !.target = N2, !.valueRef = Value]},
            b \in {{}, {"part"}, {"transform"}, {"other"}},
            n \in {{}, {"slice"}, {"target"}, {"block"}}}
MoreActions == Skills \cup Keys \cup Others \cup {a \in Keyed :
                   \A p \in a.blank \cup a.null : p # "other" => a[p] = None}

Effects == {[kind |-> "field-value-match", node |-> None], [kind |-> "visible", node |-> None],
            [kind |-> "visible", node |-> N1], [kind |-> "closed", node |-> N2]}

Saying(status) ==
    [status |-> status, echoed |-> TRUE, action |-> None, context |-> None, evidence |-> {},
     userRequest |-> FALSE, selection |-> None]
Acting(action) == [Saying("act") EXCEPT !.action = action]

Selections == [handoffId : {Handoff, Unknown}, candidate : Nodes]
Contexts == [kind : {"expand-nodes", "region-detail", "local-screenshot"},
             nodes : SUBSET Nodes, regions : {{}, {"region"}, {"elsewhere"}}]

MCStepAnswers ==
    {Acting(a) : a \in Clicks \cup Writes \cup Selects \cup MoreActions}
    \cup {[Acting(a) EXCEPT !.selection = s] :
            a \in Selects \cup {c \in Clicks : c.slice = None}, s \in Selections}
    \cup {[Acting([With("click") EXCEPT !.target = N1]) EXCEPT !.evidence = {e}] : e \in Effects}
    \cup {[Saying("need-context") EXCEPT !.context = c] : c \in Opt(Contexts)}
    \cup {Saying(s) : s \in {"need-adapter", "done", "need-user", "blocked", "act"}}
    \cup {[Saying("need-adapter") EXCEPT !.userRequest = TRUE],
          [Saying("done") EXCEPT !.echoed = FALSE],
          [Saying("done") EXCEPT !.action = With("focus")]}

-----------------------------------------------------------------------------
Goal(nodes) == [actions |-> nodes, evidence |-> nodes, forbidden |-> {},
                transforms |-> {"date"}, skills |-> {"skill"}]

MCPlanRequests ==
    LET base == [projected |-> Nodes, regions |-> {"region"}, submit |-> {}, readOnly |-> {},
                 goals |-> [g1 |-> Goal({N1}), g2 |-> Goal({N2})]]
    IN  {base, [base EXCEPT !.submit = {N2}], [base EXCEPT !.readOnly = {N1}],
         [base EXCEPT !.goals.g1 = Goal(Nodes)],
         [base EXCEPT !.goals.g1.forbidden = {N1}],
         [base EXCEPT !.goals.g2.evidence = {N1}, !.goals.g2.transforms = {"identity"}],
         [base EXCEPT !.projected = {N1}]}

RowActions ==
    {[With("replace-text") EXCEPT !.target = t, !.valueRef = v, !.transform = f] :
       t \in Opt(Nodes), v \in {GoalValue, Value}, f \in Opt({"date"})}
    \cup {[With("click") EXCEPT !.target = t] : t \in Opt(Nodes)}
    \cup {[With("select-native") EXCEPT !.target = t, !.option = o] : t, o \in Opt(Nodes)}
    \cup MoreActions

Steps(actions, effects) == [goal : {"g1", "g2", "g3"}, action : actions, evidence : effects]
Singles == Steps(RowActions, {{}}) \cup Steps({[With("click") EXCEPT !.target = N1]}, {{e} : e \in Effects})
Pairs == Steps({[With("click") EXCEPT !.target = t] : t \in Nodes}, {{}})

Plan(steps, deferred) ==
    [status |-> "planned", echoed |-> TRUE, steps |-> steps, deferred |-> deferred,
     context |-> None, userRequest |-> FALSE]

MCPlanAnswers ==
    {Plan(<<s>>, d) : s \in Singles, d \in {<<>>, <<"g2">>}}
    \cup {Plan(<<s, t>>, <<>>) : s, t \in Pairs}
    \cup {Plan(None, <<>>), Plan(<<>>, <<"g1", "g2">>), Plan(<<>>, <<"g1", "g1">>)}
    \cup {[Plan(None, <<>>) EXCEPT !.status = s, !.context = c, !.userRequest = u] :
            s \in {"need-user", "blocked", "need-context"}, c \in Opt(Contexts), u \in BOOLEAN}

-----------------------------------------------------------------------------
Tools == [fill |-> [effect |-> "write",
                    parameters |-> [row |-> [type |-> "number", required |-> TRUE],
                                    text |-> [type |-> "string", required |-> FALSE]]],
          look |-> [effect |-> "read", parameters |-> [node |-> [type |-> "strings", required |-> FALSE]]]]

MCTaskRequests ==
    [learning : BOOLEAN, handoffId : Opt({Handoff}), handoff : Opt({"goal", "selection"}),
     fields : {{}, {1}}, tools : {Tools, [look |-> Tools.look], << >>}]

Arguments == {"number", "string", "null", "oversized"}
Calls == [name : {"fill", "look", "send"},
          arguments : {<< >>} \cup [{"row"} -> Arguments] \cup [{"text"} -> Arguments]
                      \cup [{"row", "text"} -> Arguments] \cup [{"row", "sum"} -> {"number"}]]

Reply(status) == [status |-> status, echoed |-> TRUE, tool |-> None, question |-> None]
MCTaskAnswers ==
    {[Reply(s) EXCEPT !.echoed = e] :
       s \in {"tool", "need-user", "need-adapter", "done", "blocked", "act"}, e \in BOOLEAN}
    \cup {[Reply(s) EXCEPT !.tool = c] : s \in {"tool", "done"}, c \in Calls}
    \cup {[Reply(s) EXCEPT !.question = q] : s \in {"need-user", "blocked"},
            q \in [kind : {"ambiguity", "chat"}, fields : {{}, {1}, {2}}]}
=============================================================================
