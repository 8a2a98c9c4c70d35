----------------------------- MODULE MCAgentRun -----------------------------
(* An instance of AgentRun for TLC: answers of every shape the parsers tell *)
(* apart, with plans of up to three items cut off after two.                *)
EXTENDS AgentRun

Items ==
    [form : {"dict"}, id : {0, 1, 3}, deps : {{}, {1}, {3}}, ok : {TRUE}]
        \cup {[form |-> f, id |-> 0, deps |-> {}, ok |-> FALSE] : f \in {"dict", "text", "other"}}

Plan(root, items, fits, toolCalls, clarify, lines) ==
    [root |-> root, items |-> items, fits |-> fits, toolCalls |-> toolCalls,
     clarify |-> clarify, lines |-> lines]

PlanAnswers ==
    {Plan("object", items, TRUE, {}, FALSE, 0) :
        items \in {<<>>} \cup {<<i>> : i \in Items} \cup {<<i, j>> : i, j \in Items}
                  \cup {<<i, j, k>> : i, j, k \in Items}}
    \cup {Plan(root, <<>>, fits, tools, clarify, lines) :
            root \in {"blank", "text", "scalar", "object"}, fits \in BOOLEAN,
            tools \in {{}, {"known", "unknown"}}, clarify \in BOOLEAN, lines \in {0, 2, 4}}

Changes == {"safe", "unsafe", "mistyped"}

CodeAnswers ==
    [root : {"text", "object"}, fits : BOOLEAN, toolCalls : {{}, {"known", "unknown"}},
     changes : {<<>>} \cup {<<c>> : c \in Changes} \cup {<<c, d>> : c, d \in Changes}]

Issues == [severity : {"critical", "minor"}, file : IssueFile, blocking : {"yes", "no", "unset"}]

ReviewAnswers ==
    [root : {"object"}, fits : {TRUE}, verdict : {"APPROVE", "REQUEST_CHANGES", "REJECT", "other"},
     complete : {"yes", "no", "unset"}, issues : {{}} \cup {{i} : i \in Issues}]
    \cup [root : {"text"}, fits : BOOLEAN, verdict : {"other"}, complete : {"unset"}, issues : {{}}]

Issue == {"i1", "i2"}

FixAnswers ==
    [root : {"text", "object"}, fits : BOOLEAN, safe : BOOLEAN, lines : {-1, 1, 2},
     addressed : SUBSET Issue, open : SUBSET Issue]

AnswersOf == [planner |-> PlanAnswers, coder |-> CodeAnswers,
              reviewer |-> ReviewAnswers, fixer |-> FixAnswers]

InputsOf ==
    [planner  |-> {[description |-> 20]},
     coder    |-> {[title |-> TRUE, criteria |-> 1]},
     reviewer |-> [changes : {0, 1}],
     fixer    |-> [changes : {1}, issues : {0, 1}]]

PromptSizes == {1, 3, 4, 5}
=============================================================================
