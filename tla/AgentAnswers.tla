---------------------------- MODULE AgentAnswers ----------------------------
(****************************************************************************)
(* What the four agents make of a model's answer (src/agents).  An answer   *)
(* is a record of what the parsers tell apart in its text: whether there is *)
(* a JSON value, whether it fits the schema, and the fields that decide the *)
(* output.  A field the model may leave out or that is null is "unset".     *)
(****************************************************************************)
EXTENDS Integers, Sequences, FiniteSets

CONSTANTS
    SubtaskId,      \* the ids a plan may use: numbers, for a missing one is the position
    MaxSubtasks,    \* limits.tasks.max_subtasks
    MaxSteps,       \* how many lines of a text a salvaged plan keeps (6)
    MaxFiles,       \* limits.files.max_per_task
    MaxLines        \* max_lines_per_fix

ASSUME AnswersAssumption ==
    /\ SubtaskId \subseteq Nat \ {0}
    /\ {MaxSubtasks, MaxSteps, MaxFiles, MaxLines} \subseteq Nat \ {0}

Status == {"SUCCESS", "FAILED", "REJECTED", "TIMEOUT"}

Error(status) == [status |-> status]

\* parse_json_object: an answer without JSON, or with a list, is an error.
IsObject(answer) == answer.root = "object"

----------------------------------------------------------------------------
(* The planner.  An item of a plan is a "dict", a "text" or something else. *)

\* Without JSON the answer is blank or a text; otherwise a plan, which may be
\* the list of its subtasks alone, or another value.
PlanRoot == {"blank", "text", "scalar", "object"}

\* _coerce_response_shape: other items are dropped, a missing id (0) becomes
\* the position, and a text has no dependencies.
Coerced(items) ==
    LET kept == {i \in DOMAIN items : items[i].form # "other"}
        Place(i) == Cardinality({j \in kept : j <= i})
    IN  [k \in 1..Cardinality(kept) |->
            LET i == CHOOSE i \in kept : Place(i) = k IN
            [id   |-> IF items[i].form = "text" \/ items[i].id = 0 THEN i ELSE items[i].id,
             deps |-> IF items[i].form = "text" THEN {} ELSE items[i].deps,
             ok   |-> items[i].form = "text" \/ items[i].ok]]

\* Faulty variant: the plan is cut off before it is put into shape.
Capped_Last(subtasks) ==
    SubSeq(subtasks, Len(subtasks) - (IF Len(subtasks) < MaxSubtasks THEN Len(subtasks) ELSE MaxSubtasks) + 1, Len(subtasks))

Capped(subtasks) ==
    SubSeq(subtasks, 1, IF Len(subtasks) < MaxSubtasks THEN Len(subtasks) ELSE MaxSubtasks)

Ids(subtasks) == {subtasks[k].id : k \in DOMAIN subtasks}

\* _validate_plan_semantics, whose errors are TypeErrors here; `ok` says that
\* the complexity is one of the three that are known.
SemanticError(subtasks) ==
    \/ Cardinality(Ids(subtasks)) < Len(subtasks)
    \/ \E k \in DOMAIN subtasks : ~subtasks[k].ok

EmptyPlan(subtasks, toolCalls, clarify) == subtasks = <<>> /\ toolCalls = {} /\ ~clarify

\* _salvage_minimal_plan: every line that looks like a step depends on the one
\* before; without such a line there is one subtask.
Salvaged(answer) ==
    LET lines == IF answer.lines < MaxSteps THEN answer.lines ELSE MaxSteps
    IN  [status    |-> "SUCCESS",
         subtasks  |-> [k \in 1..(IF lines = 0 THEN 1 ELSE lines) |->
                            [id |-> k, deps |-> IF k = 1 THEN {} ELSE {k - 1}, ok |-> TRUE]],
         toolCalls |-> {},
         clarify   |-> FALSE]

\* _parse_response of the planner.  Unknown tools are dropped; a text, a value
\* that does not fit the schema and an empty plan are salvaged, unless there is
\* no text at all, and an inconsistent plan is an error.
ParsePlan(answer) ==
    LET subtasks  == Capped(Coerced(answer.items))
        toolCalls == answer.toolCalls \ {"unknown"}
    IN  IF answer.root = "blank" THEN Error("FAILED")
        ELSE IF answer.root \in {"text", "scalar"} \/ ~answer.fits
                \/ EmptyPlan(subtasks, toolCalls, answer.clarify)
        THEN Salvaged(answer)
        ELSE IF SemanticError(subtasks) THEN Error("FAILED")
        ELSE [status |-> "SUCCESS", subtasks |-> subtasks,
              toolCalls |-> toolCalls, clarify |-> answer.clarify]

----------------------------------------------------------------------------
(* The coder.  A change has a safe path or not, and fields of the right     *)
(* type or not; pydantic's ValidationError is not among those it catches.   *)

Raises == "ValidationError"

FirstBad(changes) ==
    LET bad == {k \in DOMAIN changes : changes[k] # "safe"}
    IN  IF bad = {} THEN "safe" ELSE changes[CHOOSE k \in bad : \A j \in bad : k <= j]

ParseCode(answer) ==
    IF ~IsObject(answer) \/ FirstBad(answer.changes) = "unsafe" THEN Error("FAILED")
    ELSE IF FirstBad(answer.changes) = "mistyped" \/ ~answer.fits THEN Error(Raises)
    ELSE [status    |-> "SUCCESS",
          files     |-> IF Len(answer.changes) < MaxFiles THEN Len(answer.changes) ELSE MaxFiles,
          toolCalls |-> answer.toolCalls \ {"unknown"}]

----------------------------------------------------------------------------
(* The reviewer.  An issue is about a file of the changes, another file, an *)
(* unsafe path or no file.                                                  *)

IssueFile == {"changed", "other", "unsafe", "none"}
Severe == {"critical", "major"}

\* Issues about other files are dropped, and `blocking` has a default.
Kept(issues) ==
    {[severity |-> i.severity,
      blocking |-> i.blocking = "yes" \/ (i.blocking = "unset" /\ i.severity \in Severe)] :
        i \in {j \in issues : j.file \in {"changed", "none"}}}

\* Faulty variant: only the severity of an issue counts.
Objections_SeverityOnly(issues) == {i \in issues : i.severity \in Severe}

\* The issues no approval survives.
Objections(issues) == {i \in issues : i.severity \in Severe \/ i.blocking}

\* _parse_response of the reviewer: an unknown verdict asks for changes, an
\* approval completes the task, and objections take both back.
ParseReview(answer) ==
    LET issues   == Kept(answer.issues)
        verdict  == IF answer.verdict = "other" THEN "REQUEST_CHANGES" ELSE answer.verdict
        complete == verdict = "APPROVE" \/ answer.complete = "yes"
    IN  IF ~IsObject(answer) \/ ~answer.fits THEN Error("FAILED")
        ELSE [status   |-> "SUCCESS",
              verdict  |-> IF Objections(issues) # {} /\ verdict = "APPROVE"
                           THEN "REQUEST_CHANGES" ELSE verdict,
              complete |-> complete /\ Objections(issues) = {},
              issues   |-> issues]

----------------------------------------------------------------------------
(* The fixer.  How many lines a fix changes is what the answer says.        *)

ParseFix(answer, reviewed) ==
    IF ~IsObject(answer) \/ ~answer.fits \/ ~answer.safe THEN Error("FAILED")
    ELSE IF answer.lines > MaxLines THEN Error("REJECTED")
    ELSE [status    |-> "SUCCESS",
          addressed |-> answer.addressed,
          open      |-> answer.open \cup (reviewed \ (answer.addressed \cup answer.open))]

----------------------------------------------------------------------------
(* What an agent accepts as its input (_validate_input).                    *)

Accepts(agent, input) ==
    CASE agent = "planner"  -> input.description \in 10..5000
      [] agent = "coder"    -> input.title /\ input.criteria > 0
      [] agent = "reviewer" -> input.changes > 0
      [] agent = "fixer"    -> input.changes > 0 /\ input.issues > 0
=============================================================================
