------------------------------ MODULE AgentRun ------------------------------
(****************************************************************************)
(* One execution of an agent after another (BaseAgent.execute and _call_llm *)
(* in src/agents/base.py): attempts, the completion each of them asks the   *)
(* client for, what is made of the answer, and what telemetry is told.      *)
(****************************************************************************)
EXTENDS LLMClient, AgentAnswers

CONSTANTS
    MaxRetries,     \* max_agent_retries
    Budget,         \* max_tokens of the agent, in units of the floor
    Floor,          \* the tokens a completion is always allowed (64)
    Prompts,        \* the prompt sizes there are
    Inputs,         \* agent -> its inputs
    Answers,        \* agent -> the answers a model may give it
    Reviewed,       \* the issues a fixer is given
    MaxRuns         \* bound: executions in a behaviour

ASSUME RunAssumption ==
    /\ {MaxRetries, Budget, Floor, MaxRuns} \subseteq Nat /\ Floor > 0
    /\ Prompts \subseteq Nat
    /\ \A a \in Answers["planner"] :
           a.root \in PlanRoot /\ IsFiniteSet(DOMAIN a.items) /\ a.lines \in Nat

VARIABLES
    agent,      \* the agent that executes, or did last
    attempt,
    late,       \* elapsed_seconds > timeout_seconds
    prompt,     \* tokens of the prompt
    answer,     \* history: the answer the output was made of
    output,     \* last_output, and in the end what execute returns
    running,    \* is execute running?
    named,      \* telemetry: _current_agent
    started     \* history: how many executions began

runVars == <<agent, attempt, late, prompt, answer, output, running, named, started>>
vars == <<clientVars, runVars>>

----------------------------------------------------------------------------
Agent == {"planner", "coder", "reviewer", "fixer"}
Nobody == "nobody"
Nothing == Error("none")

Init ==
    /\ ClientInit
    /\ agent = "planner" /\ attempt = 0 /\ late = FALSE
    /\ prompt = 0 /\ answer = Nothing /\ output = Nothing
    /\ running = FALSE /\ named = Nobody /\ started = 0

Max2(a, b) == IF a > b THEN a ELSE b
Min2(a, b) == IF a < b THEN a ELSE b

\* _call_llm: what is left of the budget, but never less than the floor.
effective_max_tokens == Max2(1, Min2(Budget, Max2(Floor, Budget - prompt)))

\* The end of execute that telemetry hears of, and the one it does not.
Ends(result) ==
    /\ output' = result /\ running' = FALSE
    /\ attempt' = 0 /\ late' = FALSE /\ prompt' = 0

EndsRecorded(result) == Ends(result) /\ named' = Nobody

EndsSilently(result) == Ends(result) /\ UNCHANGED named

\* record_agent_start, then the validation of the input.
execute(a, input) ==
    /\ ~running /\ step = "idle"
    /\ started < MaxRuns /\ started' = started + 1
    /\ agent' = a /\ attempt' = 0 /\ late' = FALSE
    /\ \E p \in Prompts : prompt' = p
    /\ answer' = Nothing /\ outcome' = "none"
    /\ named' = a
    /\ running' = Accepts(a, input)
    /\ output' = IF running' THEN Nothing ELSE Error("REJECTED")
    /\ UNCHANGED <<current, resident, step, use, want, failed>>

\* An attempt begins: a completion is asked for.
Ready == running /\ step = "idle" /\ outcome = "none"

attempt_calls(m) ==
    /\ Ready /\ ~late
    /\ complete(m, prompt <= Budget)
    /\ UNCHANGED runVars

attempt_times_out ==
    /\ Ready /\ late
    /\ EndsSilently(Error("TIMEOUT"))
    /\ UNCHANGED <<clientVars, agent, answer, started>>

\* _call_llm looks at the time again when the prompt is built: TimeoutError.
call_times_out ==
    /\ Ready /\ late
    /\ EndsRecorded(Error("FAILED"))
    /\ UNCHANGED <<clientVars, agent, answer, started>>

\* The request of the completion under way.
completion_proceeds ==
    /\ running
    /\ \E length \in 1..effective_max_tokens : Requests(prompt + length <= Budget)
    /\ UNCHANGED runVars

\* An exception, whatever it is, ends the execution: only answers are retried.
attempt_raises ==
    /\ running /\ step = "idle" /\ outcome \notin {"none", "answer"}
    /\ EndsRecorded(Error("FAILED"))
    /\ UNCHANGED <<clientVars, agent, answer, started>>

Parsed(a) ==
    CASE agent = "planner"  -> ParsePlan(a)
      [] agent = "coder"    -> ParseCode(a)
      [] agent = "reviewer" -> ParseReview(a)
      [] agent = "fixer"    -> ParseFix(a, Reviewed)

Retries(result) ==
    /\ attempt' = attempt + 1 /\ outcome' = "none" /\ output' = result /\ answer' = Nothing
    /\ UNCHANGED <<late, prompt, running, named>>

Final(result) == result.status = "SUCCESS" \/ attempt = MaxRetries

\* Faulty variant: telemetry hears only of a success.
Concludes_Unrecorded(a, result) ==
    \/ answer' = a /\ EndsSilently(result) /\ UNCHANGED outcome
    \/ result.status # Raises /\ ~late /\ ~Final(result) /\ Retries(result)

\* An output that is made, or rejected for what it contains, is returned if it
\* is a success or the last; if it came too late it is dropped.
Concludes(a, result) ==
    \/ /\ answer' = a /\ UNCHANGED outcome
       /\ \/ result.status = Raises /\ EndsRecorded(Error("FAILED"))
          \/ result.status # Raises /\ late /\ EndsSilently(Error("TIMEOUT"))
          \/ result.status # Raises /\ ~late /\ Final(result) /\ EndsRecorded(result)
    \/ result.status # Raises /\ ~late /\ ~Final(result) /\ Retries(result)

attempt_concludes(a) ==
    /\ running /\ step = "idle" /\ outcome = "answer"
    /\ LET made == Parsed(a) IN
           \/ Concludes(a, made)
           \/ made.status # Raises /\ Concludes(a, Error("REJECTED"))
    /\ UNCHANGED <<agent, started, current, resident, step, use, want, failed>>

TimePasses ==
    /\ running /\ ~late
    /\ late' = TRUE
    /\ UNCHANGED <<clientVars, agent, attempt, prompt, answer, output, running, named,
                   started>>

\* The client's other operations, before an execution.
OtherUse ==
    /\ ~running /\ output = Nothing
    /\ \/ \E m \in Model : stream(m) \/ \E force \in BOOLEAN : load_model(m, force)
       \/ unload_model
       \/ __init__
       \/ step # "idle" /\ Requests(TRUE)
    /\ UNCHANGED runVars

Next ==
    \/ \E a \in Agent : \E input \in Inputs[a] : execute(a, input)
    \/ \E m \in Model : attempt_calls(m)
    \/ attempt_times_out \/ call_times_out \/ completion_proceeds \/ attempt_raises
    \/ \E a \in Answers[agent] : attempt_concludes(a)
    \/ TimePasses \/ OtherUse
    \/ Evict /\ UNCHANGED runVars

Spec == Init /\ [][Next]_vars

----------------------------------------------------------------------------
TypeOK ==
    /\ ClientTypeOK
    /\ agent \in Agent /\ attempt \in 0..MaxRetries /\ late \in BOOLEAN
    /\ prompt \in Prompts \cup {0} /\ running \in BOOLEAN
    /\ output.status \in Status \cup {"none"}
    /\ named \in Agent \cup {Nobody} /\ started \in 0..MaxRuns

\* A review that approves, or says that the task is complete, leaves no issue
\* open that blocks: neither in its list nor in the answer it was made of, as
\* far as that was about the changes (the loop stops for good on it).
ApprovalIsClean ==
    ~running /\ agent = "reviewer" /\ output.status = "SUCCESS"
        /\ (output.verdict = "APPROVE" \/ output.complete) =>
        /\ Objections(output.issues) = {}
        /\ output.verdict = "APPROVE" => output.complete
        /\ \A i \in answer.issues :
               i.file \in {"changed", "none"} =>
                   ~(i.severity \in Severe) /\ i.blocking # "yes"

\* In the answer every dependency is an earlier subtask.
Ordered(subtasks) ==
    \A k \in DOMAIN subtasks : subtasks[k].deps \subseteq Ids(SubSeq(subtasks, 1, k - 1))

\* A plan can be run: its ids are distinct, and if the model put its subtasks
\* in order then cutting the plan off leaves no dependency on one that is gone
\* (the graph never starts such a task).
PlanIsRunnable ==
    ~running /\ agent = "planner" /\ output.status = "SUCCESS" =>
        LET plan == output.subtasks IN
        /\ Cardinality(Ids(plan)) = Len(plan) /\ Len(plan) <= Max2(MaxSubtasks, MaxSteps)
        /\ plan # <<>> \/ output.toolCalls # {} \/ output.clarify
        /\ answer.root # "object" \/ Ordered(Coerced(answer.items)) => Ordered(plan)

\* Telemetry attributes what happens between executions to nobody, except after
\* an execution that timed out or was rejected (record_agent_end is not called).
NamesWhoRuns ==
    /\ running => named = agent
    /\ ~running /\ output.status \notin {"TIMEOUT", "REJECTED"} => named = Nobody
=============================================================================
