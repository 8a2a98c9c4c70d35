--------------------------- MODULE AgentRunProofs ---------------------------
(****************************************************************************)
(* Proofs about AgentRun: the models in the server's memory, the name that  *)
(* telemetry goes by, and what an output that was made from an answer says. *)
(****************************************************************************)
EXTENDS AgentRun, FiniteSetTheorems, SequenceTheorems, TLAPS

----------------------------------------------------------------------------
(* The client of the server. *)

\* What the client knows between the requests of a series: no model is in
\* memory but the current one, and nothing is left behind after a completion.
\* Before a load the current model is gone or is the one to load; from the chat
\* on it is the one asked for; and a series has no outcome before its end.
KnowsServer ==
    /\ resident \subseteq {current}
    /\ step = "load" => current \in {NoModel, want}
    /\ step \in {"chat", "stream", "release"} => current = want
    /\ outcome = "answer" /\ use = "complete" => resident = {}

ClientInv ==
    /\ ClientTypeOK
    /\ step # "idle" => want \in Model /\ outcome = "none"
    /\ step = "list_models" => use \in {"complete", "stream", "load"}
    /\ step \in {"unload", "load"} => use \in {"complete", "stream", "load"}
    /\ step = "chat" => use = "complete"
    /\ step = "stream" => use = "stream"
    /\ step = "release" => use \in {"complete", "unload"}
    /\ failed \/ KnowsServer

\* A call of the client begins its series of requests.
LEMMA ClientCalls ==
  ASSUME ClientInv, NEW m \in Model,
         \/ \E u \in {"complete", "stream"} : Starts(m, u)
         \/ complete(m, FALSE)
         \/ \E force \in BOOLEAN : load_model(m, force)
         \/ unload_model
         \/ __init__
  PROVE  ClientInv'
<1> USE ModelAssumption DEF ClientTypeOK, Step, Outcome
<1>1. CASE \E u \in {"complete", "stream"} : Starts(m, u)
  BY <1>1 DEF ClientInv, KnowsServer, Starts
<1>2. CASE complete(m, FALSE)
  BY <1>2 DEF ClientInv, KnowsServer, complete, Returns
<1>3. CASE \E force \in BOOLEAN : load_model(m, force)
  BY <1>3 DEF ClientInv, KnowsServer, load_model
<1>4. CASE unload_model
  BY <1>4 DEF ClientInv, KnowsServer, unload_model
<1>5. CASE __init__
  BY <1>5 DEF ClientInv, KnowsServer, __init__
<1> QED BY <1>1, <1>2, <1>3, <1>4, <1>5

\* One request of the series is answered or fails.
LEMMA ClientRequests ==
  ASSUME ClientInv, NEW fits, Requests(fits)
  PROVE  ClientInv'
<1> USE ModelAssumption DEF ClientTypeOK, Step, Outcome
<1>1. CASE \E available \in BOOLEAN : list_models(available)
  BY <1>1 DEF ClientInv, KnowsServer, list_models, Returns
<1>2. CASE unload
  BY <1>2 DEF ClientInv, KnowsServer, unload, Does, MayDo
<1>3. CASE load
  BY <1>3 DEF ClientInv, KnowsServer, load, Does, Returns
<1>4. CASE chat(fits)
  BY <1>4 DEF ClientInv, KnowsServer, chat, Does, Returns
<1>5. CASE stream_ends
  BY <1>5 DEF ClientInv, KnowsServer, stream_ends, Does, Returns
<1>6. CASE release
  BY <1>6 DEF ClientInv, KnowsServer, release, Does, MayDo, Returns
<1>7. CASE unload_fails
  BY <1>7 DEF ClientInv, KnowsServer, unload_fails, Returns
<1>8. CASE \E error \in {"ConnectionError", "HTTPStatusError"} : request_fails(error)
  BY <1>8 DEF ClientInv, KnowsServer, request_fails, MayDo, Returns
<1> QED BY <1>1, <1>2, <1>3, <1>4, <1>5, <1>6, <1>7, <1>8 DEF Requests

\* The server drops a model.
LEMMA ServerEvicts ==
  ASSUME ClientInv, Evict
  PROVE  ClientInv'
  BY ModelAssumption DEF ClientInv, KnowsServer, ClientTypeOK, Step, Outcome, Evict

\* The client's variables in the hands of an agent: every step of a behaviour
\* is a call, a request, an eviction, or leaves the client as it is, but for
\* the outcome, which the agent takes.
LEMMA ClientSteps ==
  ASSUME ClientInv, [Next]_vars
  PROVE  ClientInv'
<1>1. CASE \E a \in Agent : \E input \in Inputs[a] : execute(a, input)
  BY <1>1 DEF execute, ClientInv, KnowsServer, ClientTypeOK, Outcome
<1>2. CASE \E m \in Model : attempt_calls(m)
  <2>1. PICK m \in Model : complete(m, prompt <= Budget)
    BY <1>2 DEF attempt_calls
  <2>2. Starts(m, "complete") \/ complete(m, FALSE)
    BY <2>1 DEF complete
  <2> QED BY <2>2, ClientCalls
<1>3. CASE attempt_times_out \/ call_times_out \/ attempt_raises \/ TimePasses
  <2>1. UNCHANGED clientVars
    BY <1>3 DEF attempt_times_out, call_times_out, attempt_raises, TimePasses
  <2> QED BY <2>1 DEF clientVars, ClientInv, KnowsServer, ClientTypeOK
<1>4. CASE completion_proceeds
  <2>1. PICK length \in 1..effective_max_tokens : Requests(prompt + length <= Budget)
    BY <1>4 DEF completion_proceeds
  <2> QED BY <2>1, ClientRequests
<1>5. CASE \E a \in Answers[agent] : attempt_concludes(a)
  <2>1. /\ UNCHANGED <<current, resident, step, use, want, failed>>
        /\ step = "idle" /\ outcome' \in {outcome, "none"}
    BY <1>5 DEF attempt_concludes, Concludes, Retries
  <2> QED BY <2>1 DEF ClientInv, KnowsServer, ClientTypeOK, Outcome
<1>6. CASE OtherUse
  <2>1. CASE \E m \in Model : stream(m) \/ \E force \in BOOLEAN : load_model(m, force)
    <3>1. PICK m \in Model : Starts(m, "stream") \/ \E force \in BOOLEAN : load_model(m, force)
      BY <2>1 DEF stream
    <3> QED BY <3>1, ClientCalls
  <2>2. CASE unload_model \/ __init__
    <3>1. current \in Model \/ __init__
      BY <2>2 DEF unload_model, ClientInv, ClientTypeOK
    <3> QED BY <2>2, <3>1 DEF ClientInv, KnowsServer, ClientTypeOK, unload_model, __init__, Step, Outcome
  <2>3. CASE Requests(TRUE)
    BY <2>3, ClientRequests
  <2> QED BY <1>6, <2>1, <2>2, <2>3 DEF OtherUse
<1>7. CASE Evict
  BY <1>7, ServerEvicts
<1>8. CASE UNCHANGED vars
  BY <1>8 DEF vars, clientVars, ClientInv, KnowsServer, ClientTypeOK
<1> QED BY <1>1, <1>2, <1>3, <1>4, <1>5, <1>6, <1>7, <1>8 DEF Next

\* The server's models and what the client believes of them, at every request
\* of chat and of the others (llm_client.py).
THEOREM ClientInvariant == Spec => []ClientInv
<1>1. Init => ClientInv
  BY ModelAssumption DEF Init, ClientInit, ClientInv, KnowsServer, ClientTypeOK, Step, Outcome
<1> QED BY <1>1, ClientSteps, PTL DEF Spec

\* "Single model resident at a time to respect 16GB RAM constraint": unless a
\* request failed or a client was replaced, whatever the agents do, and however
\* the calls of complete, stream, load_model and unload_model follow on one
\* another, the server never holds a model but the current one, and holds none
\* after a completion (OllamaClient).
THEOREM OneModel == Spec => []OneModelResident
<1>1. ClientInv => OneModelResident
  <2> SUFFICES ASSUME ClientInv, ~failed
               PROVE  OneModelResident
    BY DEF OneModelResident
  <2>1. resident \subseteq {current} /\ (outcome = "answer" /\ use = "complete" => resident = {})
    BY DEF ClientInv, KnowsServer
  <2>2. Cardinality(resident) <= 1
    <3>1. resident = {} \/ resident = {current}
      BY <2>1
    <3>2. Cardinality({}) = 0 /\ Cardinality({current}) = 1
      BY FS_EmptySet, FS_Singleton
    <3> QED BY <3>1, <3>2
  <2> QED BY <2>1, <2>2 DEF OneModelResident
<1> QED BY <1>1, ClientInvariant, PTL

----------------------------------------------------------------------------
(* The execution of an agent. *)

\* What the parsers return has one of the known statuses.
LEMMA ParsedStatus ==
  ASSUME NEW a, agent \in Agent
  PROVE  Parsed(a).status \in Status \cup {Raises}
<1>1. ParsePlan(a).status \in Status
  BY DEF ParsePlan, Salvaged, Error, Status
<1>2. ParseCode(a).status \in Status \cup {Raises}
  BY DEF ParseCode, Error, Status
<1>3. ParseReview(a).status \in Status
  BY DEF ParseReview, Error, Status
<1>4. ParseFix(a, Reviewed).status \in Status
  BY DEF ParseFix, Error, Status
<1> QED BY <1>1, <1>2, <1>3, <1>4 DEF Parsed, Agent

\* The inductive invariant of the executions: the types, who is named, and that
\* a success is what the parsers made of an answer to the agent that ran.
RunTypeOK ==
    /\ agent \in Agent /\ attempt \in 0..MaxRetries /\ late \in BOOLEAN
    /\ prompt \in Prompts \cup {0} /\ running \in BOOLEAN
    /\ output.status \in Status \cup {"none"}
    /\ named \in Agent \cup {Nobody} /\ started \in 0..MaxRuns

SuccessIsMade ==
    output.status = "SUCCESS" =>
        ~running /\ answer \in Answers[agent] /\ output = Parsed(answer)

RunInv == RunTypeOK /\ NamesWhoRuns /\ SuccessIsMade

LEMMA RunBounds == MaxRetries \in Nat /\ MaxRuns \in Nat
BY RunAssumption

\* An input is accepted or not.
LEMMA AcceptsOrNot ==
  ASSUME NEW a \in Agent, NEW input
  PROVE  Accepts(a, input) \in BOOLEAN
<1>1. CASE a = "planner"
  BY <1>1 DEF Accepts
<1>2. CASE a = "coder"
  BY <1>2 DEF Accepts
<1>3. CASE a = "reviewer"
  BY <1>3 DEF Accepts
<1>4. CASE a = "fixer"
  BY <1>4 DEF Accepts
<1> QED BY <1>1, <1>2, <1>3, <1>4 DEF Agent

\* The end of an execution keeps the invariant, if a success is made.
LEMMA EndSteps ==
  ASSUME RunInv, NEW result, result.status \in Status, agent' = agent, started' = started,
         result.status = "SUCCESS" =>
             answer' \in Answers[agent] /\ result = Parsed(answer)',
         \/ EndsRecorded(result)
         \/ EndsSilently(result) /\ result.status \in {"TIMEOUT", "REJECTED"}
  PROVE  RunInv'
<1> USE RunBounds
<1>1. RunTypeOK'
  <2>1. /\ agent' \in Agent /\ attempt' = 0 /\ prompt' = 0 /\ started' \in 0..MaxRuns
        /\ output'.status \in Status /\ named' \in Agent \cup {Nobody}
    BY DEF RunInv, RunTypeOK, EndsRecorded, EndsSilently, Ends
  <2>2. late' \in BOOLEAN /\ running' \in BOOLEAN
    BY Zenon DEF EndsRecorded, EndsSilently, Ends
  <2>3. attempt' \in 0..MaxRetries
    BY <2>1
  <2> QED BY <2>1, <2>2, <2>3, Zenon DEF RunTypeOK
<1>2. NamesWhoRuns'
  BY DEF RunInv, NamesWhoRuns, EndsRecorded, EndsSilently, Ends
<1>3. SuccessIsMade'
  BY DEF SuccessIsMade, EndsRecorded, EndsSilently, Ends
<1> QED BY <1>1, <1>2, <1>3 DEF RunInv

\* An answer is parsed, rejected for what it contains, or tried again.
LEMMA ConcludeSteps ==
  ASSUME RunInv, NEW a \in Answers[agent], attempt_concludes(a)
  PROVE  RunInv'
<1> USE RunBounds
<1>1. PICK result : /\ Concludes(a, result)
                    /\ \/ result = Parsed(a)
                       \/ result = Error("REJECTED")
  BY DEF attempt_concludes
<1>2. agent' = agent /\ started' = started
  BY DEF attempt_concludes
<1>3. agent \in Agent
  BY DEF RunInv, RunTypeOK
<1>4. result.status \in Status \cup {Raises}
  BY <1>1, <1>3, ParsedStatus DEF Error, Status
<1>5. answer' = a => Parsed(answer)' = Parsed(a)
  BY <1>2 DEF Parsed
<1>6. CASE answer' = a /\ result.status = Raises /\ EndsRecorded(Error("FAILED"))
  BY <1>2, <1>6, EndSteps DEF Error, Status
<1>7. CASE answer' = a /\ EndsSilently(Error("TIMEOUT"))
  BY <1>2, <1>7, EndSteps DEF Error, Status
<1>8. CASE answer' = a /\ result.status # Raises /\ EndsRecorded(result)
  <2>1. result.status = "SUCCESS" => result = Parsed(a)
    BY <1>1 DEF Error
  <2> QED BY <1>2, <1>4, <1>5, <1>8, <2>1, EndSteps
<1>9. CASE result.status # Raises /\ ~Final(result) /\ Retries(result)
  <2>1. result.status # "SUCCESS" /\ attempt # MaxRetries
    BY <1>9 DEF Final
  <2>2. RunTypeOK'
    BY <1>2, <1>4, <1>9, <2>1 DEF RunInv, RunTypeOK, Retries
  <2>3. running
    BY DEF attempt_concludes
  <2> QED BY <1>2, <1>9, <2>1, <2>2, <2>3 DEF RunInv, NamesWhoRuns, SuccessIsMade, Retries
<1> QED BY <1>1, <1>6, <1>7, <1>8, <1>9 DEF Concludes

LEMMA RunSteps ==
  ASSUME RunInv, [Next]_vars
  PROVE  RunInv'
<1> USE RunBounds
<1>1. CASE \E a \in Agent : \E input \in Inputs[a] : execute(a, input)
  <2>1. PICK a \in Agent : \E input \in Inputs[a] : execute(a, input)
    BY <1>1
  <2>2. PICK input \in Inputs[a] : execute(a, input)
    BY <2>1
  <2>3. running' \in BOOLEAN
    BY <2>2, AcceptsOrNot, Zenon DEF execute
  <2>4. output'.status = IF running' THEN "none" ELSE "REJECTED"
    BY <2>2 DEF execute, Nothing, Error
  <2>5. agent' = a /\ named' = a /\ attempt' = 0 /\ late' = FALSE /\ prompt' \in Prompts
        /\ started' = started + 1 /\ started < MaxRuns
    BY <2>2 DEF execute
  <2>6. RunTypeOK'
    <3>1. attempt' \in 0..MaxRetries /\ started' \in 0..MaxRuns
      BY <2>5 DEF RunInv, RunTypeOK
    <3>2. output'.status \in Status \cup {"none"}
      BY <2>4 DEF Status
    <3> QED BY <2>3, <2>5, <3>1, <3>2, Zenon DEF RunTypeOK
  <2> QED BY <2>3, <2>4, <2>5, <2>6 DEF RunInv, NamesWhoRuns, SuccessIsMade
<1>2. CASE \/ \E m \in Model : attempt_calls(m)
           \/ completion_proceeds \/ OtherUse \/ (Evict /\ UNCHANGED runVars) \/ UNCHANGED vars
  <2>1. UNCHANGED runVars
    BY <1>2 DEF attempt_calls, completion_proceeds, OtherUse, vars
  <2> QED BY <2>1 DEF runVars, RunInv, RunTypeOK, NamesWhoRuns, SuccessIsMade, Parsed
<1>3. CASE attempt_times_out
  BY <1>3, EndSteps DEF attempt_times_out, Error, Status
<1>4. CASE call_times_out \/ attempt_raises
  BY <1>4, EndSteps DEF call_times_out, attempt_raises, Error, Status
<1>5. CASE \E a \in Answers[agent] : attempt_concludes(a)
  BY <1>5, ConcludeSteps
<1>6. CASE TimePasses
  BY <1>6 DEF TimePasses, RunInv, RunTypeOK, NamesWhoRuns, SuccessIsMade, Parsed
<1> QED BY <1>1, <1>2, <1>3, <1>4, <1>5, <1>6 DEF Next

\* Where an execution is and what it has come to, with the name telemetry has
\* (execute of agents/base.py).
THEOREM RunInvariant == Spec => []RunInv
<1>1. Init => RunInv
  <2> SUFFICES ASSUME Init PROVE RunInv
    OBVIOUS
  <2>1. /\ attempt \in 0..MaxRetries /\ started \in 0..MaxRuns
        /\ agent \in Agent /\ prompt = 0 /\ output.status = "none" /\ named = Nobody
    BY RunBounds DEF Init, Agent, Nothing, Error
  <2>2. late = FALSE /\ running = FALSE
    BY DEF Init
  <2>3. RunTypeOK
    BY <2>1, <2>2, Zenon DEF RunTypeOK
  <2> QED BY <2>1, <2>2, <2>3 DEF RunInv, NamesWhoRuns, SuccessIsMade
<1> QED BY <1>1, RunSteps, PTL DEF Spec

\* AgentRun is type correct: the client is where its series of requests can be,
\* an agent makes at most max_agent_retries attempts after the first, and an
\* output has one of the statuses of AgentStatus.
THEOREM RunTypeCorrect == Spec => []TypeOK
<1>1. ClientInv /\ RunInv => TypeOK
  BY Zenon DEF ClientInv, RunInv, RunTypeOK, TypeOK
<1> QED BY <1>1, ClientInvariant, RunInvariant, PTL

\* Telemetry attributes calls to the agent that runs, and between executions to
\* nobody, unless the last one timed out or was rejected (BaseAgent.execute).
THEOREM NamesAreRight == Spec => []NamesWhoRuns
<1> QED BY RunInvariant, PTL DEF RunInv

----------------------------------------------------------------------------
(* The reviewer's approvals. *)

\* What the parser makes of a review: the approval and the completion survive
\* only where no issue is left that objects.
LEMMA ReviewIsClean ==
  ASSUME NEW a, NEW out, out = ParseReview(a), out.status = "SUCCESS",
         out.verdict = "APPROVE" \/ out.complete
  PROVE  /\ Objections(Kept(a.issues)) = {}
         /\ out.issues = Kept(a.issues)
         /\ out.verdict = "APPROVE" => out.complete
<1> DEFINE issues   == Kept(a.issues)
           asked    == IF a.verdict = "other" THEN "REQUEST_CHANGES" ELSE a.verdict
           verdict  == IF Objections(issues) # {} /\ asked = "APPROVE"
                       THEN "REQUEST_CHANGES" ELSE asked
           done     == (asked = "APPROVE" \/ a.complete = "yes") /\ Objections(issues) = {}
<1>1. ~(~IsObject(a) \/ ~a.fits)
  BY DEF ParseReview, Error
<1>2. out = [status |-> "SUCCESS", verdict |-> verdict, complete |-> done, issues |-> issues]
  BY <1>1, Zenon DEF ParseReview
<1>3. /\ verdict = "APPROVE" => asked = "APPROVE" /\ Objections(issues) = {}
      /\ done => Objections(issues) = {}
      /\ asked = "APPROVE" /\ Objections(issues) = {} => done
  OBVIOUS
<1> HIDE DEF issues, asked, verdict, done
<1>4. out.verdict = verdict /\ out.complete = done /\ out.issues = issues
  BY <1>2
<1>5. verdict = "APPROVE" \/ done
  BY <1>4, Zenon
<1> QED BY <1>3, <1>4, <1>5, Zenon DEF issues

\* No issue that is kept objects only if none in the answer did.
LEMMA NothingObjects ==
  ASSUME NEW issues, Objections(Kept(issues)) = {},
         NEW i \in issues, i.file \in {"changed", "none"}
  PROVE  ~(i.severity \in Severe) /\ i.blocking # "yes"
<1> DEFINE kept == [severity |-> i.severity,
                    blocking |-> i.blocking = "yes"
                                   \/ (i.blocking = "unset" /\ i.severity \in Severe)]
<1>1. kept \in Kept(issues)
  BY DEF Kept
<1>2. ~(kept.severity \in Severe \/ kept.blocking)
  BY <1>1 DEF Objections
<1> QED BY <1>2

\* An approval, and a completed task, is never given while an issue about the
\* changes is critical, major or blocking, whatever the model answered
\* (ReviewerAgent._parse_response): the loop stops for good on it.
THEOREM ApprovalsAreClean == Spec => []ApprovalIsClean
<1>1. RunInv => ApprovalIsClean
  <2> SUFFICES ASSUME RunInv, agent = "reviewer", output.status = "SUCCESS",
                      output.verdict = "APPROVE" \/ output.complete
               PROVE  /\ Objections(output.issues) = {}
                      /\ output.verdict = "APPROVE" => output.complete
                      /\ \A i \in answer.issues :
                             i.file \in {"changed", "none"} =>
                                 ~(i.severity \in Severe) /\ i.blocking # "yes"
    BY DEF ApprovalIsClean
  <2>1. output = ParseReview(answer)
    BY DEF RunInv, SuccessIsMade, Parsed
  <2>2. /\ Objections(Kept(answer.issues)) = {}
        /\ output.issues = Kept(answer.issues)
        /\ output.verdict = "APPROVE" => output.complete
    BY <2>1, ReviewIsClean
  <2>3. \A i \in answer.issues :
           i.file \in {"changed", "none"} => ~(i.severity \in Severe) /\ i.blocking # "yes"
    BY <2>2, NothingObjects
  <2> QED BY <2>2, <2>3
<1> QED BY <1>1, RunInvariant, PTL

----------------------------------------------------------------------------
(* The planner's plans. *)

\* A plan is a sequence.
IsPlan(s) == s \in Seq({s[k] : k \in DOMAIN s})

\* Ids are never more than the subtasks that have them.
LEMMA IdsBounded ==
  ASSUME NEW s, IsPlan(s)
  PROVE  Cardinality(Ids(s)) \in Nat /\ Cardinality(Ids(s)) <= Len(s)
<1> DEFINE f == [k \in 1..Len(s) |-> s[k].id]
<1>1. Len(s) \in Nat /\ DOMAIN s = 1..Len(s)
  BY DEF IsPlan
<1>2. f \in Surjection(1..Len(s), Ids(s))
  BY <1>1 DEF Surjection, Ids
<1>3. IsFiniteSet(1..Len(s)) /\ Cardinality(1..Len(s)) = Len(s)
  <2>1. ASSUME NEW n \in Nat
        PROVE  IsFiniteSet(1..n) /\ Cardinality(1..n) = n
    BY FS_Interval
  <2> QED BY <1>1, <2>1, Zenon
<1> HIDE DEF f
<1>4. IsFiniteSet(Ids(s)) /\ Cardinality(Ids(s)) <= Len(s)
  BY <1>2, <1>3, FS_Surjection
<1> QED BY <1>4, FS_CardinalityType

\* Where every dependency is an earlier subtask, in words of the places.
LEMMA OrderedPlaces ==
  ASSUME NEW s, IsPlan(s)
  PROVE  Ordered(s) <=> \A k \in 1..Len(s) : s[k].deps \subseteq {s[j].id : j \in 1..(k - 1)}
<1>1. Len(s) \in Nat /\ DOMAIN s = 1..Len(s)
  BY DEF IsPlan
<1>2. ASSUME NEW k \in 1..Len(s)
      PROVE  Ids(SubSeq(s, 1, k - 1)) = {s[j].id : j \in 1..(k - 1)}
  <2> DEFINE earlier == SubSeq(s, 1, k - 1)
  <2>1. /\ DOMAIN earlier = 1..(k - 1)
        /\ \A j \in 1..(k - 1) : earlier[j] = s[j]
    BY <1>1 DEF IsPlan
  <2> HIDE DEF earlier
  <2>2. Ids(earlier) = {earlier[j].id : j \in 1..(k - 1)}
    BY <2>1 DEF Ids
  <2>3. Ids(earlier) = {s[j].id : j \in 1..(k - 1)}
    BY <2>1, <2>2
  <2> QED BY <2>3 DEF earlier
<1> QED BY <1>1, <1>2 DEF Ordered

\* The plan of an answer is a sequence of at most max_subtasks subtasks, and it
\* is the beginning of what the items were made of.
LEMMA CappedPlan ==
  ASSUME NEW items, IsFiniteSet(DOMAIN items)
  PROVE  LET all == Coerced(items)
             s   == Capped(all)
         IN  /\ IsPlan(all) /\ IsPlan(s)
             /\ Len(s) <= Len(all) /\ Len(s) <= MaxSubtasks
             /\ \A k \in 1..Len(s) : s[k] = all[k]
<1> DEFINE all == Coerced(items)
           kept == {i \in DOMAIN items : items[i].form # "other"}
           n == Cardinality(kept)
           s == Capped(all)
<1>1. n \in Nat
  BY FS_Subset, FS_CardinalityType
<1>2. all = [k \in 1..n |-> all[k]] /\ DOMAIN all = 1..n
  BY DEF Coerced
<1> HIDE DEF all, n
<1>3. IsPlan(all) /\ Len(all) = n
  BY <1>1, <1>2 DEF IsPlan
<1> DEFINE m == IF n < MaxSubtasks THEN n ELSE MaxSubtasks
<1>4. m \in Nat /\ m <= n /\ m <= MaxSubtasks
  BY <1>1, AnswersAssumption
<1>5. s = SubSeq(all, 1, m)
  BY <1>3 DEF Capped
<1> HIDE DEF m, s
<1>6. Len(s) = m /\ \A k \in 1..m : s[k] = all[k]
  BY <1>1, <1>3, <1>4, <1>5 DEF IsPlan
<1>7. s = [k \in 1..m |-> s[k]]
  BY <1>1, <1>3, <1>4, <1>5 DEF IsPlan
<1>8. IsPlan(s)
  BY <1>4, <1>7 DEF IsPlan
<1> QED BY <1>3, <1>4, <1>6, <1>8 DEF all, s

\* A plan that is salvaged can be run.
LEMMA SalvagedPlan ==
  ASSUME NEW a, a.lines \in Nat
  PROVE  LET s == Salvaged(a).subtasks IN
         /\ IsPlan(s) /\ s # <<>> /\ Len(s) <= MaxSteps
         /\ Cardinality(Ids(s)) = Len(s)
         /\ Ordered(s)
<1> DEFINE lines == IF a.lines < MaxSteps THEN a.lines ELSE MaxSteps
           m     == IF lines = 0 THEN 1 ELSE lines
           s     == Salvaged(a).subtasks
<1>1. m \in Nat /\ 1 <= m /\ m <= MaxSteps
  BY AnswersAssumption
<1>2. s = [k \in 1..m |-> [id |-> k, deps |-> IF k = 1 THEN {} ELSE {k - 1}, ok |-> TRUE]]
  BY DEF Salvaged
<1> HIDE DEF m, s
<1>3. DOMAIN s = 1..m
      /\ \A k \in 1..m : s[k].id = k /\ s[k].deps = IF k = 1 THEN {} ELSE {k - 1}
  BY <1>2
<1>4. s = [k \in 1..m |-> s[k]]
  BY <1>2
<1>5. IsPlan(s) /\ Len(s) = m
  BY <1>1, <1>3, <1>4 DEF IsPlan
<1>6. Ids(s) = 1..m
  <2>1. Ids(s) = {s[k].id : k \in 1..m}
    BY <1>3 DEF Ids
  <2>2. \A k \in 1..m : s[k].id = k
    BY <1>3
  <2> HIDE <1>3
  <2> QED BY <2>1, <2>2
<1>7. Cardinality(1..m) = m
  BY <1>1, FS_Interval
<1>8. Ordered(s)
  <2>1. ASSUME NEW k \in 1..m
        PROVE  s[k].deps \subseteq {s[j].id : j \in 1..(k - 1)}
    <3>1. CASE k = 1
      BY <1>3, <3>1
    <3>2. CASE k # 1
      <4>1. k - 1 \in 1..(k - 1) /\ k - 1 \in 1..m
        BY <1>1, <3>2
      <4>2. s[k - 1].id = k - 1 /\ s[k].deps = {k - 1}
        BY <1>3, <3>2, <4>1
      <4> QED BY <4>1, <4>2
    <3> QED BY <3>1, <3>2
  <2> QED BY <1>5, <2>1, OrderedPlaces
<1>9. s # <<>>
  BY <1>1, <1>3
<1> QED BY <1>1, <1>5, <1>6, <1>7, <1>8, <1>9 DEF s

\* A plan the planner returns can be run: no two subtasks share an id, there are
\* at most max_subtasks of them (or the lines of a salvaged text), something is
\* to be done, and if the model put the subtasks in order then the cut leaves
\* no dependency on a subtask that is gone (PlannerAgent._parse_response,
\* _validate_plan_semantics, _salvage_minimal_plan).
THEOREM PlansAreRunnable == Spec => []PlanIsRunnable
<1>1. RunInv => PlanIsRunnable
  <2> SUFFICES ASSUME RunInv, agent = "planner", output.status = "SUCCESS"
               PROVE  PlanIsRunnable
    BY DEF PlanIsRunnable
  <2>1. output = ParsePlan(answer) /\ answer \in Answers["planner"]
    BY DEF RunInv, SuccessIsMade, Parsed
  <2>2. IsFiniteSet(DOMAIN answer.items) /\ answer.lines \in Nat
    BY <2>1, RunAssumption
  <2>3. MaxSubtasks \in Nat /\ MaxSteps \in Nat
    BY AnswersAssumption
  <2> DEFINE all  == Coerced(answer.items)
             plan == output.subtasks
  <2>4. CASE output = Salvaged(answer)
    <3>1. /\ IsPlan(plan) /\ plan # <<>> /\ Len(plan) <= MaxSteps
          /\ Cardinality(Ids(plan)) = Len(plan) /\ Ordered(plan)
      BY <2>2, <2>4, SalvagedPlan
    <3>2. Len(plan) \in Nat
      BY <3>1 DEF IsPlan
    <3> HIDE DEF plan
    <3>3. Len(plan) <= Max2(MaxSubtasks, MaxSteps)
      BY <2>3, <3>1, <3>2 DEF Max2
    <3> QED BY <3>1, <3>3, Zenon DEF PlanIsRunnable, plan
  <2>5. CASE output # Salvaged(answer)
    <3> DEFINE subtasks == Capped(all)
               tools    == answer.toolCalls \ {"unknown"}
    <3>1. /\ ~EmptyPlan(subtasks, tools, answer.clarify)
          /\ ~SemanticError(subtasks)
          /\ output = [status |-> "SUCCESS", subtasks |-> subtasks,
                       toolCalls |-> tools, clarify |-> answer.clarify]
      BY <2>1, <2>5, Zenon DEF ParsePlan, Error
    <3>2. /\ IsPlan(all) /\ IsPlan(subtasks)
          /\ Len(subtasks) <= Len(all) /\ Len(subtasks) <= MaxSubtasks
          /\ \A k \in 1..Len(subtasks) : subtasks[k] = all[k]
      BY <2>2, CappedPlan
    <3>3. ~(Cardinality(Ids(subtasks)) < Len(subtasks))
      BY <3>1 DEF SemanticError
    <3>4. plan = subtasks /\ output.toolCalls = tools /\ output.clarify = answer.clarify
      BY <3>1
    <3> HIDE DEF all, plan, subtasks, tools
    <3>5. Len(subtasks) \in Nat /\ Len(all) \in Nat
      BY <3>2 DEF IsPlan
    <3>6. Cardinality(Ids(subtasks)) = Len(subtasks)
      BY <3>2, <3>3, <3>5, IdsBounded
    <3>7. Len(subtasks) <= Max2(MaxSubtasks, MaxSteps)
      BY <2>3, <3>2, <3>5 DEF Max2
    <3>8. Ordered(all) => Ordered(subtasks)
      <4>1. ASSUME Ordered(all), NEW k \in 1..Len(subtasks)
            PROVE  subtasks[k].deps \subseteq {subtasks[j].id : j \in 1..(k - 1)}
        <5>1. k \in 1..Len(all) /\ \A j \in 1..(k - 1) : j \in 1..Len(subtasks)
          BY <3>2, <3>5
        <5>2. all[k].deps \subseteq {all[j].id : j \in 1..(k - 1)}
          BY <3>2, <4>1, <5>1, OrderedPlaces
        <5> QED BY <3>2, <5>1, <5>2
      <4> QED BY <3>2, <4>1, OrderedPlaces
    <3>9. subtasks # <<>> \/ tools # {} \/ answer.clarify
      BY <3>1 DEF EmptyPlan
    <3>10. answer.root = "object"
      BY <2>1, <2>5, RunAssumption DEF ParsePlan, PlanRoot, Error
    <3> QED BY <3>4, <3>6, <3>7, <3>8, <3>9, <3>10, Zenon DEF PlanIsRunnable, plan, all
  <2> QED BY <2>4, <2>5
<1> QED BY <1>1, RunInvariant, PTL
=============================================================================
