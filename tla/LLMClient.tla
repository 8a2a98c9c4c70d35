------------------------------ MODULE LLMClient ------------------------------
(****************************************************************************)
(* The client of the Ollama server (src/core/llm_client.py).  A completion  *)
(* is a series of HTTP requests: list the models, unload the current one,   *)
(* load the one asked for, chat, unload again.  A request is answered, or   *)
(* is answered with an error status, or fails in transport, and then the    *)
(* server may have done its work or not.  The server drops models by        *)
(* itself.                                                                  *)
(****************************************************************************)
EXTENDS Integers, FiniteSets

CONSTANTS
    Model,      \* the models requests ask for; the server may not have them
    NoModel

ASSUME ModelAssumption == NoModel \notin Model /\ IsFiniteSet(Model)

VARIABLES
    current,    \* _current_model
    resident,   \* the server: the models in memory
    step,       \* where the client is in its series of requests
    use,        \* what the series is for
    want,       \* the model it is for
    outcome,    \* what the last series returned or raised
    failed      \* history: an unload request failed, or the client is a new one

clientVars == <<current, resident, step, use, want, outcome, failed>>

----------------------------------------------------------------------------
Step == {"idle", "list_models", "unload", "load", "chat", "stream", "release"}

Outcome == {"none", "answer", "loaded", "unloaded", "ConnectionError", "HTTPStatusError",
            "ModelNotAvailableError", "TokenLimitExceededError"}

ClientInit ==
    /\ current = NoModel /\ resident = {}
    /\ step = "idle" /\ use = "complete" /\ want = NoModel
    /\ outcome = "none" /\ failed = FALSE

\* A new client for the server (_initialize_run): it knows of no model.
__init__ ==
    /\ step = "idle"
    /\ current' = NoModel
    /\ failed' = (failed \/ resident # {})
    /\ outcome' = "none"
    /\ UNCHANGED <<resident, step, use, want>>

Returns(o) == step' = "idle" /\ outcome' = o

\* The server after a request that adds or removes a model and may have failed.
Does(done) == resident' = done
MayDo(done) == resident' \in {resident, done}

\* complete and stream ask for the model unless it is the current one.
Starts(m, u) ==
    /\ step = "idle"
    /\ want' = m /\ use' = u /\ outcome' = "none"
    /\ step' = IF current # m THEN "list_models"
               ELSE IF u = "stream" THEN "stream" ELSE "chat"
    /\ UNCHANGED <<current, resident, failed>>

\* complete; fits: the prompt is within the token budget.
complete(m, fits) ==
    \/ fits /\ Starts(m, "complete")
    \/ /\ ~fits /\ step = "idle"
       /\ Returns("TokenLimitExceededError")
       /\ UNCHANGED <<current, resident, use, want, failed>>

stream(m) == Starts(m, "stream")

\* load_model, called by itself: with force it loads the current model again.
load_model(m, force) ==
    /\ step = "idle" /\ (current # m \/ force)
    /\ want' = m /\ use' = "load"
    /\ step' = "list_models" /\ outcome' = "none"
    /\ UNCHANGED <<current, resident, failed>>

\* unload_model, called by itself for the current model.
unload_model ==
    /\ step = "idle" /\ current # NoModel
    /\ want' = current /\ use' = "unload"
    /\ step' = "release" /\ outcome' = "none"
    /\ UNCHANGED <<current, resident, failed>>

\* The model is looked up; another one that is current is unloaded first.
list_models(available) ==
    /\ step = "list_models"
    /\ IF available
       THEN /\ step' = IF current \notin {NoModel, want} THEN "unload" ELSE "load"
            /\ UNCHANGED outcome
       ELSE Returns("ModelNotAvailableError")
    /\ UNCHANGED <<current, resident, use, want, failed>>

\* Faulty variant: the next model is loaded before the old one is given up.
unload_Skipped ==
    /\ step = "unload"
    /\ step' = "load" /\ current' = NoModel
    /\ UNCHANGED <<resident, use, want, outcome, failed>>

\* unload_model inside load_model: whether it worked is not asked.
unload ==
    /\ step = "unload"
    /\ step' = "load"
    /\ \/ Does(resident \ {current}) /\ current' = NoModel /\ UNCHANGED failed
       \/ MayDo(resident \ {current}) /\ failed' = TRUE /\ UNCHANGED current
    /\ UNCHANGED <<use, want, outcome>>

load ==
    /\ step = "load"
    /\ Does(resident \cup {want})
    /\ current' = want
    /\ IF use = "load"
       THEN Returns("loaded")
       ELSE step' = (IF use = "stream" THEN "stream" ELSE "chat") /\ UNCHANGED outcome
    /\ UNCHANGED <<use, want, failed>>

\* A transport error, or one of the server: unload's are dealt with there.
request_fails(error) ==
    /\ step \in {"list_models", "load", "chat", "stream"}
    /\ error \in {"ConnectionError", "HTTPStatusError"}
    /\ IF step = "list_models" THEN UNCHANGED resident ELSE MayDo(resident \cup {want})
    /\ failed' = (failed \/ resident' # resident)
    /\ Returns(error)
    /\ UNCHANGED <<current, use, want>>

\* unload_model catches RequestError only: an error status ends the series.
unload_fails ==
    /\ step \in {"unload", "release"}
    /\ Returns("HTTPStatusError")
    /\ failed' = TRUE
    /\ UNCHANGED <<current, resident, use, want>>

\* The answer; the server loads a model that it has dropped.  An answer that is
\* too long for the budget is not returned, and the model is left where it is.
chat(fits) ==
    /\ step = "chat"
    /\ Does(resident \cup {want})
    /\ IF fits THEN step' = "release" /\ UNCHANGED outcome
               ELSE Returns("TokenLimitExceededError")
    /\ UNCHANGED <<current, use, want, failed>>

\* The last chunk, or the consumer stops: nothing is unloaded.
stream_ends ==
    /\ step = "stream"
    /\ Does(resident \cup {want})
    /\ Returns("answer")
    /\ UNCHANGED <<current, use, want, failed>>

\* The unloading after a completion, or by itself.
release ==
    /\ step = "release"
    /\ \/ /\ Does(resident \ {want})
          /\ current' = IF current = want THEN NoModel ELSE current
          /\ UNCHANGED failed
       \/ /\ MayDo(resident \ {want})
          /\ failed' = TRUE /\ UNCHANGED current
    /\ Returns(IF use = "unload" THEN "unloaded" ELSE "answer")
    /\ UNCHANGED <<use, want>>

\* keep_alive runs out, or the server is restarted.
Evict ==
    /\ resident # {}
    /\ \E m \in resident : resident' = resident \ {m}
    /\ UNCHANGED <<current, step, use, want, outcome, failed>>

Requests(fits) ==
    \/ \E available \in BOOLEAN : list_models(available)
    \/ unload \/ load \/ chat(fits) \/ stream_ends \/ release \/ unload_fails
    \/ \E error \in {"ConnectionError", "HTTPStatusError"} : request_fails(error)

----------------------------------------------------------------------------
ClientTypeOK ==
    /\ current \in Model \cup {NoModel} /\ resident \subseteq Model
    /\ step \in Step /\ use \in {"complete", "stream", "load", "unload"}
    /\ want \in Model \cup {NoModel} /\ outcome \in Outcome /\ failed \in BOOLEAN

\* "Single model resident at a time to respect 16GB RAM constraint", and "unload
\* models between calls" (the module's design), as long as no request failed and
\* no client was replaced: the only model in memory is the current one, and none
\* is after a completion.
OneModelResident ==
    failed \/ /\ Cardinality(resident) <= 1 /\ resident \subseteq {current}
              /\ outcome = "answer" /\ use = "complete" => resident = {}
=============================================================================
