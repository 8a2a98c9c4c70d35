----------------------------- MODULE AgentTools -----------------------------
(****************************************************************************)
(* The dispatcher of tool calls (src/core/agent_tools.py) with the profile  *)
(* that limits it (src/core/policy/profiles.py), the gate that asks before  *)
(* a command runs (src/core/hitl.py), the file tools, the shell of the run  *)
(* and the client of tool servers.  Calls come one after another; bash and  *)
(* the servers go on by themselves.                                         *)
(****************************************************************************)
EXTENDS PTYShell, MCPClient

CONSTANTS
    Command,        \* commands an agent may ask for
    AlwaysDeny,     \* those that match a pattern that is always denied
    ReadOnly,       \* those that begin like a command that only reads
    MaxCommands,    \* bound: commands asked for
    MaxCalls        \* bound: calls of all tools

ASSUME ToolsAssumption ==
    AlwaysDeny \cup ReadOnly \subseteq Command /\ {MaxCommands, MaxCalls} \subseteq Nat

VARIABLES
    profile,    \* the profile of the run
    gate,       \* HITLConfig, and whether a terminal is there
    file,       \* the file: "absent", "empty", or how often it has the string
    facts,      \* was a fact written to memory?
    call,       \* the call under way: [at, k, todo]
    log,        \* _approval_log: for each command, what it was and the decision
    results,    \* command -> what its call came to: [by, parts]
    signals,    \* calls recorded in memory: [ok, failed]
    changed     \* history: did this run change a file or call a tool of a server?

toolVars == <<profile, gate, file, facts, call, log, results, signals, changed>>
vars == <<shellVars, mcpVars, toolVars>>

----------------------------------------------------------------------------
Tools == {"run_command", "write_file", "replace_string", "delete_file", "write_memory",
          "read_file", "mcp_list_tools", "mcp_call", "unknown"}

Writes == {"write_file", "replace_string", "delete_file"}

\* POLICY_PROFILES; a name that is not known stands for the balanced one.
Profiles == {"strict", "balanced", "permissive"}

allowed_tools(p) ==
    CASE p = "strict"     -> Tools \ (Writes \cup {"run_command", "mcp_call", "unknown"})
      [] p = "balanced"   -> Tools \ {"delete_file", "unknown"}
      [] p = "permissive" -> Tools \ {"unknown"}

file_write_permissions(p) == p # "strict"

NoCall == [at |-> "none", k |-> 0, todo |-> <<>>]

ToolsInit ==
    /\ profile \in Profiles
    /\ gate \in [fully_autonomous : BOOLEAN, deny_mutating_in_ci : BOOLEAN, is_interactive : BOOLEAN]
    /\ file \in {"absent", "once"} /\ facts = FALSE
    /\ call = NoCall /\ log = <<>> /\ results = <<>>
    /\ signals = [ok |-> 0, failed |-> 0] /\ changed = FALSE

Init == ShellInit /\ MCPInit /\ ToolsInit

----------------------------------------------------------------------------
(* execute_call: what refuses a call before it is executed, in this order.  *)

refused(tool, valid) ==
    \/ tool = "unknown"
    \/ ~valid
    \/ tool \notin allowed_tools(profile)
    \/ (~file_write_permissions(profile) /\ tool \in Writes)

\* Every path leaves one signal; a result that is a text counts as a success,
\* whatever the text says.
_record(ok) ==
    signals' = IF ok THEN [signals EXCEPT !.ok = @ + 1] ELSE [signals EXCEPT !.failed = @ + 1]

Idle == call = NoCall /\ Free

\* Bounds the calls.
Counted == signals.failed + signals.ok < MaxCalls

execute_call_refused(tool, valid) ==
    /\ Idle /\ Counted /\ refused(tool, valid) /\ _record(FALSE)
    /\ UNCHANGED <<shellVars, mcpVars, profile, gate, file, facts, call, log, results, changed>>

Executes(tool) == Idle /\ Counted /\ ~refused(tool, TRUE)

----------------------------------------------------------------------------
(* The file tools, and the memory.                                          *)

\* write_file, replace_string and delete_file answer with a text when a check
\* fails, and change nothing then.  A text that cannot be encoded is found only
\* when the file is open and empty.
write_file(overwrite, after) ==
    IF ~overwrite /\ file # "absent" THEN <<file, TRUE>>
    ELSE <<after, after # "empty">>

replace_string(expect_count, after) ==
    IF <<file, expect_count>> \in {<<"once", 1>>, <<"twice", 2>>}
    THEN <<after, after # "empty">> ELSE <<file, TRUE>>

delete_file(require_confirmation) ==
    IF require_confirmation THEN <<file, TRUE>> ELSE <<"absent", TRUE>>

Outcomes(tool) ==
    CASE tool = "write_file" ->
            {write_file(o, a) : o \in BOOLEAN, a \in {"none", "once", "twice", "empty"}}
      [] tool = "replace_string" -> {replace_string(n, a) : n \in 0..2, a \in {"none", "once", "empty"}}
      [] tool = "delete_file"    -> {delete_file(c) : c \in BOOLEAN}

execute_file(tool) ==
    /\ tool \in Writes /\ Executes(tool)
    /\ \E o \in Outcomes(tool) :
        /\ file' = o[1] /\ _record(o[2])
        /\ changed' = (changed \/ o[1] # file)
    /\ UNCHANGED <<shellVars, mcpVars, profile, gate, facts, call, log, results>>

\* write_memory goes on to MemoryManager.add_fact; reading changes nothing.
execute_memory(tool) ==
    /\ tool \in {"write_memory", "read_file"} /\ Executes(tool)
    /\ facts' = (facts \/ tool = "write_memory")
    /\ _record(TRUE)
    /\ UNCHANGED <<shellVars, mcpVars, profile, gate, file, call, log, results, changed>>

----------------------------------------------------------------------------
(* The gate.                                                                *)

\* Faulty variant: the prefixes are looked at before the patterns.
classify_command_PrefixFirst(c) ==
    IF c \in ReadOnly THEN "auto" ELSE IF c \in AlwaysDeny THEN "deny" ELSE "ask"

classify_command(c) ==
    IF c \in AlwaysDeny THEN "deny" ELSE IF c \in ReadOnly THEN "auto" ELSE "ask"

\* _prompt_user: without a terminal nobody is asked; an answer that cannot be
\* read is a no.
_prompt_user ==
    IF gate.is_interactive THEN {"user_approved", "user_denied"}
    ELSE IF gate.deny_mutating_in_ci THEN {"non_interactive"} ELSE {"approved"}

\* HITLGate.check
check(c) ==
    IF classify_command(c) = "deny" THEN {"denied"}
    ELSE IF classify_command(c) = "auto" \/ gate.fully_autonomous THEN {"approved"}
    ELSE _prompt_user

Approved(decision) == decision \in {"approved", "user_approved"}

----------------------------------------------------------------------------
(* run_command.                                                             *)

NoResult == [by |-> "none", parts |-> <<>>]

\* _execute_run_command: the gate, the session of the run, and the line.  A
\* session that cannot be had leaves the fallback.
_execute_run_command(c) ==
    /\ Executes("run_command") /\ Len(log) < MaxCommands
    /\ \E decision \in check(c) :
        /\ log' = Append(log, [command |-> c, decision |-> decision, profile |-> profile])
        /\ IF Approved(decision)
           THEN /\ get_or_create /\ sendline(Len(log'))
                /\ call' = [NoCall EXCEPT !.at = IF shell' = "none" THEN "fallback" ELSE "expect",
                                          !.k = Len(log')]
                /\ UNCHANGED signals
           ELSE _record(TRUE) /\ UNCHANGED <<shell, input, output, mirrored, call>>
    /\ results' = Append(results, NoResult)
    /\ runs' = Append(runs, 0)
    /\ UNCHANGED <<busy, echo, behind, left, mcpVars, profile, gate, file, facts, changed>>

Returned(by, parts) ==
    /\ results' = [results EXCEPT ![call.k] = [by |-> by, parts |-> parts]]
    /\ call' = NoCall
    /\ _record(TRUE)
    /\ UNCHANGED <<profile, gate, file, facts, log, changed>>

run_returns ==
    /\ call.at = "expect"
    /\ sentinel_found(call.k, SubSeq(output, 1, Position(call.k) - 1))
    /\ Returned("shell", SubSeq(output, 1, Position(call.k) - 1))
    /\ UNCHANGED mcpVars

\* Whatever run raises, the command is handed to subprocess.
run_raises ==
    /\ call.at = "expect"
    /\ sentinel_timeout(call.k) \/ sentinel_eof(call.k)
    /\ call' = [call EXCEPT !.at = "fallback"]
    /\ UNCHANGED <<mcpVars, profile, gate, file, facts, log, results, signals, changed>>

_subprocess_fallback ==
    /\ call.at = "fallback" /\ Started(call.k)
    /\ call' = [call EXCEPT !.at = "subprocess"]
    /\ UNCHANGED <<shell, input, busy, output, echo, behind, mirrored, left, mcpVars>>
    /\ UNCHANGED <<profile, gate, file, facts, log, results, signals, changed>>

\* Its end, its timeout and its failure are all answered with a text.
subprocess_ends ==
    /\ call.at = "subprocess" /\ Returned("subprocess", <<>>)
    /\ UNCHANGED <<shellVars, mcpVars>>

----------------------------------------------------------------------------
(* The tools of the servers.  A request is answered before anything else.   *)

MCPUnchanged == UNCHANGED <<shellVars, profile, gate, file, facts, log, results>>

\* _execute_mcp_call: the answer, or the error, is a text.
_execute_mcp_call(tool) ==
    /\ Executes("mcp_call")
    /\ call_tool(tool)
    /\ IF asked' = 0 THEN _record(TRUE) /\ UNCHANGED call
       ELSE call' = [NoCall EXCEPT !.at = "mcp"] /\ UNCHANGED signals
    /\ changed' = TRUE
    /\ MCPUnchanged

\* _execute_mcp_list_tools: the servers one after another; one that fails is
\* passed over.
_execute_mcp_list_tools ==
    /\ Executes("mcp_list_tools")
    /\ call' = [NoCall EXCEPT !.at = "list", !.todo = servers]
    /\ MCPUnchanged /\ UNCHANGED <<mcpVars, signals, changed>>

list_next ==
    /\ call.at \in {"list", "register"} /\ Free /\ call.todo # <<>>
    /\ call' = [call EXCEPT !.todo = Tail(@)]
    /\ \/ fetch_tools(Head(call.todo), FALSE)
       \/ (Head(call.todo) \in DOMAIN schemas /\ UNCHANGED mcpVars)
    /\ MCPUnchanged /\ UNCHANGED <<signals, changed>>

\* register_mcp_server: greeted first, then asked for its tools, unless tools of
\* a server of this id are cached.
register_mcp_server(id) ==
    /\ Idle /\ register_server(id)
    /\ call' = [NoCall EXCEPT !.at = "register", !.todo = <<id>>]
    /\ MCPUnchanged /\ UNCHANGED <<signals, changed>>

mcp_answered ==
    /\ (\E ok \in BOOLEAN : readline(ok)) \/ readline_empty
    /\ MCPUnchanged /\ UNCHANGED <<call, signals, changed>>

\* The call ends; registering a server is no call of a tool.
mcp_returns ==
    /\ call.at \in {"mcp", "list", "register"} /\ Free /\ call.todo = <<>>
    /\ call' = NoCall
    /\ IF call.at = "register" THEN UNCHANGED signals ELSE _record(TRUE)
    /\ UNCHANGED <<mcpVars, changed>> /\ MCPUnchanged

----------------------------------------------------------------------------
(* A ToolExecutor for each run; at its end the session and the servers are  *)
(* closed, unless the run is to be continued.                               *)

close ==
    /\ Idle /\ (shell # "none" \/ servers # <<>>)
    /\ close_all /\ close_all_servers
    /\ UNCHANGED toolVars

__init__(p) ==
    /\ Idle /\ profile # p
    /\ new_manager
    /\ profile' = p /\ changed' = FALSE
    /\ UNCHANGED <<mcpVars, gate, file, facts, call, log, results, signals>>

Next ==
    \/ \E t \in Tools, v \in BOOLEAN : execute_call_refused(t, v)
    \/ \E t \in Tools : execute_file(t) \/ execute_memory(t)
    \/ \E c \in Command : _execute_run_command(c)
    \/ run_returns \/ run_raises \/ _subprocess_fallback \/ subprocess_ends
    \/ \E t \in MCPTool : _execute_mcp_call(t)
    \/ _execute_mcp_list_tools \/ list_next \/ mcp_answered \/ mcp_returns
    \/ \E id \in Server : register_mcp_server(id)
    \/ close \/ \E p \in Profiles : __init__(p)
    \/ (Bash /\ UNCHANGED <<mcpVars, toolVars>>)
    \/ (Servers /\ UNCHANGED <<shellVars, toolVars>>)

Spec == Init /\ [][Next]_vars

----------------------------------------------------------------------------
(* No command that matches a pattern that is always denied is ever started, *)
(* by bash, by the fallback, after a timeout or late, whatever the          *)
(* configuration; one that has to be asked for only by somebody's yes or by *)
(* the mode that stands for one; and under the strict profile no command is *)
(* started for a call, no file changed and no tool of a server called.      *)
RunsAreApproved ==
    /\ \A k \in DOMAIN runs : runs[k] > 0 =>
        /\ Approved(log[k].decision) /\ log[k].profile # "strict"
        /\ log[k].command \notin AlwaysDeny
        /\ gate.is_interactive /\ ~gate.fully_autonomous /\ log[k].command \notin ReadOnly =>
                log[k].decision = "user_approved"
    /\ profile = "strict" => ~changed

(* What a command returns from the shell is its own output, with what       *)
(* processes left behind have printed, and with output of commands that the *)
(* caller had given up: it fell back to subprocess, whose result it         *)
(* returned.  Only a line that was itself printed, by a command that read   *)
(* it as input or by the echo of the terminal, brings an answer too early,  *)
(* and its own output into a later one.                                     *)
OutputIsOwn == \A k \in DOMAIN results : results[k].by = "shell" =>
    /\ k \in mirrored \/ <<"out", k>> \in ToSet(results[k].parts)
    /\ \A mark \in ToSet(results[k].parts) : mark[1] = "out" /\ mark[2] # k =>
           mark[2] \in mirrored \/ results[mark[2]].by = "subprocess"

(* "Graceful fallback to subprocess if pexpect unavailable"                 *)
(* (agent_tools.py:485): where it is available no command is started twice. *)
FallbackMeansNoPexpect ==
    PexpectAvailable => \A k \in DOMAIN runs : runs[k] <= 1
=============================================================================
