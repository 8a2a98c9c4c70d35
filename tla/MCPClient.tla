------------------------------ MODULE MCPClient ------------------------------
(****************************************************************************)
(* The client of tool servers (src/core/mcp_client.py): processes that are  *)
(* sent a request on one pipe and write a line to another for each.  The    *)
(* client reads one line per request and takes it for the answer.  A server *)
(* may write a line that nobody asked for, refuse, or stop.                 *)
(****************************************************************************)
EXTENDS Integers, Sequences, FiniteSets, SequencesExt

CONSTANTS
    Server,         \* server ids
    MCPTool,        \* the tools a server may offer
    NoServer,
    MaxProcesses,   \* bound: servers started
    MaxNotices      \* bound: lines nobody asked for

ASSUME MCPAssumption == NoServer \notin Server /\ {MaxProcesses, MaxNotices} \subseteq Nat

VARIABLES
    servers,    \* _servers: the ids in the order of their registration
    process,    \* id -> its process, a number
    schemas,    \* _schema_cache: id -> tools, for the ids it has
    up,         \* processes that run
    stdout,     \* process -> lines not read: a request's number, or 0
    asked,      \* the request under way: its number, 0 when there is none
    to,         \* the process it was sent to
    purpose,    \* what it is for: <<"initialize" or "list" or "call", id>>
    requests,   \* how many requests were sent
    notices,    \* history: processes that wrote a line nobody asked for
    answer      \* what the last request came to

mcpVars == <<servers, process, schemas, up, stdout, asked, to, purpose, requests, notices, answer>>

----------------------------------------------------------------------------
NoAnswer == [to |-> 0, line |-> 0, error |-> TRUE]

MCPInit ==
    /\ servers = <<>> /\ process = <<>> /\ schemas = <<>>
    /\ up = {} /\ stdout = <<>>
    /\ asked = 0 /\ to = 0 /\ purpose = <<"none", NoServer>>
    /\ requests = 0 /\ notices = {} /\ answer = NoAnswer

Free == asked = 0

Known == ToSet(servers)

\* send_request: the number goes up, the line is written, and one line is read.
send_request(p, method, id) ==
    /\ requests' = requests + 1
    /\ asked' = requests' /\ to' = p /\ purpose' = <<method, id>>

\* register_server: the process is started and greeted; only then it is entered.
register_server(id) ==
    /\ Free /\ Len(stdout) < MaxProcesses
    /\ stdout' = Append(stdout, <<>>) /\ up' = up \cup {Len(stdout) + 1}
    /\ send_request(Len(stdout) + 1, "initialize", id)
    /\ UNCHANGED <<servers, process, schemas, notices, answer>>

\* The process runs, or the request fails without having been sent.
Reaches(id, method) ==
    IF process[id] \in up
    THEN send_request(process[id], method, id) /\ UNCHANGED answer
    ELSE /\ answer' = NoAnswer
         /\ UNCHANGED <<asked, to, purpose, requests>>

\* fetch_tools: what is cached is not asked for again.
fetch_tools(id, refresh) ==
    /\ Free /\ id \in Known
    /\ id \notin DOMAIN schemas \/ refresh
    /\ Reaches(id, "list")
    /\ UNCHANGED <<servers, process, schemas, up, stdout, notices>>

Offers(id, tool) == id \in DOMAIN schemas /\ tool \in schemas[id]

\* call_tool: the first server in order of registration that offers the tool; a
\* server whose tools were not fetched offers none.
call_tool(tool) ==
    LET i == SelectInSeq(servers, LAMBDA id : Offers(id, tool))
    IN  /\ Free
        /\ IF i = 0
           THEN answer' = NoAnswer /\ UNCHANGED <<asked, to, purpose, requests>>
           ELSE Reaches(servers[i], "call")
        /\ UNCHANGED <<servers, process, schemas, up, stdout, notices>>

With(f, id, v) == [x \in DOMAIN f \cup {id} |-> IF x = id THEN v ELSE f[x]]

Without(f, id) == [x \in DOMAIN f \ {id} |-> f[x]]

\* What follows from an answer: a greeting enters the server, answered or not,
\* in the place of an older one of that id, whose process and cache stay; a
\* list is cached.
Settled(ok) ==
    LET id == purpose[2] IN
    /\ IF purpose[1] = "initialize"
       THEN /\ servers' = IF id \in Known THEN servers ELSE Append(servers, id)
            /\ process' = With(process, id, to)
       ELSE UNCHANGED <<servers, process>>
    /\ IF purpose[1] = "list" /\ ok
       THEN \E tools \in SUBSET MCPTool : schemas' = With(schemas, id, tools)
       ELSE UNCHANGED schemas
    /\ asked' = 0 /\ to' = 0 /\ purpose' = <<"none", NoServer>>

\* Faulty variant: the line of a request that is refused is left unread.
readline_Refused(ok) ==
    /\ ~Free /\ stdout[to] # <<>>
    /\ answer' = [to |-> asked, line |-> Head(stdout[to]), error |-> ~ok]
    /\ stdout' = IF ok THEN [stdout EXCEPT ![to] = Tail(@)] ELSE stdout
    /\ Settled(ok)
    /\ UNCHANGED <<up, requests, notices>>

\* The next line, whatever it is: an answer, an error, or no JSON at all.
readline(ok) ==
    /\ ~Free /\ stdout[to] # <<>>
    /\ answer' = [to |-> asked, line |-> Head(stdout[to]), error |-> ~ok]
    /\ stdout' = [stdout EXCEPT ![to] = Tail(@)]
    /\ Settled(ok)
    /\ UNCHANGED <<up, requests, notices>>

\* End of file: the server stopped.
readline_empty ==
    /\ ~Free /\ stdout[to] = <<>> /\ to \notin up
    /\ answer' = NoAnswer
    /\ Settled(FALSE)
    /\ UNCHANGED <<up, stdout, requests, notices>>

remove_server(id) ==
    /\ Free /\ id \in Known
    /\ servers' = SelectSeq(servers, LAMBDA s : s # id)
    /\ up' = up \ {process[id]}
    /\ process' = Without(process, id) /\ schemas' = Without(schemas, id)
    /\ UNCHANGED <<stdout, asked, to, purpose, requests, notices, answer>>

close_all_servers ==
    /\ Free
    /\ up' = up \ {process[id] : id \in Known}
    /\ servers' = <<>> /\ process' = <<>> /\ schemas' = <<>>
    /\ UNCHANGED <<stdout, asked, to, purpose, requests, notices, answer>>

----------------------------------------------------------------------------
(* The servers.                                                             *)

server_answers ==
    /\ to \in up /\ asked \notin ToSet(stdout[to])
    /\ stdout' = [stdout EXCEPT ![to] = Append(@, asked)]
    /\ up' \in {up, up \ {to}}
    /\ UNCHANGED <<servers, process, schemas, asked, to, purpose, requests, notices, answer>>

server_notifies(p) ==
    /\ p \in up /\ Cardinality(notices) < MaxNotices /\ p \notin notices
    /\ stdout' = [stdout EXCEPT ![p] = Append(@, 0)]
    /\ notices' = notices \cup {p}
    /\ UNCHANGED <<servers, process, schemas, up, asked, to, purpose, requests, answer>>

server_stops(p) ==
    /\ p \in up /\ up' = up \ {p}
    /\ UNCHANGED <<servers, process, schemas, stdout, asked, to, purpose, requests, notices, answer>>

Servers == server_answers \/ \E p \in up : server_notifies(p) \/ server_stops(p)

\* The answer to every request is the server's answer to that request, as long
\* as no server wrote a line by itself (the ids are not compared): no line of a
\* request that was refused, or of a tool that failed, is left for the next.
AnswerIsOwn == answer.to # 0 /\ notices = {} => answer.line = answer.to
=============================================================================
