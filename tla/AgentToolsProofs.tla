-------------------------- MODULE AgentToolsProofs --------------------------
(****************************************************************************)
(* Proofs about the tools of an agent.  No command is started that the gate *)
(* and the profile did not let through, however often and however late bash *)
(* or the fallback start it: what is due to be started -- in the input of   *)
(* the shell, in bash, in the call under way -- is a command whose log      *)
(* entry says that it may be.  What a command returns from the shell is its *)
(* own output: lines are read in the order in which they were sent, and a   *)
(* sentinel that was not printed follows the output it is for.  The line a  *)
(* request reads answers it: no other line is unread.                       *)
(****************************************************************************)
EXTENDS AgentTools, WellFoundedInduction, TLAPS

Decision == {"denied", "approved", "user_approved", "user_denied", "non_interactive"}

Entry == [command : Command, decision : Decision, profile : Profiles]

\* The call is, in this log, that of a command that was let through.
Due(k, l) == k \in 1..Len(l) /\ Approved(l[k].decision)

RunPlace == {"expect", "fallback", "subprocess"}

ToolTypes ==
    /\ profile \in Profiles
    /\ gate \in [fully_autonomous : BOOLEAN, deny_mutating_in_ci : BOOLEAN, is_interactive : BOOLEAN]
    /\ log \in Seq(Entry)
    /\ runs \in Seq(Nat) /\ Len(runs) = Len(log)
    /\ input \in Seq(Nat) /\ busy \in Nat
    /\ call = [at |-> call.at, k |-> call.k, todo |-> call.todo]

\* An entry that lets a command run obeys the profile and a gate set up like g.
Obeys(e, g) ==
    Approved(e.decision) =>
        /\ e.profile # "strict" /\ e.command \notin AlwaysDeny
        /\ g.is_interactive /\ ~g.fully_autonomous /\ e.command \notin ReadOnly =>
               e.decision = "user_approved"

ApprovalInv ==
    /\ \A k \in 1..Len(log) : Obeys(log[k], gate)
    /\ \A k \in 1..Len(log) : runs[k] > 0 => Approved(log[k].decision)
    /\ \A i \in 1..Len(input) : Due(input[i], log)
    /\ busy # 0 => Due(busy, log)
    /\ call.at \in RunPlace => Due(call.k, log)
    /\ profile = "strict" => ~changed

ToolsInv == ToolTypes /\ ApprovalInv

----------------------------------------------------------------------------
LEMMA ToolsInvInit == Init => ToolsInv
  BY DEF Init, ShellInit, ToolsInit, NoCall, ToolsInv, ToolTypes, ApprovalInv, RunPlace, Due

\* A step that starts nothing, asks for nothing and changes no setting.
LEMMA QuietStep ==
    ASSUME ToolsInv,
           UNCHANGED <<runs, input, busy, log, gate, profile, changed>>,
           \/ UNCHANGED call
           \/ /\ call' = [at |-> call'.at, k |-> call'.k, todo |-> call'.todo]
              /\ call'.at \notin RunPlace \/ (call.at \in RunPlace /\ call'.k = call.k)
    PROVE  ToolsInv'
  BY DEF ToolsInv, ToolTypes, ApprovalInv

\* Nothing but reading is done under the strict profile.
LEMMA StrictExecutesNothing ==
    ASSUME NEW t \in Writes \cup {"run_command", "mcp_call"}, Executes(t), profile \in Profiles
    PROVE  profile # "strict"
  BY DEF Executes, refused, allowed_tools, Writes, Profiles, Tools

LEMMA GateDecides ==
    ASSUME NEW c \in Command, NEW decision \in check(c), ToolTypes,
           profile # "strict"
    PROVE  /\ [command |-> c, decision |-> decision, profile |-> profile] \in Entry
           /\ Obeys([command |-> c, decision |-> decision, profile |-> profile], gate)
<1>1. decision \in Decision
  BY DEF check, classify_command, _prompt_user, Decision
<1> DEFINE e == [command |-> c, decision |-> decision, profile |-> profile]
<1>2. c \in AlwaysDeny => decision = "denied"
  <2>1. ASSUME c \in AlwaysDeny PROVE classify_command(c) = "deny"
    BY <2>1 DEF classify_command
  <2>2. ASSUME c \in AlwaysDeny PROVE check(c) = {"denied"}
    BY <2>1, <2>2 DEF check
  <2> QED
    BY <2>2
<1>3. ASSUME c \notin AlwaysDeny, c \notin ReadOnly, ~gate.fully_autonomous, gate.is_interactive
      PROVE  decision \in {"user_approved", "user_denied"}
  <2>1. classify_command(c) = "ask"
    BY <1>3 DEF classify_command
  <2>2. check(c) = _prompt_user
    BY <1>3, <2>1 DEF check
  <2> QED
    BY <1>3, <2>2 DEF _prompt_user
<1>4. e.command = c /\ e.decision = decision /\ e.profile = profile
  OBVIOUS
<1>5. Obeys(e, gate)
  <2> HIDE DEF e
  <2> QED
    BY <1>2, <1>3, <1>4 DEF Obeys, Approved
<1> QED
  BY <1>1, <1>5 DEF Entry, ToolTypes

\* A call is logged, and if it was let through its line is sent to the shell.
LEMMA RunCommandStep ==
    ASSUME ToolsInv, NEW c \in Command, _execute_run_command(c)
    PROVE  ToolsInv'
<1> USE DEF ToolsInv
<1>1. profile # "strict"
  BY StrictExecutesNothing DEF _execute_run_command, ToolTypes
<1>2. PICK decision \in check(c) :
        /\ log' = Append(log, [command |-> c, decision |-> decision, profile |-> profile])
        /\ IF Approved(decision)
           THEN /\ get_or_create /\ sendline(Len(log'))
                /\ call' = [NoCall EXCEPT !.at = IF shell' = "none" THEN "fallback" ELSE "expect",
                                          !.k = Len(log')]
                /\ UNCHANGED signals
           ELSE _record(TRUE) /\ UNCHANGED <<shell, input, output, mirrored, call>>
  BY DEF _execute_run_command
<1> DEFINE entry == [command |-> c, decision |-> decision, profile |-> profile]
           n == Len(log)
<1>3. entry \in Entry /\ Obeys(entry, gate)
  BY <1>1, GateDecides
<1>4. runs' = Append(runs, 0) /\ UNCHANGED <<busy, gate, profile, changed>>
  BY DEF _execute_run_command
<1>5. /\ log' \in Seq(Entry) /\ n \in Nat /\ Len(log') = n + 1 /\ log'[n + 1] = entry
      /\ \A k \in 1..n : log'[k] = log[k]
  <2> HIDE DEF entry
  <2>1. log' = Append(log, entry)
    BY <1>2 DEF entry
  <2> QED
    BY <2>1, <1>3 DEF ToolTypes
<1>6. /\ runs' \in Seq(Nat) /\ Len(runs') = n + 1 /\ runs'[n + 1] = 0
      /\ \A k \in 1..n : runs'[k] = runs[k]
  BY <1>4 DEF ToolTypes
<1>7. \A k : Due(k, log) => Due(k, log')
  BY <1>5 DEF Due
<1>8. Approved(decision) => Due(n + 1, log')
  BY <1>5 DEF Due
<1>9. /\ input' \in Seq(Nat)
      /\ \A i \in 1..Len(input') : Due(input'[i], log')
  <2>1. CASE input' = input
    BY <2>1, <1>7 DEF ApprovalInv, ToolTypes
  <2>2. CASE Approved(decision) /\ input' = Append(input, n + 1)
    <3>1. /\ input' \in Seq(Nat) /\ Len(input') = Len(input) + 1 /\ input'[Len(input) + 1] = n + 1
          /\ \A i \in 1..Len(input) : input'[i] = input[i]
      BY <2>2, <1>5 DEF ToolTypes
    <3>2. \A i \in 1..Len(input) : Due(input'[i], log')
      BY <3>1, <1>7 DEF ApprovalInv
    <3>3. Len(input) \in Nat
      BY DEF ToolTypes
    <3> QED
      BY <2>2, <3>1, <3>2, <3>3, <1>8
  <2> QED
    BY <1>2, <1>5, <2>1, <2>2 DEF sendline
<1>10. /\ call' = [at |-> call'.at, k |-> call'.k, todo |-> call'.todo]
       /\ call'.at \in RunPlace => Due(call'.k, log')
  <2>1. CASE Approved(decision)
    BY <2>1, <1>2, <1>5, <1>8 DEF NoCall
  <2>2. CASE ~Approved(decision)
    BY <2>2, <1>2, <1>7 DEF ToolTypes, ApprovalInv
  <2> QED
    BY <2>1, <2>2
<1>11. ToolTypes'
  BY <1>4, <1>5, <1>6, <1>9, <1>10 DEF ToolTypes
<1>12. \A k \in 1..Len(log') : Obeys(log'[k], gate')
  <2> HIDE DEF entry
  <2>1. \A k \in 1..n : Obeys(log[k], gate)
    BY DEF ApprovalInv
  <2> QED
    BY <2>1, <1>3, <1>4, <1>5
<1>13. \A k \in 1..Len(log') : runs'[k] > 0 => Approved(log'[k].decision)
  BY <1>5, <1>6 DEF ApprovalInv
<1>14. busy' # 0 => Due(busy', log')
  BY <1>4, <1>7 DEF ApprovalInv
<1> QED
  BY <1>1, <1>4, <1>9, <1>10, <1>11, <1>12, <1>13, <1>14 DEF ApprovalInv

\* A command that is due is started once more.
LEMMA StartStep ==
    ASSUME ToolsInv, NEW k, Due(k, log), Started(k)
    PROVE  /\ runs' \in Seq(Nat) /\ Len(runs') = Len(log)
           /\ \A j \in 1..Len(log) : runs'[j] > 0 => Approved(log[j].decision)
<1>1. runs' = [runs EXCEPT ![k] = @ + 1]
  BY DEF Started
<1>2. runs \in Seq(Nat) /\ Len(runs) = Len(log) /\ k \in 1..Len(log)
  BY DEF ToolsInv, ToolTypes, Due
<1>3. runs' \in Seq(Nat) /\ Len(runs') = Len(log)
  BY <1>1, <1>2
<1>4. \A j \in 1..Len(log) : runs'[j] > 0 => Approved(log[j].decision)
  BY <1>1, <1>2 DEF ToolsInv, ApprovalInv, Due
<1> QED
  BY <1>3, <1>4

LEMMA FallbackStep ==
    ASSUME ToolsInv, _subprocess_fallback
    PROVE  ToolsInv'
<1>1. Due(call.k, log) /\ Started(call.k)
  BY DEF _subprocess_fallback, ToolsInv, ApprovalInv, RunPlace
<1>2. /\ runs' \in Seq(Nat) /\ Len(runs') = Len(log)
      /\ \A j \in 1..Len(log) : runs'[j] > 0 => Approved(log[j].decision)
  BY <1>1, StartStep
<1>3. UNCHANGED <<input, busy, log, gate, profile, changed>>
  BY DEF _subprocess_fallback
<1>4. call' = [at |-> "subprocess", k |-> call.k, todo |-> call.todo]
  BY DEF _subprocess_fallback, ToolsInv, ToolTypes
<1> QED
  BY <1>1, <1>2, <1>3, <1>4 DEF ToolsInv, ToolTypes, ApprovalInv

\* bash starts what it reads, and forgets what it has ended.
LEMMA BashStep ==
    ASSUME ToolsInv, Bash, UNCHANGED toolVars
    PROVE  ToolsInv'
<1> USE DEF ToolsInv
<1>1. UNCHANGED <<log, gate, profile, changed, call>>
  BY DEF toolVars
<1>2. CASE \E ok \in BOOLEAN : bash_reads(ok)
  <2>1. PICK ok \in BOOLEAN : bash_reads(ok)
    BY <1>2
  <2>2. /\ input # <<>> /\ input' = Tail(input)
        /\ IF ok THEN busy' = Head(input) /\ Started(Head(input)) ELSE UNCHANGED <<busy, runs>>
    BY <2>1 DEF bash_reads
  <2>3. /\ input' \in Seq(Nat) /\ Len(input) \in Nat \ {0} /\ Len(input') = Len(input) - 1
        /\ \A i \in 1..Len(input') : input'[i] = input[i + 1]
        /\ Head(input) = input[1] /\ Head(input) \in Nat
    BY <2>2 DEF ToolTypes
  <2>4. Due(Head(input), log) /\ \A i \in 1..Len(input') : Due(input'[i], log)
    BY <2>3 DEF ApprovalInv
  <2>5. /\ runs' \in Seq(Nat) /\ Len(runs') = Len(log)
        /\ \A j \in 1..Len(log) : runs'[j] > 0 => Approved(log[j].decision)
    <3>1. CASE ok
      BY <3>1, <2>2, <2>4, StartStep
    <3>2. CASE ~ok
      BY <3>2, <2>2 DEF ToolTypes, ApprovalInv
    <3> QED
      BY <3>1, <3>2
  <2>6. busy' \in Nat /\ (busy' # 0 => Due(busy', log))
    BY <2>2, <2>3, <2>4 DEF ToolTypes, ApprovalInv
  <2> QED
    BY <1>1, <2>3, <2>4, <2>5, <2>6 DEF ToolTypes, ApprovalInv
<1>3. CASE \E exits \in BOOLEAN : bash_ends(exits)
  <2>1. busy' = 0 /\ runs' = runs /\ (input' = <<>> \/ input' = input)
    BY <1>3 DEF bash_ends
  <2>2. input' \in Seq(Nat) /\ \A i \in 1..Len(input') : Due(input'[i], log)
    <3>1. CASE input' = input
      BY <3>1 DEF ToolTypes, ApprovalInv
    <3>2. CASE input' = <<>>
      BY <3>2
    <3> QED
      BY <2>1, <3>1, <3>2
  <2> QED
    BY <1>1, <2>1, <2>2 DEF ToolTypes, ApprovalInv
<1>4. CASE \E prints \in BOOLEAN : command_reads(prints)
  <2>1. input # <<>> /\ input' = Tail(input) /\ UNCHANGED <<busy, runs>>
    BY <1>4 DEF command_reads
  <2>2. input' \in Seq(Nat) /\ \A i \in 1..Len(input') : input'[i] = input[i + 1] /\ i + 1 \in 1..Len(input)
    BY <2>1 DEF ToolTypes
  <2>3. \A i \in 1..Len(input') : Due(input'[i], log)
    BY <2>2 DEF ApprovalInv
  <2> QED
    BY <1>1, <2>1, <2>2, <2>3 DEF ToolTypes, ApprovalInv
<1>5. CASE command_sets_echo \/ \E k \in behind : process_prints(k)
  BY <1>1, <1>5, QuietStep DEF command_sets_echo, process_prints
<1> QED
  BY <1>2, <1>3, <1>4, <1>5 DEF Bash

\* With a new manager, or none, nothing is due from the old shell.
LEMMA ShellGone ==
    ASSUME ToolsInv, input' = <<>>, busy' = 0, UNCHANGED <<runs, log, gate, call>>,
           profile' \in Profiles, profile' = "strict" => ~changed'
    PROVE  ToolsInv'
  BY DEF ToolsInv, ToolTypes, ApprovalInv

LEMMA NextKeepsToolsInv == ToolsInv /\ [Next]_vars => ToolsInv'
<1> SUFFICES ASSUME ToolsInv, [Next]_vars PROVE ToolsInv'
  OBVIOUS
<1> DEFINE Still == UNCHANGED <<runs, input, busy, log, gate, profile, changed>>
<1>1. ASSUME NEW t \in Tools, NEW v \in BOOLEAN, execute_call_refused(t, v) PROVE ToolsInv'
  BY <1>1, QuietStep DEF execute_call_refused, shellVars
<1>2. ASSUME NEW t \in Tools, execute_file(t) PROVE ToolsInv'
  <2>1. profile # "strict"
    BY <1>2, StrictExecutesNothing DEF execute_file, ToolsInv, ToolTypes
  <2>2. UNCHANGED <<runs, input, busy, log, gate, profile, call>>
    BY <1>2 DEF execute_file, shellVars
  <2> QED
    BY <2>1, <2>2 DEF ToolsInv, ToolTypes, ApprovalInv
<1>3. ASSUME NEW t \in Tools, execute_memory(t) PROVE ToolsInv'
  BY <1>3, QuietStep DEF execute_memory, shellVars
<1>4. ASSUME NEW c \in Command, _execute_run_command(c) PROVE ToolsInv'
  BY <1>4, RunCommandStep
<1>5. ASSUME run_returns \/ subprocess_ends PROVE ToolsInv'
  <2>1. Still /\ call' = NoCall
    BY <1>5 DEF run_returns, subprocess_ends, Returned, sentinel_found, shellVars
  <2> QED
    BY <2>1, QuietStep DEF NoCall, RunPlace
<1>6. ASSUME run_raises PROVE ToolsInv'
  <2>1. Still
    BY <1>6 DEF run_raises, sentinel_timeout, sentinel_eof, shellVars
  <2>2. call.at \in RunPlace /\ call' = [at |-> "fallback", k |-> call.k, todo |-> call.todo]
    BY <1>6 DEF run_raises, RunPlace, ToolsInv, ToolTypes
  <2> QED
    BY <2>1, <2>2, QuietStep
<1>7. ASSUME _subprocess_fallback PROVE ToolsInv'
  BY <1>7, FallbackStep
<1>8. ASSUME NEW t \in MCPTool, _execute_mcp_call(t) PROVE ToolsInv'
  <2>1. profile # "strict"
    BY <1>8, StrictExecutesNothing DEF _execute_mcp_call, ToolsInv, ToolTypes
  <2>2. UNCHANGED <<runs, input, busy, log, gate, profile>>
    BY <1>8 DEF _execute_mcp_call, MCPUnchanged, shellVars
  <2>3. call' = call \/ call' = [at |-> "mcp", k |-> 0, todo |-> <<>>]
    BY <1>8 DEF _execute_mcp_call, NoCall
  <2> QED
    BY <2>1, <2>2, <2>3 DEF ToolsInv, ToolTypes, ApprovalInv, RunPlace
<1>9. ASSUME _execute_mcp_list_tools PROVE ToolsInv'
  <2>1. Still
    BY <1>9 DEF _execute_mcp_list_tools, MCPUnchanged, shellVars
  <2>2. call' = [at |-> "list", k |-> 0, todo |-> servers]
    BY <1>9 DEF _execute_mcp_list_tools, NoCall
  <2> QED
    BY <2>1, <2>2, QuietStep DEF RunPlace
<1>10. ASSUME list_next PROVE ToolsInv'
  <2>1. Still
    BY <1>10 DEF list_next, MCPUnchanged, shellVars
  <2>2. /\ call'.at = call.at /\ call.at \in {"list", "register"}
        /\ call' = [at |-> call'.at, k |-> call'.k, todo |-> call'.todo]
    BY <1>10 DEF list_next, ToolsInv, ToolTypes
  <2> QED
    BY <2>1, <2>2, QuietStep DEF RunPlace
<1>11. ASSUME mcp_answered PROVE ToolsInv'
  BY <1>11, QuietStep DEF mcp_answered, MCPUnchanged, shellVars
<1>12. ASSUME mcp_returns PROVE ToolsInv'
  BY <1>12, QuietStep DEF mcp_returns, MCPUnchanged, shellVars, NoCall, RunPlace
<1>13. ASSUME NEW id \in Server, register_mcp_server(id) PROVE ToolsInv'
  <2>1. Still
    BY <1>13 DEF register_mcp_server, MCPUnchanged, shellVars
  <2>2. call' = [at |-> "register", k |-> 0, todo |-> <<id>>]
    BY <1>13 DEF register_mcp_server, NoCall
  <2> QED
    BY <2>1, <2>2, QuietStep DEF RunPlace
<1>14. ASSUME close PROVE ToolsInv'
  BY <1>14, ShellGone DEF close, close_all, NoShell, toolVars, ToolsInv, ToolTypes, ApprovalInv
<1>15. ASSUME NEW p \in Profiles, __init__(p) PROVE ToolsInv'
  BY <1>15, ShellGone DEF __init__, new_manager, NoShell
<1>16. ASSUME Bash, UNCHANGED toolVars PROVE ToolsInv'
  BY <1>16, BashStep
<1>17. ASSUME UNCHANGED <<shellVars, toolVars>> PROVE ToolsInv'
  BY <1>17, QuietStep DEF shellVars, toolVars
<1> QED
  BY <1>1, <1>2, <1>3, <1>4, <1>5, <1>6, <1>7, <1>8, <1>9, <1>10, <1>11, <1>12, <1>13, <1>14,
     <1>15, <1>16, <1>17 DEF Next, vars

----------------------------------------------------------------------------
\* Every command that bash or the fallback ever starts was let through by the
\* gate and the profile at the time of its call, and the strict profile changes
\* nothing (HITLGate.check, ToolExecutor.execute_call), for any commands,
\* servers and tools and any configuration.
THEOREM CommandsAreApproved == Spec => []RunsAreApproved
<1>1. ToolsInv => RunsAreApproved
  <2> SUFFICES ASSUME ToolsInv PROVE RunsAreApproved
    OBVIOUS
  <2>1. DOMAIN runs = 1..Len(log)
    BY DEF ToolsInv, ToolTypes
  <2> QED
    BY <2>1 DEF ToolsInv, ApprovalInv, Obeys, RunsAreApproved
<1> QED
  BY <1>1, ToolsInvInit, NextKeepsToolsInv, PTL DEF Spec

----------------------------------------------------------------------------
(* The shell: what stands in the output, in bash and in the input.          *)

Mark == {"out", "late", "sentinel"} \X Nat

Result == [by : {"none", "shell", "subprocess"}, parts : Seq(Mark)]

\* The result of command k, among the results r, came from the fallback.
Ended(k, r) == k \in 1..Len(r) /\ r[k].by = "subprocess"

\* A command that was given up, one of those in mir, or that of the call c
\* under way.
Accounted(k, r, c, mir) ==
    k \in 1..Len(r) /\ (Ended(k, r) \/ k \in mir \/ (c.at \in RunPlace /\ k = c.k))

\* Where the mark comes from that stands in the result of command k.
Explained(m, k, r, mir) == m[1] = "out" /\ m[2] # k => m[2] \in mir \/ Ended(m[2], r)

Own(k, r, mir) == r[k].by = "shell" =>
    /\ k \in mir \/ \E p \in 1..Len(r[k].parts) : r[k].parts[p] = <<"out", k>>
    /\ \A p \in 1..Len(r[k].parts) : Explained(r[k].parts[p], k, r, mir)

\* The call under way is the latest, and has no result yet.
Latest(r, c) == c.at \in RunPlace => c.k \in 1..Len(r) /\ c.k = Len(r) /\ r[c.k].by = "none"

ResultsInv ==
    /\ results \in Seq(Result) /\ Len(results) = Len(log)
    /\ Latest(results, call)
    /\ \A k \in 1..Len(results) : Own(k, results, mirrored)

\* The lines are read in the order in which they were sent.
Queue(i, b) ==
    /\ \A p, q \in 1..Len(i) : p < q => i[p] < i[q]
    /\ \A p \in 1..Len(i) : b < i[p]

\* A command k that is waited for and was not printed: its output comes first,
\* its sentinel when bash is done with it, and nothing of it comes after that.
Awaited(k, o, i, b) ==
    /\ b = k => \E p \in 1..Len(o) : o[p] = <<"out", k>>
    /\ \A s \in 1..Len(o) : o[s] = <<"sentinel", k>> =>
        /\ b # k
        /\ \A p \in 1..Len(i) : i[p] # k
        /\ \E p \in 1..Len(o) : o[p] = <<"out", k>> /\ p < s
        /\ \A p \in 1..Len(o) : o[p] = <<"out", k>> => p < s

\* What is in the pipe was asked for; sentinels are those of calls.
Listed(o, i, b, r, c, mir) ==
    /\ \A p \in 1..Len(o) : o[p][1] = "out" => Accounted(o[p][2], r, c, mir)
    /\ \A p \in 1..Len(o) : o[p][1] = "sentinel" => o[p][2] \in 1..Len(r)
    /\ \A p \in 1..Len(i) : Accounted(i[p], r, c, mir)
    /\ b # 0 => Accounted(b, r, c, mir)

PipeTypes ==
    /\ output \in Seq(Mark) /\ input \in Seq(Nat) /\ busy \in Nat /\ behind \subseteq Nat
    /\ shell # "alive" => input = <<>> /\ busy = 0

PipeInv ==
    /\ PipeTypes
    /\ Queue(input, busy)
    /\ Listed(output, input, busy, results, call, mirrored)
    /\ call.at \in RunPlace /\ call.k \notin mirrored => Awaited(call.k, output, input, busy)

\* o2 is o with m at its end.
Grown(o, o2, m) ==
    Len(o2) = Len(o) + 1 /\ o2[Len(o) + 1] = m /\ \A p \in 1..Len(o) : o2[p] = o[p]

LEMMA Appending ==
    ASSUME NEW S, NEW o \in Seq(S), NEW m \in S
    PROVE  Append(o, m) \in Seq(S) /\ Grown(o, Append(o, m), m) /\ Len(o) \in Nat
  BY DEF Grown

LEMMA MarkParts ==
    /\ \A m \in Mark : m[1] \in {"out", "late", "sentinel"} /\ m[2] \in Nat /\ m = <<m[1], m[2]>>
    /\ \A what \in {"out", "late", "sentinel"}, k \in Nat :
          <<what, k>> \in Mark /\ <<what, k>>[1] = what /\ <<what, k>>[2] = k
  BY DEF Mark

\* A mark that is not of the command waited for changes nothing for it.
LEMMA OtherMark ==
    ASSUME NEW k \in Nat, NEW o, Len(o) \in Nat, NEW i, NEW b, NEW o2, NEW m, Grown(o, o2, m),
           Awaited(k, o, i, b),
           m # <<"sentinel", k>>,
           m # <<"out", k>> \/ \A s \in 1..Len(o) : o[s] # <<"sentinel", k>>
    PROVE  Awaited(k, o2, i, b)
<1> DEFINE n == Len(o)
<1>1. Len(o2) = n + 1 /\ o2[n + 1] = m /\ (\A p \in 1..n : o2[p] = o[p]) /\ n \in Nat
  BY DEF Grown
<1>2. \A p \in 1..n + 1 : p \in 1..n \/ p = n + 1
  BY <1>1
<1>3. 1..n \subseteq 1..n + 1
  BY <1>1
<1>4. b = k => \E p \in 1..n + 1 : o2[p] = <<"out", k>>
  BY <1>1, <1>3 DEF Awaited
<1>5. ASSUME NEW s \in 1..n + 1, o2[s] = <<"sentinel", k>>
      PROVE  /\ b # k
             /\ \A p \in 1..Len(i) : i[p] # k
             /\ \E p \in 1..n + 1 : o2[p] = <<"out", k>> /\ p < s
             /\ \A p \in 1..n + 1 : o2[p] = <<"out", k>> => p < s
  <2>1. s \in 1..n /\ o[s] = <<"sentinel", k>>
    BY <1>1, <1>2, <1>5
  <2>2. /\ b # k
        /\ \A p \in 1..Len(i) : i[p] # k
        /\ \E p \in 1..n : o[p] = <<"out", k>> /\ p < s
        /\ \A p \in 1..n : o[p] = <<"out", k>> => p < s
    BY <2>1 DEF Awaited
  <2>3. m # <<"out", k>>
    BY <2>1
  <2> HIDE DEF n
  <2>4. \E p \in 1..n + 1 : o2[p] = <<"out", k>> /\ p < s
    BY <1>1, <1>3, <2>2
  <2>5. \A p \in 1..n + 1 : o2[p] = <<"out", k>> => p < s
    BY <1>1, <1>2, <2>2, <2>3
  <2> QED
    BY <2>2, <2>4, <2>5
<1>6. \A s \in 1..Len(o2) : o2[s] = <<"sentinel", k>> =>
        /\ b # k
        /\ \A p \in 1..Len(i) : i[p] # k
        /\ \E p \in 1..Len(o2) : o2[p] = <<"out", k>> /\ p < s
        /\ \A p \in 1..Len(o2) : o2[p] = <<"out", k>> => p < s
  BY <1>1, <1>5
<1> QED
  BY <1>1, <1>4, <1>6 DEF Awaited

\* The line at the head is taken from the input.
LEMMA LineTaken ==
    ASSUME NEW i \in Seq(Nat), NEW b \in Nat, Queue(i, b), i # <<>>
    PROVE  /\ Head(i) \in Nat /\ Head(i) = i[1] /\ 1 \in 1..Len(i) /\ b < Head(i)
           /\ Tail(i) \in Seq(Nat)
           /\ \A p \in 1..Len(Tail(i)) : Tail(i)[p] = i[p + 1] /\ p + 1 \in 1..Len(i)
           /\ Queue(Tail(i), b) /\ Queue(Tail(i), Head(i)) /\ Queue(Tail(i), 0)
<1> DEFINE h == Head(i)  t == Tail(i)
<1>1. /\ h \in Nat /\ h = i[1] /\ 1 \in 1..Len(i) /\ t \in Seq(Nat) /\ Len(t) = Len(i) - 1
      /\ \A p \in 1..Len(t) : t[p] = i[p + 1] /\ p + 1 \in 1..Len(i) /\ 1 < p + 1
  OBVIOUS
<1> HIDE DEF h, t
<1>2. /\ \A p, q \in 1..Len(i) : p < q => i[p] < i[q]
      /\ \A p \in 1..Len(i) : b < i[p]
  BY DEF Queue
<1>3. \A p, q \in 1..Len(t) : p < q => t[p] < t[q]
  <2> SUFFICES ASSUME NEW p \in 1..Len(t), NEW q \in 1..Len(t), p < q PROVE t[p] < t[q]
    OBVIOUS
  <2>1. p + 1 < q + 1 /\ p + 1 \in 1..Len(i) /\ q + 1 \in 1..Len(i)
    BY <1>1
  <2> QED
    BY <1>1, <1>2, <2>1
<1>4. \A p \in 1..Len(t) : h < t[p] /\ b < t[p]
  BY <1>1, <1>2
<1>5. \A p \in 1..Len(t) : 0 < t[p]
  <2> SUFFICES ASSUME NEW p \in 1..Len(t) PROVE 0 < t[p]
    OBVIOUS
  <2>1. h < t[p] /\ h \in Nat /\ t[p] \in Nat
    BY <1>1, <1>4
  <2> QED
    BY <2>1
<1>6. Queue(t, b) /\ Queue(t, h) /\ Queue(t, 0)
  BY <1>3, <1>4, <1>5 DEF Queue
<1>7. b < h
  BY <1>1, <1>2
<1> QED
  BY <1>1, <1>6, <1>7 DEF h, t

\* bash takes the next line; only one that is a command runs.
LEMMA AwaitedRead ==
    ASSUME NEW k \in Nat, NEW o \in Seq(Mark), NEW i \in Seq(Nat), Queue(i, 0), i # <<>>,
           Awaited(k, o, i, 0), NEW b \in {0, Head(i)}, k # 0
    PROVE  Awaited(k, Append(o, <<"out", Head(i)>>), Tail(i), b)
<1> DEFINE h == Head(i)  t == Tail(i)  m == <<"out", h>>  o2 == Append(o, m)  n == Len(o)
<1>1. /\ h \in Nat /\ h = i[1] /\ 1 \in 1..Len(i)
      /\ \A p \in 1..Len(t) : t[p] = i[p + 1] /\ p + 1 \in 1..Len(i)
  BY LineTaken
<1>2. m \in Mark /\ m[1] = "out" /\ m[2] = h
  BY <1>1, MarkParts
<1>3. Grown(o, o2, m) /\ n \in Nat
  BY <1>2, Appending
<1>4. b \in {0, h}
  OBVIOUS
<1> HIDE DEF h, t, m, o2
<1>5. m # <<"sentinel", k>> /\ (m = <<"out", k>> => h = k) /\ (h = k => m = <<"out", k>>)
  BY <1>1, <1>2, MarkParts DEF m
<1>6. CASE h = k /\ b = h
  <2>1. \A s \in 1..n : o[s] # <<"sentinel", k>>
    BY <1>1, <1>6 DEF Awaited
  <2>2. Awaited(k, o2, i, 0)
    BY <1>3, <1>5, <2>1, OtherMark
  <2>3. Len(o2) = n + 1 /\ o2[n + 1] = <<"out", k>>
    BY <1>3, <1>5, <1>6 DEF Grown
  <2>4. \A s \in 1..Len(o2) : o2[s] # <<"sentinel", k>>
    BY <1>1, <1>6, <2>2 DEF Awaited
  <2>5. n + 1 \in 1..Len(o2)
    BY <1>3, <2>3
  <2> QED
    BY <2>3, <2>4, <2>5 DEF Awaited, o2, m, h, t
<1>7. CASE h # k \/ b = 0
  <2>1. (\E s \in 1..n : o[s] = <<"sentinel", k>>) => h # k
    BY <1>1 DEF Awaited
  <2>2. Awaited(k, o2, i, 0)
    BY <1>3, <1>5, <2>1, OtherMark
  <2>3. b # k
    BY <1>4, <1>7
  <2>4. ASSUME \A p \in 1..Len(i) : i[p] # k PROVE \A p \in 1..Len(t) : t[p] # k
    BY <1>1, <2>4
  <2>5. Awaited(k, o2, t, b)
    BY <2>2, <2>3, <2>4 DEF Awaited
  <2> QED
    BY <2>5 DEF o2, m, h, t
<1> QED
  BY <1>4, <1>6, <1>7

\* A command that runs takes the next line, which is not that of k.
LEMMA AwaitedTaken ==
    ASSUME NEW k, NEW o, NEW i \in Seq(Nat), NEW b \in Nat, Queue(i, b), i # <<>>,
           Awaited(k, o, i, b)
    PROVE  Awaited(k, o, Tail(i), b)
<1>1. \A p \in 1..Len(Tail(i)) : Tail(i)[p] = i[p + 1] /\ p + 1 \in 1..Len(i)
  BY LineTaken
<1>2. (\A p \in 1..Len(i) : i[p] # k) => \A p \in 1..Len(Tail(i)) : Tail(i)[p] # k
  BY <1>1
<1> QED
  BY <1>2 DEF Awaited

\* The command has ended, and its sentinel is written.
LEMMA AwaitedEnd ==
    ASSUME NEW k \in Nat, NEW o \in Seq(Mark), NEW i \in Seq(Nat), NEW b \in Nat, Queue(i, b),
           b # 0, Awaited(k, o, i, b), k # 0
    PROVE  Awaited(k, Append(o, <<"sentinel", b>>), i, 0)
<1> DEFINE m == <<"sentinel", b>>  o2 == Append(o, m)  n == Len(o)
<1>1. m \in Mark /\ m[1] = "sentinel" /\ m[2] = b
  BY MarkParts
<1>2. Grown(o, o2, m) /\ n \in Nat
  BY <1>1, Appending
<1>3. m # <<"out", k>> /\ (m = <<"sentinel", k>> => b = k)
  BY <1>1, MarkParts
<1> HIDE DEF m, o2
<1>4. CASE b # k
  <2>1. Awaited(k, o2, i, b)
    BY <1>2, <1>3, <1>4, OtherMark
  <2>2. Awaited(k, o2, i, 0)
    BY <2>1 DEF Awaited
  <2> QED
    BY <2>2 DEF o2, m
<1>5. CASE b = k
  <2>1. \A s \in 1..n : o[s] # <<"sentinel", k>>
    BY <1>5 DEF Awaited
  <2>2. PICK p \in 1..n : o[p] = <<"out", k>>
    BY <1>5 DEF Awaited
  <2>3. Len(o2) = n + 1 /\ o2[n + 1] = m /\ \A q \in 1..n : o2[q] = o[q]
    BY <1>2 DEF Grown
  <2>4. \A q \in 1..n + 1 : q \in 1..n \/ q = n + 1
    <3>1. n \in Nat
      BY <1>2
    <3> HIDE DEF n
    <3> QED
      BY <3>1
  <2>5. \A q \in 1..Len(o2) : o2[q] = <<"sentinel", k>> => q = n + 1
    BY <2>1, <2>3, <2>4
  <2>6. \A q \in 1..Len(o2) : o2[q] = <<"out", k>> => q < n + 1
    <3>1. \A q \in 1..n : q < n + 1
      BY <1>2
    <3> QED
      BY <1>3, <2>3, <2>4, <3>1
  <2>7. p \in 1..Len(o2) /\ o2[p] = <<"out", k>> /\ p < n + 1
    BY <1>2, <2>2, <2>3
  <2>8. \A q \in 1..Len(i) : i[q] # k
    BY <1>5 DEF Queue
  <2>9. Awaited(k, o2, i, 0)
    BY <2>5, <2>6, <2>7, <2>8 DEF Awaited
  <2> QED
    BY <2>9 DEF o2, m
<1> QED
  BY <1>4, <1>5

LEMMA LeastIndex ==
    ASSUME NEW T, T \subseteq Nat, T # {}
    PROVE  Min(T) \in T
<1>1. PICK x \in T : \A y \in T : ~(<<y, x>> \in OpToRel(<, Nat))
  BY NatLessThanWellFounded, WFMin
<1>2. ASSUME NEW y \in T PROVE x =< y
  <2>1. ~(y < x)
    BY <1>1, <1>2 DEF OpToRel
  <2> QED
    BY <2>1
<1> QED
  BY <1>2 DEF Min

\* What Position finds.
LEMMA PositionFinds ==
    ASSUME output \in Seq(Mark), NEW k, Position(k) # 0
    PROVE  Position(k) \in 1..Len(output) /\ output[Position(k)] = <<"sentinel", k>>
<1> DEFINE I == {p \in 1..Len(output) : output[p] = <<"sentinel", k>>}
<1>1. Position(k) = IF I # {} THEN Min(I) ELSE 0
  BY DEF Position, SelectInSeq, Sentinel
<1>2. I # {} /\ I \subseteq Nat
  BY <1>1
<1>3. Min(I) \in I
  <2> HIDE DEF I
  <2> QED
    BY <1>2, LeastIndex
<1> QED
  BY <1>1, <1>2, <1>3

----------------------------------------------------------------------------
LEMMA OutputInvInit == Init => ResultsInv /\ PipeInv
<1> SUFFICES ASSUME Init PROVE ResultsInv /\ PipeInv
  OBVIOUS
<1>1. /\ shell = "none" /\ input = <<>> /\ busy = 0 /\ output = <<>> /\ behind = {}
      /\ results = <<>> /\ log = <<>>
  BY DEF Init, ShellInit, ToolsInit
<1>2. call.at \notin RunPlace
  BY DEF Init, ToolsInit, NoCall, RunPlace
<1>3. ResultsInv
  BY <1>1, <1>2 DEF ResultsInv, Latest
<1>4. PipeInv
  BY <1>1, <1>2 DEF PipeInv, PipeTypes, Queue, Listed
<1> QED
  BY <1>3, <1>4

\* What was accounted for stays so: results and printed lines only grow.
LEMMA StaysAccounted ==
    ASSUME NEW r, NEW r2, NEW c, NEW c2, NEW mir, NEW mir2, mir \subseteq mir2,
           1..Len(r) \subseteq 1..Len(r2), \A k : Ended(k, r) => Ended(k, r2),
           c.at \in RunPlace => c2.at \in RunPlace /\ c2.k = c.k
    PROVE  \A k : Accounted(k, r, c, mir) => Accounted(k, r2, c2, mir2)
  BY DEF Accounted

\* A new pipe, of which nobody knows anything.
LEMMA PipeGone ==
    ASSUME PipeInv, output' = <<>>, busy' = 0 \/ (busy' = busy /\ shell # "alive"),
           input' = <<>> \/ (input' = input /\ shell # "alive"), behind' \subseteq Nat,
           call'.at \in RunPlace => call'.k # 0
    PROVE  PipeInv'
<1>1. output' = <<>> /\ input' = <<>> /\ busy' = 0
  BY DEF PipeInv, PipeTypes
<1>2. \A k : k # 0 => Awaited(k, output', input', busy')
  BY <1>1 DEF Awaited
<1> QED
  BY <1>1, <1>2 DEF PipeInv, PipeTypes, Queue, Listed

\* Nothing is written, read or returned.
LEMMA QuietOutput ==
    ASSUME ResultsInv, PipeInv,
           UNCHANGED <<shell, output, input, busy, behind, mirrored, results, log>>,
           \/ UNCHANGED call
           \/ call.at \notin RunPlace /\ call'.at \notin RunPlace
           \/ call.at \in RunPlace /\ call'.at \in RunPlace /\ call'.k = call.k
    PROVE  ResultsInv' /\ PipeInv'
<1>1. ResultsInv'
  BY DEF ResultsInv, Latest
<1>2. \A k : Accounted(k, results, call, mirrored) => Accounted(k, results, call', mirrored)
  BY DEF Accounted
<1>3. Listed(output, input, busy, results, call', mirrored)
  BY <1>2 DEF PipeInv, Listed
<1>4. call'.at \in RunPlace /\ call'.k \notin mirrored => Awaited(call'.k, output, input, busy)
  BY DEF PipeInv
<1>5. PipeInv'
  BY <1>3, <1>4 DEF PipeInv, PipeTypes
<1> QED
  BY <1>1, <1>5

\* A line is printed that was not: what is known of the results is none the less.
LEMMA PrintedResults ==
    ASSUME ResultsInv, mirrored \subseteq mirrored', UNCHANGED <<results, log, call>>
    PROVE  ResultsInv'
<1>1. \A k \in 1..Len(results) : Own(k, results, mirrored')
  BY DEF ResultsInv, Own, Explained
<1> QED
  BY <1>1 DEF ResultsInv

\* The call that ends gets its result; those of the others stay.
LEMMA OthersKeep ==
    ASSUME NEW r \in Seq(Result), NEW n \in 1..Len(r), r[n].by = "none", NEW x \in Result, NEW mir,
           \A k \in 1..Len(r) : Own(k, r, mir)
    PROVE  LET r2 == [r EXCEPT ![n] = x]
           IN  /\ r2 \in Seq(Result) /\ Len(r2) = Len(r) /\ r2[n] = x
               /\ \A k : Ended(k, r) => Ended(k, r2) /\ k # n
               /\ \A k \in 1..Len(r) \ {n} : Own(k, r2, mir)
<1> DEFINE r2 == [r EXCEPT ![n] = x]
<1>1. /\ r2 \in Seq(Result) /\ Len(r2) = Len(r) /\ r2[n] = x
      /\ \A k \in 1..Len(r) \ {n} : r2[k] = r[k]
  OBVIOUS
<1> HIDE DEF r2
<1>2. \A k : Ended(k, r) => Ended(k, r2) /\ k # n
  BY <1>1 DEF Ended
<1>3. ASSUME NEW k \in 1..Len(r) \ {n} PROVE Own(k, r2, mir)
  <2>1. r2[k] = r[k] /\ Own(k, r, mir)
    BY <1>1
  <2>2. \A m : Explained(m, k, r, mir) => Explained(m, k, r2, mir)
    BY <1>2 DEF Explained
  <2> QED
    BY <2>1, <2>2 DEF Own
<1>4. /\ r2 \in Seq(Result) /\ Len(r2) = Len(r) /\ r2[n] = x
      /\ \A k : Ended(k, r) => Ended(k, r2) /\ k # n
      /\ \A k \in 1..Len(r) \ {n} : Own(k, r2, mir)
  BY <1>1, <1>2, <1>3
<1> QED
  BY <1>4 DEF r2

\* What is left after a sentinel was awaited: nothing of that command, unless
\* its line was printed.
LEMMA Remains ==
    ASSUME ResultsInv, PipeInv, call.at \in RunPlace, NEW n, call.k = n,
           NEW s \in 1..Len(output), output[s] = <<"sentinel", n>>,
           NEW o2, Len(o2) = Len(output) - s, \A p \in 1..Len(o2) : o2[p] = output[p + s],
           NEW r2, 1..Len(results) \subseteq 1..Len(r2),
           \A k : Ended(k, results) => Ended(k, r2)
    PROVE  Listed(o2, input, busy, r2, NoCall, mirrored)
<1>1. /\ Listed(output, input, busy, results, call, mirrored)
      /\ n \notin mirrored => Awaited(n, output, input, busy)
      /\ output \in Seq(Mark) /\ Len(output) \in Nat
  BY DEF PipeInv, PipeTypes
<1>2. ASSUME NEW k, Accounted(k, results, call, mirrored), k # n \/ n \in mirrored
      PROVE  Accounted(k, r2, NoCall, mirrored)
  BY <1>2 DEF Accounted
<1>3. ASSUME NEW p \in 1..Len(o2)
      PROVE  p + s \in 1..Len(output) /\ o2[p] = output[p + s] /\ ~(p + s < s)
  BY <1>1, <1>3
<1>4. ASSUME NEW p \in 1..Len(o2), o2[p][1] = "out" PROVE Accounted(o2[p][2], r2, NoCall, mirrored)
  <2>1. output[p + s] \in Mark /\ output[p + s][1] = "out"
    BY <1>1, <1>3, <1>4
  <2>2. output[p + s] = <<"out", output[p + s][2]>>
    BY <2>1, MarkParts
  <2>3. Accounted(output[p + s][2], results, call, mirrored)
    BY <1>1, <1>3, <2>1 DEF Listed
  <2>4. n \notin mirrored => output[p + s][2] # n
    BY <1>1, <1>3, <2>2 DEF Awaited
  <2> QED
    BY <1>2, <1>3, <2>3, <2>4
<1>5. ASSUME NEW p \in 1..Len(o2), o2[p][1] = "sentinel" PROVE o2[p][2] \in 1..Len(r2)
  BY <1>1, <1>3, <1>5 DEF Listed
<1>6. ASSUME NEW p \in 1..Len(input) PROVE Accounted(input[p], r2, NoCall, mirrored)
  BY <1>1, <1>2 DEF Listed, Awaited
<1>7. busy # 0 => Accounted(busy, r2, NoCall, mirrored)
  BY <1>1, <1>2 DEF Listed, Awaited
<1> QED
  BY <1>4, <1>5, <1>6, <1>7 DEF Listed

LEMMA ReturnsStep ==
    ASSUME ToolsInv, ResultsInv, PipeInv, run_returns
    PROVE  ResultsInv' /\ PipeInv'
<1> DEFINE n == Len(results)  s == Position(n)  taken == SubSeq(output, 1, s - 1)
           x == [by |-> "shell", parts |-> taken]
<1>1. /\ call.at \in RunPlace /\ call.k = n /\ n \in 1..Len(results) /\ results[n].by = "none"
      /\ results \in Seq(Result) /\ n \in Nat /\ \A k \in 1..n : Own(k, results, mirrored)
  BY DEF run_returns, RunPlace, ResultsInv, Latest
<1>2. /\ s # 0 /\ output' = SubSeq(output, s + 1, Len(output))
      /\ UNCHANGED <<shell, input, busy, behind, mirrored, log>> /\ call' = NoCall
      /\ results' = [results EXCEPT ![n] = x]
  BY <1>1 DEF run_returns, sentinel_found, Returned
<1>3. /\ output \in Seq(Mark) /\ Len(output) \in Nat
      /\ n \notin mirrored => Awaited(n, output, input, busy)
      /\ Listed(output, input, busy, results, call, mirrored)
  BY <1>1 DEF PipeInv, PipeTypes
<1>4. s \in 1..Len(output) /\ output[s] = <<"sentinel", n>>
  BY <1>2, <1>3, PositionFinds
<1> HIDE DEF s
<1>5. /\ taken \in Seq(Mark) /\ Len(taken) = s - 1
      /\ \A p \in 1..s - 1 : taken[p] = output[p] /\ p \in 1..Len(output)
  BY <1>3, <1>4
<1>6. /\ output' \in Seq(Mark) /\ Len(output') = Len(output) - s
      /\ \A p \in 1..Len(output') : output'[p] = output[p + s]
  BY <1>2, <1>3, <1>4
<1> HIDE DEF taken
<1>7. x \in Result
  BY <1>5 DEF Result
<1>8. x.by = "shell" /\ x.parts = taken
  OBVIOUS
<1> HIDE DEF x
<1>9. /\ results' \in Seq(Result) /\ Len(results') = n /\ results'[n] = x
      /\ \A k : Ended(k, results) => Ended(k, results') /\ k # n
      /\ \A k \in 1..n \ {n} : Own(k, results', mirrored)
  BY <1>1, <1>2, <1>7, OthersKeep
<1>10. Own(n, results', mirrored)
  <2>1. n \in mirrored \/ \E p \in 1..Len(taken) : taken[p] = <<"out", n>>
    <3> SUFFICES ASSUME n \notin mirrored PROVE \E p \in 1..Len(taken) : taken[p] = <<"out", n>>
      OBVIOUS
    <3>1. PICK p \in 1..Len(output) : output[p] = <<"out", n>> /\ p < s
      BY <1>3, <1>4 DEF Awaited
    <3>2. p \in 1..s - 1
      BY <1>3, <1>4, <3>1
    <3> QED
      BY <1>5, <3>1, <3>2
  <2>2. ASSUME NEW p \in 1..Len(taken) PROVE Explained(taken[p], n, results', mirrored)
    <3>1. taken[p] = output[p] /\ p \in 1..Len(output)
      BY <1>5
    <3>2. output[p][1] = "out" => Accounted(output[p][2], results, call, mirrored)
      BY <1>3, <3>1 DEF Listed
    <3> QED
      BY <1>1, <1>9, <3>1, <3>2 DEF Accounted, Explained
  <2> QED
    BY <1>8, <1>9, <2>1, <2>2 DEF Own
<1>11. \A k \in 1..n : Own(k, results', mirrored)
  BY <1>9, <1>10
<1>12. ResultsInv'
  <2>1. Latest(results', call')
    BY <1>2 DEF Latest, NoCall, RunPlace
  <2>2. Len(log') = n /\ mirrored' = mirrored
    BY <1>2 DEF ResultsInv
  <2> QED
    BY <1>9, <1>11, <2>1, <2>2 DEF ResultsInv
<1>13. PipeInv'
  <2>1. 1..Len(results) \subseteq 1..Len(results') /\ \A k : Ended(k, results) => Ended(k, results')
    BY <1>9
  <2> HIDE DEF n
  <2>2. Listed(output', input, busy, results', NoCall, mirrored)
    BY <1>1, <1>4, <1>6, <2>1, Remains
  <2>3. call'.at \notin RunPlace
    BY <1>2 DEF NoCall, RunPlace
  <2> QED
    BY <1>2, <1>6, <2>2, <2>3 DEF PipeInv, PipeTypes
<1> QED
  BY <1>12, <1>13

LEMMA SubprocessStep ==
    ASSUME ToolsInv, ResultsInv, PipeInv, subprocess_ends
    PROVE  ResultsInv' /\ PipeInv'
<1> DEFINE n == Len(results)  x == [by |-> "subprocess", parts |-> <<>>]
<1>1. /\ call.at \in RunPlace /\ call.k = n /\ n \in 1..Len(results) /\ results[n].by = "none"
      /\ results \in Seq(Result) /\ n \in Nat /\ \A k \in 1..n : Own(k, results, mirrored)
  BY DEF subprocess_ends, RunPlace, ResultsInv, Latest
<1>2. /\ UNCHANGED <<shell, input, busy, output, behind, mirrored, log>> /\ call' = NoCall
      /\ results' = [results EXCEPT ![n] = x]
  BY <1>1 DEF subprocess_ends, Returned, shellVars
<1>3. x \in Result
  BY DEF Result
<1>4. x.by = "subprocess"
  OBVIOUS
<1> HIDE DEF x
<1>5. /\ results' \in Seq(Result) /\ Len(results') = n /\ results'[n] = x
      /\ \A k : Ended(k, results) => Ended(k, results') /\ k # n
      /\ \A k \in 1..n \ {n} : Own(k, results', mirrored)
  BY <1>1, <1>2, <1>3, OthersKeep
<1>6. Own(n, results', mirrored) /\ Ended(n, results')
  BY <1>1, <1>4, <1>5 DEF Own, Ended
<1>7. ResultsInv'
  <2>1. Latest(results', call')
    BY <1>2 DEF Latest, NoCall, RunPlace
  <2>2. Len(log') = n /\ mirrored' = mirrored
    BY <1>2 DEF ResultsInv
  <2> QED
    BY <1>5, <1>6, <2>1, <2>2 DEF ResultsInv
<1>8. \A k : Accounted(k, results, call, mirrored) => Accounted(k, results', call', mirrored)
  BY <1>1, <1>5, <1>6 DEF Accounted
<1>9. Listed(output, input, busy, results', call', mirrored)
  BY <1>5, <1>8 DEF PipeInv, Listed
<1>10. call'.at \notin RunPlace
  BY <1>2 DEF NoCall, RunPlace
<1>11. PipeInv'
  BY <1>2, <1>9, <1>10 DEF PipeInv, PipeTypes
<1> QED
  BY <1>7, <1>11

\* A command of the next number: its line, if one is sent, is the last, and
\* nothing in the pipe is of that command, unless the terminal echoes it.
LEMMA RunCommandPipes ==
    ASSUME ToolsInv, ResultsInv, PipeInv, NEW c \in Command, _execute_run_command(c)
    PROVE  ResultsInv' /\ PipeInv'
<1> DEFINE n == Len(log)
<1>1. PICK decision \in check(c) :
        /\ log' = Append(log, [command |-> c, decision |-> decision, profile |-> profile])
        /\ IF Approved(decision)
           THEN /\ get_or_create /\ sendline(Len(log'))
                /\ call' = [NoCall EXCEPT !.at = IF shell' = "none" THEN "fallback" ELSE "expect",
                                          !.k = Len(log')]
                /\ UNCHANGED signals
           ELSE _record(TRUE) /\ UNCHANGED <<shell, input, output, mirrored, call>>
  BY DEF _execute_run_command
<1>2. /\ results' = Append(results, NoResult) /\ UNCHANGED <<busy, behind>>
      /\ call = NoCall
  BY DEF _execute_run_command, Executes, Idle
<1>3. Len(log') = n + 1 /\ n \in Nat
  BY <1>1 DEF ToolsInv, ToolTypes
<1>4. results \in Seq(Result) /\ Len(results) = n /\ \A k \in 1..n : Own(k, results, mirrored)
  BY DEF ResultsInv
<1>5. NoResult \in Result /\ NoResult.by = "none"
  BY DEF NoResult, Result
<1>6. /\ results' \in Seq(Result) /\ Len(results') = n + 1 /\ results'[n + 1].by = "none"
      /\ \A k \in 1..n : results'[k] = results[k]
  BY <1>2, <1>4, <1>5
<1>7. /\ \A k : Ended(k, results) => Ended(k, results')
      /\ 1..Len(results) \subseteq 1..Len(results')
  BY <1>3, <1>4, <1>6 DEF Ended
<1>8. \/ mirrored' = mirrored /\ UNCHANGED output
      \/ mirrored' = mirrored \cup {n + 1} /\ output' = Append(output, <<"sentinel", n + 1>>)
  BY <1>1, <1>3 DEF sendline, Sentinel
<1>9. \/ UNCHANGED <<input, output, mirrored>>
      \/ /\ shell' = "alive" /\ input' = Append(input, n + 1)
         /\ call'.at \in RunPlace /\ call'.k = n + 1
  BY <1>1, <1>3 DEF sendline, NoCall, RunPlace
<1>10. \A k \in 1..n + 1 : Own(k, results', mirrored')
  <2>1. ASSUME NEW k \in 1..n PROVE Own(k, results', mirrored')
    <3>1. results'[k] = results[k] /\ Own(k, results, mirrored) /\ mirrored \subseteq mirrored'
      BY <1>4, <1>6, <1>8
    <3>2. \A m : Explained(m, k, results, mirrored) => Explained(m, k, results', mirrored')
      BY <1>7, <3>1 DEF Explained
    <3> QED
      BY <3>1, <3>2 DEF Own
  <2>2. Own(n + 1, results', mirrored')
    BY <1>6 DEF Own
  <2> QED
    BY <1>3, <2>1, <2>2
<1>11. call.at \notin RunPlace
  BY <1>2 DEF NoCall, RunPlace
<1>12. call' = call \/ (call'.at \in RunPlace /\ call'.k = n + 1)
  BY <1>1, <1>3 DEF NoCall, RunPlace
<1>13. ResultsInv'
  <2>1. Latest(results', call')
    BY <1>3, <1>6, <1>11, <1>12 DEF Latest
  <2> QED
    BY <1>3, <1>6, <1>10, <2>1 DEF ResultsInv
<1> HIDE DEF n
<1>14. /\ output \in Seq(Mark) /\ input \in Seq(Nat) /\ busy \in Nat /\ Queue(input, busy)
       /\ Len(output) \in Nat /\ Len(input) \in Nat
       /\ Listed(output, input, busy, results, call, mirrored)
  BY DEF PipeInv, PipeTypes
<1>15. \A k : Accounted(k, results, call, mirrored) =>
          k \in 1..n /\ Accounted(k, results', call', mirrored')
  <2>1. mirrored \subseteq mirrored'
    BY <1>8
  <2>2. \A k : Accounted(k, results, call, mirrored) => Accounted(k, results', call', mirrored')
    BY <1>7, <1>11, <2>1, StaysAccounted
  <2> QED
    BY <1>4, <2>2 DEF Accounted
<1>16. /\ \A p \in 1..Len(output) : output[p] # <<"out", n + 1>> /\ output[p] # <<"sentinel", n + 1>>
       /\ \A p \in 1..Len(input) : input[p] < n + 1
       /\ busy < n + 1
  <2>1. \A k \in 1..n : k < n + 1
    BY <1>3
  <2>2. \A p \in 1..Len(output) : output[p][1] \in {"out", "sentinel"} => output[p][2] \in 1..n
    BY <1>4, <1>14, <1>15 DEF Listed
  <2>3. /\ n + 1 \notin 1..n /\ n + 1 \in Nat
        /\ <<"out", n + 1>>[1] = "out" /\ <<"out", n + 1>>[2] = n + 1
        /\ <<"sentinel", n + 1>>[1] = "sentinel" /\ <<"sentinel", n + 1>>[2] = n + 1
    BY <1>3
  <2>4. \A p \in 1..Len(output) : output[p] # <<"out", n + 1>> /\ output[p] # <<"sentinel", n + 1>>
    BY <2>2, <2>3
  <2>5. \A p \in 1..Len(input) : input[p] \in 1..n
    BY <1>14, <1>15 DEF Listed
  <2>6. busy = 0 \/ busy \in 1..n
    BY <1>14, <1>15 DEF Listed
  <2> QED
    BY <1>3, <2>1, <2>4, <2>5, <2>6
<1>17. /\ output' \in Seq(Mark)
       /\ \A p \in 1..Len(output') : output'[p][1] = "out" =>
             Accounted(output'[p][2], results', call', mirrored')
       /\ \A p \in 1..Len(output') : output'[p][1] = "sentinel" => output'[p][2] \in 1..Len(results')
  <2>1. CASE output' = output
    BY <1>7, <1>14, <1>15, <2>1 DEF Listed
  <2>2. CASE output' = Append(output, <<"sentinel", n + 1>>)
    <3> DEFINE m == <<"sentinel", n + 1>>
    <3>1. m \in Mark /\ m[1] = "sentinel" /\ m[2] = n + 1 /\ n + 1 \in 1..n + 1
      BY <1>3, MarkParts
    <3>2. output' \in Seq(Mark) /\ Grown(output, output', m)
      BY <1>14, <2>2, <3>1, Appending
    <3> HIDE DEF m
    <3>3. \A p \in 1..Len(output') :
             (p \in 1..Len(output) /\ output'[p] = output[p]) \/ output'[p] = m
      BY <1>14, <3>2 DEF Grown
    <3> QED
      BY <1>6, <1>7, <1>14, <1>15, <3>1, <3>2, <3>3 DEF Listed
  <2> QED
    BY <1>8, <2>1, <2>2
<1>18. busy' # 0 => Accounted(busy', results', call', mirrored')
  BY <1>2, <1>14, <1>15 DEF Listed
<1>19. behind' \subseteq Nat
  BY <1>2 DEF PipeInv, PipeTypes
<1>20. CASE UNCHANGED <<input, output, mirrored>>
  <2>1. Listed(output', input', busy', results', call', mirrored')
    BY <1>14, <1>15, <1>17, <1>18, <1>20 DEF Listed
  <2>2. shell' # "alive" => input' = <<>> /\ busy' = 0
    <3>1. shell' # "alive" => shell # "alive"
      BY <1>1 DEF get_or_create
    <3> QED
      BY <1>2, <1>20, <3>1 DEF PipeInv, PipeTypes
  <2>3. call'.at \in RunPlace => Awaited(call'.k, output', input', busy')
    <3>1. busy' # n + 1
      BY <1>2, <1>3, <1>14, <1>16
    <3>2. Awaited(n + 1, output', input', busy')
      BY <1>16, <1>20, <3>1 DEF Awaited
    <3> QED
      BY <1>11, <1>12, <3>2
  <2>4. PipeInv'
    BY <1>2, <1>14, <1>19, <1>20, <2>1, <2>2, <2>3 DEF PipeInv, PipeTypes
  <2> QED
    BY <1>13, <2>4
<1>21. CASE /\ shell' = "alive" /\ input' = Append(input, n + 1)
            /\ call'.at \in RunPlace /\ call'.k = n + 1
  <2>1. /\ input' \in Seq(Nat) /\ Len(input') = Len(input) + 1 /\ input'[Len(input) + 1] = n + 1
        /\ \A p \in 1..Len(input) : input'[p] = input[p]
    BY <1>3, <1>14, <1>21
  <2>2. \A p \in 1..Len(input') :
           p \in 1..Len(input) \/ (p = Len(input) + 1 /\ \A q \in 1..Len(input) : q < p)
    BY <1>14, <2>1
  <2>3. Accounted(n + 1, results', call', mirrored')
    BY <1>3, <1>6, <1>21 DEF Accounted
  <2>4. \A p \in 1..Len(input') : Accounted(input'[p], results', call', mirrored')
    BY <1>14, <1>15, <2>1, <2>2, <2>3 DEF Listed
  <2>5. Queue(input', busy)
    <3>1. \A p, q \in 1..Len(input) : p < q => input[p] < input[q]
      BY <1>14 DEF Queue
    <3>2. \A p \in 1..Len(input) : busy < input[p]
      BY <1>14 DEF Queue
    <3>3. ASSUME NEW p \in 1..Len(input'), NEW q \in 1..Len(input'), p < q
          PROVE  input'[p] < input'[q]
      <4>1. CASE q \in 1..Len(input)
        <5>1. p \in 1..Len(input)
          BY <1>14, <3>3, <4>1
        <5> QED
          BY <2>1, <3>1, <3>3, <4>1, <5>1
      <4>2. CASE q = Len(input) + 1
        <5>1. p \in 1..Len(input)
          BY <1>14, <2>1, <3>3, <4>2
        <5> QED
          BY <1>16, <2>1, <4>2, <5>1
      <4> QED
        BY <2>2, <4>1, <4>2
    <3>4. \A p \in 1..Len(input') : busy < input'[p]
      BY <1>16, <2>1, <2>2, <3>2
    <3> QED
      BY <3>3, <3>4 DEF Queue
  <2>6. Listed(output', input', busy', results', call', mirrored')
    BY <1>17, <1>18, <2>4 DEF Listed
  <2>7. call'.k \notin mirrored' => Awaited(call'.k, output', input', busy')
    <3> SUFFICES ASSUME n + 1 \notin mirrored' PROVE Awaited(n + 1, output', input', busy')
      BY <1>21
    <3>1. output' = output
      BY <1>8
    <3>2. busy' # n + 1
      BY <1>2, <1>3, <1>14, <1>16
    <3> QED
      BY <1>16, <3>1, <3>2 DEF Awaited
  <2>8. PipeInv'
    BY <1>2, <1>14, <1>17, <1>19, <1>21, <2>1, <2>5, <2>6, <2>7 DEF PipeInv, PipeTypes
  <2> QED
    BY <1>13, <2>8
<1> QED
  BY <1>9, <1>20, <1>21

\* The marks of o2 are those of o and accounted ones.
LEMMA ListedGrows ==
    ASSUME NEW o \in Seq(Mark), NEW m \in Mark, NEW r, NEW c, NEW mir,
           \A p \in 1..Len(o) : o[p][1] = "out" => Accounted(o[p][2], r, c, mir),
           \A p \in 1..Len(o) : o[p][1] = "sentinel" => o[p][2] \in 1..Len(r),
           m[1] = "out" => Accounted(m[2], r, c, mir),
           m[1] = "sentinel" => m[2] \in 1..Len(r),
           NEW o2, o2 = Append(o, m)
    PROVE  /\ o2 \in Seq(Mark) /\ Grown(o, o2, m)
           /\ \A p \in 1..Len(o2) : o2[p][1] = "out" => Accounted(o2[p][2], r, c, mir)
           /\ \A p \in 1..Len(o2) : o2[p][1] = "sentinel" => o2[p][2] \in 1..Len(r)
<1>1. o2 \in Seq(Mark) /\ Grown(o, o2, m) /\ Len(o) \in Nat
  BY Appending
<1>2. \A p \in 1..Len(o2) : (p \in 1..Len(o) /\ o2[p] = o[p]) \/ o2[p] = m
  BY <1>1 DEF Grown
<1> QED
  BY <1>1, <1>2

LEMMA BashPipes ==
    ASSUME ResultsInv, PipeInv, Bash, UNCHANGED toolVars
    PROVE  ResultsInv' /\ PipeInv'
<1> DEFINE k == call.k
<1>1. UNCHANGED <<results, log, call>>
  BY DEF toolVars
<1>2. /\ output \in Seq(Mark) /\ input \in Seq(Nat) /\ busy \in Nat /\ Queue(input, busy)
      /\ behind \subseteq Nat /\ Len(output) \in Nat
      /\ shell # "alive" => input = <<>> /\ busy = 0
  BY DEF PipeInv, PipeTypes
<1>3. /\ \A p \in 1..Len(output) : output[p][1] = "out" =>
            Accounted(output[p][2], results, call, mirrored)
      /\ \A p \in 1..Len(output) : output[p][1] = "sentinel" => output[p][2] \in 1..Len(results)
      /\ \A p \in 1..Len(input) : Accounted(input[p], results, call, mirrored)
      /\ busy # 0 => Accounted(busy, results, call, mirrored)
  BY DEF PipeInv, Listed
<1>4. call.at \in RunPlace /\ k \notin mirrored => Awaited(k, output, input, busy)
  BY DEF PipeInv
<1>5. call.at \in RunPlace => k \in Nat /\ k # 0
  BY DEF ResultsInv, Latest
<1>6. mirrored' = mirrored => ResultsInv'
  BY <1>1 DEF ResultsInv
<1>7. ASSUME NEW h, Accounted(h, results, call, mirrored) PROVE h \in 1..Len(results)
  BY <1>7 DEF Accounted
<1> HIDE DEF k
<1>8. CASE \E ok \in BOOLEAN : bash_reads(ok)
  <2> DEFINE h == Head(input)  m == <<"out", h>>
  <2>1. /\ shell = "alive" /\ busy = 0 /\ input # <<>> /\ input' = Tail(input)
        /\ output' = Append(output, m) /\ busy' \in {0, h}
        /\ UNCHANGED <<shell, behind, mirrored>>
    BY <1>8 DEF bash_reads
  <2>2. /\ h \in Nat /\ h = input[1] /\ 1 \in 1..Len(input) /\ input' \in Seq(Nat)
        /\ \A p \in 1..Len(input') : input'[p] = input[p + 1] /\ p + 1 \in 1..Len(input)
        /\ Queue(input', h) /\ Queue(input', 0)
    BY <1>2, <2>1, LineTaken
  <2>3. m \in Mark /\ m[1] = "out" /\ m[2] = h
    BY <2>2, MarkParts
  <2>4. Accounted(h, results, call, mirrored)
    BY <1>3, <2>2
  <2>5. /\ output' \in Seq(Mark)
        /\ \A p \in 1..Len(output') : output'[p][1] = "out" =>
              Accounted(output'[p][2], results, call, mirrored)
        /\ \A p \in 1..Len(output') : output'[p][1] = "sentinel" => output'[p][2] \in 1..Len(results)
    <3> HIDE DEF h, m
    <3> QED
      BY <1>2, <1>3, <2>1, <2>3, <2>4, ListedGrows
  <2>6. call.at \in RunPlace /\ k \notin mirrored => Awaited(k, output', input', busy')
    BY <1>2, <1>4, <1>5, <2>1, AwaitedRead
  <2> HIDE DEF h, m
  <2>7. busy' \in Nat /\ Queue(input', busy')
    BY <2>1, <2>2
  <2>8. Listed(output', input', busy', results, call, mirrored)
    BY <1>3, <2>1, <2>2, <2>4, <2>5 DEF Listed
  <2>9. PipeInv'
    BY <1>1, <1>2, <2>1, <2>2, <2>5, <2>6, <2>7, <2>8 DEF PipeInv, PipeTypes, k
  <2> QED
    BY <1>6, <2>1, <2>9
<1>9. CASE \E prints \in BOOLEAN : command_reads(prints)
  <2> DEFINE h == Head(input)  m1 == <<"out", busy>>  m2 == <<"sentinel", h>>
             o1 == Append(output, m1)
  <2>1. /\ shell = "alive" /\ busy # 0 /\ input # <<>> /\ input' = Tail(input)
        /\ UNCHANGED <<shell, busy, behind>>
        /\ \/ output' = Append(o1, m2) /\ mirrored' = mirrored \cup {h}
           \/ UNCHANGED <<output, mirrored>>
    BY <1>9 DEF command_reads, Sentinel
  <2>2. /\ h \in Nat /\ h = input[1] /\ 1 \in 1..Len(input) /\ input' \in Seq(Nat) /\ busy < h
        /\ \A p \in 1..Len(input') : input'[p] = input[p + 1] /\ p + 1 \in 1..Len(input)
        /\ Queue(input', busy)
    BY <1>2, <2>1, LineTaken
  <2>3. Accounted(h, results, call, mirrored) /\ h \in 1..Len(results)
    BY <1>3, <1>7, <2>2
  <2>4. \A j : Accounted(j, results, call, mirrored) => Accounted(j, results, call, mirrored')
    BY <2>1 DEF Accounted
  <2>5. /\ m1 \in Mark /\ m1[1] = "out" /\ m1[2] = busy
        /\ m2 \in Mark /\ m2[1] = "sentinel" /\ m2[2] = h
    BY <1>2, <2>2, MarkParts
  <2>6. o1 \in Seq(Mark) /\ Grown(output, o1, m1)
    BY <1>2, <2>5, Appending
  <2>7. /\ output' \in Seq(Mark)
        /\ \A p \in 1..Len(output') : output'[p][1] = "out" =>
              Accounted(output'[p][2], results, call, mirrored')
        /\ \A p \in 1..Len(output') : output'[p][1] = "sentinel" => output'[p][2] \in 1..Len(results)
    <3>1. CASE UNCHANGED <<output, mirrored>>
      BY <1>2, <1>3, <3>1
    <3>2. CASE output' = Append(o1, m2)
      <4>1. o1 = Append(output, m1)
        OBVIOUS
      <4> HIDE DEF h, m1, m2, o1
      <4>2. /\ \A p \in 1..Len(o1) : o1[p][1] = "out" =>
                  Accounted(o1[p][2], results, call, mirrored)
            /\ \A p \in 1..Len(o1) : o1[p][1] = "sentinel" => o1[p][2] \in 1..Len(results)
        BY <1>2, <1>3, <2>1, <2>5, <4>1, ListedGrows
      <4>3. /\ output' \in Seq(Mark)
            /\ \A p \in 1..Len(output') : output'[p][1] = "out" =>
                  Accounted(output'[p][2], results, call, mirrored)
            /\ \A p \in 1..Len(output') : output'[p][1] = "sentinel" =>
                  output'[p][2] \in 1..Len(results)
        BY <2>3, <2>5, <2>6, <3>2, <4>2, ListedGrows
      <4> QED
        BY <2>4, <4>3
    <3> QED
      BY <2>1, <3>1, <3>2
  <2>8. call.at \in RunPlace /\ k \notin mirrored' => Awaited(k, output', input', busy')
    <3> SUFFICES ASSUME call.at \in RunPlace, k \notin mirrored'
                 PROVE  Awaited(k, output', input', busy)
      BY <2>1
    <3>1. Awaited(k, output, input, busy) /\ k \in Nat
      BY <1>4, <1>5, <2>1
    <3>2. CASE UNCHANGED output
      <4>1. Awaited(k, output, Tail(input), busy)
        BY <1>2, <2>1, <3>1, AwaitedTaken
      <4> QED
        BY <2>1, <3>2, <4>1
    <3>3. CASE output' = Append(o1, m2) /\ mirrored' = mirrored \cup {h}
      <4>1. k # h /\ m1 # <<"sentinel", k>> /\ m2 # <<"sentinel", k>> /\ m2 # <<"out", k>>
        BY <2>5, <3>1, <3>3, MarkParts
      <4>2. m1 = <<"out", k>> => busy = k
        BY <2>5, <3>1, MarkParts
      <4>3. Grown(o1, output', m2) /\ Len(o1) \in Nat
        BY <2>5, <2>6, <3>3, Appending
      <4> HIDE DEF h, m1, m2, o1
      <4>4. busy = k => \A s \in 1..Len(output) : output[s] # <<"sentinel", k>>
        BY <3>1 DEF Awaited
      <4>5. Awaited(k, o1, input, busy)
        BY <1>2, <2>6, <3>1, <4>1, <4>2, <4>4, OtherMark
      <4>6. Awaited(k, output', input, busy)
        BY <3>1, <4>1, <4>3, <4>5, OtherMark
      <4>7. Awaited(k, output', Tail(input), busy)
        BY <1>2, <2>1, <4>6, AwaitedTaken
      <4> QED
        BY <2>1, <4>7
    <3> QED
      BY <2>1, <3>2, <3>3
  <2> HIDE DEF h, m1, m2, o1
  <2>9. Listed(output', input', busy', results, call, mirrored')
    BY <1>3, <2>1, <2>2, <2>4, <2>7 DEF Listed
  <2>10. PipeInv'
    BY <1>1, <1>2, <2>1, <2>2, <2>7, <2>8, <2>9 DEF PipeInv, PipeTypes, k
  <2>11. ResultsInv'
    <3>1. mirrored \subseteq mirrored'
      BY <2>1
    <3> QED
      BY <1>1, <3>1, PrintedResults
  <2> QED
    BY <2>10, <2>11
<1>10. CASE bash_ends(FALSE)
  <2> DEFINE m == <<"sentinel", busy>>
  <2>1. /\ busy # 0 /\ busy' = 0 /\ output' = Append(output, m)
        /\ UNCHANGED <<shell, input, mirrored>> /\ behind' \subseteq behind \cup {busy}
    BY <1>10 DEF bash_ends, Sentinel
  <2>2. Accounted(busy, results, call, mirrored) /\ busy \in 1..Len(results)
    BY <1>3, <1>7, <2>1
  <2>3. m \in Mark /\ m[1] = "sentinel" /\ m[2] = busy
    BY <1>2, MarkParts
  <2>4. /\ output' \in Seq(Mark)
        /\ \A p \in 1..Len(output') : output'[p][1] = "out" =>
              Accounted(output'[p][2], results, call, mirrored)
        /\ \A p \in 1..Len(output') : output'[p][1] = "sentinel" => output'[p][2] \in 1..Len(results)
    <3> HIDE DEF m
    <3> QED
      BY <1>2, <1>3, <2>1, <2>2, <2>3, ListedGrows
  <2>5. call.at \in RunPlace /\ k \notin mirrored => Awaited(k, output', input, 0)
    BY <1>2, <1>4, <1>5, <2>1, AwaitedEnd
  <2> HIDE DEF m
  <2>6. Queue(input, 0)
    BY <1>2 DEF Queue
  <2>7. behind' \subseteq Nat
    BY <1>2, <2>1
  <2>8. Listed(output', input', busy', results, call, mirrored)
    BY <1>3, <2>1, <2>4 DEF Listed
  <2>9. PipeInv'
    BY <1>1, <1>2, <2>1, <2>4, <2>5, <2>6, <2>7, <2>8 DEF PipeInv, PipeTypes, k
  <2> QED
    BY <1>6, <2>1, <2>9
<1>11. CASE bash_ends(TRUE)
  <2>1. /\ busy' = 0 /\ input' = <<>> /\ UNCHANGED <<output, mirrored>>
        /\ behind' \subseteq behind \cup {busy}
    BY <1>11 DEF bash_ends
  <2>2. call.at \in RunPlace /\ k \notin mirrored => Awaited(k, output', input', busy')
    <3>1. \A p \in 1..Len(input') : FALSE
      BY <2>1
    <3> QED
      BY <1>4, <1>5, <2>1, <3>1 DEF Awaited
  <2>3. Listed(output', input', busy', results, call, mirrored) /\ Queue(input', busy')
    BY <1>3, <2>1 DEF Listed, Queue
  <2>4. behind' \subseteq Nat
    BY <1>2, <2>1
  <2>5. PipeInv'
    BY <1>1, <1>2, <2>1, <2>2, <2>3, <2>4 DEF PipeInv, PipeTypes, k
  <2> QED
    BY <1>6, <2>1, <2>5
<1>12. CASE command_sets_echo
  <2>1. UNCHANGED <<shell, input, busy, output, behind, mirrored>>
    BY <1>12 DEF command_sets_echo
  <2> QED
    BY <1>1, <2>1, QuietOutput
<1>13. CASE \E j \in behind : process_prints(j)
  <2>1. PICK j \in behind : process_prints(j)
    BY <1>13
  <2> DEFINE m == <<"late", j>>
  <2>2. /\ output' = Append(output, m) /\ behind' \subseteq behind
        /\ UNCHANGED <<shell, input, busy, mirrored>>
    BY <2>1 DEF process_prints
  <2>3. m \in Mark /\ m[1] = "late" /\ \A n \in Nat : m # <<"out", n>> /\ m # <<"sentinel", n>>
    BY <1>2, MarkParts
  <2> HIDE DEF m
  <2>4. /\ output' \in Seq(Mark) /\ Grown(output, output', m)
        /\ \A p \in 1..Len(output') : output'[p][1] = "out" =>
              Accounted(output'[p][2], results, call, mirrored)
        /\ \A p \in 1..Len(output') : output'[p][1] = "sentinel" => output'[p][2] \in 1..Len(results)
    BY <1>2, <1>3, <2>2, <2>3, ListedGrows
  <2>5. call.at \in RunPlace /\ k \notin mirrored => Awaited(k, output', input, busy)
    BY <1>2, <1>4, <1>5, <2>3, <2>4, OtherMark
  <2>6. Listed(output', input', busy', results, call, mirrored)
    BY <1>3, <2>2, <2>4 DEF Listed
  <2>7. PipeInv'
    BY <1>1, <1>2, <2>2, <2>4, <2>5, <2>6 DEF PipeInv, PipeTypes, k
  <2> QED
    BY <1>6, <2>2, <2>7
<1> QED
  BY <1>8, <1>9, <1>10, <1>11, <1>12, <1>13 DEF Bash

LEMMA NextKeepsOutputInv ==
    ASSUME ToolsInv, ResultsInv, PipeInv, [Next]_vars
    PROVE  ResultsInv' /\ PipeInv'
<1> DEFINE Still == UNCHANGED <<shell, output, input, busy, behind, mirrored, results, log>>
<1>1. ASSUME Still, UNCHANGED call PROVE ResultsInv' /\ PipeInv'
  BY <1>1, QuietOutput
<1>2. ASSUME Still, call.at \notin RunPlace, call'.at \notin RunPlace
      PROVE  ResultsInv' /\ PipeInv'
  BY <1>2, QuietOutput
<1>3. ASSUME NEW c \in Command, _execute_run_command(c) PROVE ResultsInv' /\ PipeInv'
  BY <1>3, RunCommandPipes
<1>4. ASSUME run_raises PROVE ResultsInv' /\ PipeInv'
  <2>1. /\ call.at \in RunPlace /\ call'.at \in RunPlace /\ call'.k = call.k
        /\ UNCHANGED <<results, log>>
    BY <1>4 DEF run_raises, RunPlace, ToolsInv, ToolTypes
  <2>2. CASE sentinel_timeout(call.k)
    BY <2>1, <2>2, QuietOutput DEF sentinel_timeout, shellVars
  <2>3. CASE sentinel_eof(call.k)
    <3>1. shell # "alive" /\ output' = <<>> /\ UNCHANGED <<shell, input, busy, behind, mirrored>>
      BY <2>3 DEF sentinel_eof
    <3>2. behind' \subseteq Nat /\ call'.k # 0
      BY <2>1, <3>1 DEF PipeInv, PipeTypes, ResultsInv, Latest
    <3>3. PipeInv'
      BY <3>1, <3>2, PipeGone
    <3>4. ResultsInv'
      BY <2>1, <3>1 DEF ResultsInv, Latest
    <3> QED
      BY <3>3, <3>4
  <2> QED
    BY <1>4, <2>2, <2>3 DEF run_raises
<1>5. ASSUME _subprocess_fallback PROVE ResultsInv' /\ PipeInv'
  <2>1. /\ call.at \in RunPlace /\ call'.at \in RunPlace /\ call'.k = call.k /\ Still
    BY <1>5 DEF _subprocess_fallback, RunPlace, ToolsInv, ToolTypes
  <2> QED
    BY <2>1, QuietOutput
<1>6. ASSUME NEW t \in MCPTool, _execute_mcp_call(t) PROVE ResultsInv' /\ PipeInv'
  <2>1. Still /\ call = NoCall /\ (call' = call \/ call'.at = "mcp")
    BY <1>6 DEF _execute_mcp_call, MCPUnchanged, shellVars, Executes, Idle, NoCall
  <2> QED
    BY <1>1, <1>2, <2>1 DEF NoCall, RunPlace
<1>7. ASSUME _execute_mcp_list_tools PROVE ResultsInv' /\ PipeInv'
  <2>1. Still /\ call = NoCall /\ call'.at = "list"
    BY <1>7 DEF _execute_mcp_list_tools, MCPUnchanged, shellVars, Executes, Idle, NoCall
  <2> QED
    BY <1>2, <2>1 DEF NoCall, RunPlace
<1>8. ASSUME list_next PROVE ResultsInv' /\ PipeInv'
  <2>1. Still /\ call.at \in {"list", "register"} /\ call'.at = call.at
    BY <1>8 DEF list_next, MCPUnchanged, shellVars, ToolsInv, ToolTypes
  <2> QED
    BY <1>2, <2>1 DEF RunPlace
<1>9. ASSUME mcp_returns PROVE ResultsInv' /\ PipeInv'
  <2>1. Still /\ call.at \in {"mcp", "list", "register"} /\ call'.at = "none"
    BY <1>9 DEF mcp_returns, MCPUnchanged, shellVars, NoCall
  <2> QED
    BY <1>2, <2>1 DEF RunPlace
<1>10. ASSUME NEW id \in Server, register_mcp_server(id) PROVE ResultsInv' /\ PipeInv'
  <2>1. Still /\ call = NoCall /\ call'.at = "register"
    BY <1>10 DEF register_mcp_server, MCPUnchanged, shellVars, Idle, NoCall
  <2> QED
    BY <1>2, <2>1 DEF NoCall, RunPlace
<1>11. ASSUME close \/ \E p \in Profiles : __init__(p) PROVE ResultsInv' /\ PipeInv'
  <2>1. /\ output' = <<>> /\ input' = <<>> /\ busy' = 0 /\ behind' = {}
        /\ UNCHANGED <<results, log, call, mirrored>> /\ call' = NoCall
    BY <1>11 DEF close, __init__, close_all, new_manager, NoShell, toolVars, Idle
  <2>2. PipeInv'
    BY <2>1, PipeGone DEF NoCall, RunPlace
  <2>3. ResultsInv'
    BY <2>1 DEF ResultsInv
  <2> QED
    BY <2>2, <2>3
<1>12. CASE Still /\ UNCHANGED call
  BY <1>1, <1>12
<1>13. \/ Still /\ UNCHANGED call
       \/ \E c \in Command : _execute_run_command(c)
       \/ run_returns \/ subprocess_ends \/ run_raises \/ _subprocess_fallback
       \/ \E t \in MCPTool : _execute_mcp_call(t)
       \/ _execute_mcp_list_tools \/ list_next \/ mcp_returns
       \/ \E id \in Server : register_mcp_server(id)
       \/ close \/ (\E p \in Profiles : __init__(p)) \/ (Bash /\ UNCHANGED toolVars)
  BY DEF Next, vars, shellVars, toolVars, execute_call_refused, execute_file, execute_memory,
     mcp_answered, MCPUnchanged
<1> QED
  BY <1>3, <1>4, <1>5, <1>6, <1>7, <1>8, <1>9, <1>10, <1>11, <1>12, <1>13, ReturnsStep,
     SubprocessStep, BashPipes

\* What a command returns from the shell is its own output, with what was left
\* by processes in the background and by commands whose caller had gone over to
\* subprocess, unless a line was printed that should only have been read
\* (PTYSession.run, ToolExecutor._execute_run_command): for any commands,
\* whether or not they read the lines sent after them or set the terminal, and
\* however often the shell times out, dies or is closed.
THEOREM OutputsAreOwn == Spec => []OutputIsOwn
<1>1. ResultsInv => OutputIsOwn
  <2> SUFFICES ASSUME ResultsInv, NEW k \in DOMAIN results, results[k].by = "shell"
               PROVE  /\ k \in mirrored \/ <<"out", k>> \in ToSet(results[k].parts)
                      /\ \A mark \in ToSet(results[k].parts) : mark[1] = "out" /\ mark[2] # k =>
                             mark[2] \in mirrored \/ results[mark[2]].by = "subprocess"
    BY DEF OutputIsOwn
  <2>1. k \in 1..Len(results) /\ Own(k, results, mirrored) /\ results[k] \in Result
    BY DEF ResultsInv
  <2>2. DOMAIN results[k].parts = 1..Len(results[k].parts)
    BY <2>1 DEF Result
  <2>3. \A m : m \in ToSet(results[k].parts) <=>
                 \E p \in 1..Len(results[k].parts) : results[k].parts[p] = m
    BY <2>2 DEF ToSet
  <2> QED
    BY <2>1, <2>3 DEF Own, Explained, Ended
<1>2. ToolsInv /\ ResultsInv /\ PipeInv /\ [Next]_vars => ToolsInv' /\ ResultsInv' /\ PipeInv'
  BY NextKeepsToolsInv, NextKeepsOutputInv
<1> QED
  BY <1>1, <1>2, ToolsInvInit, OutputInvInit, PTL DEF Spec

----------------------------------------------------------------------------
(* The servers.                                                             *)

MCPTypes ==
    /\ stdout \in Seq(Seq(Nat)) /\ up \subseteq 1..Len(stdout)
    /\ requests \in Nat /\ asked \in Nat
    /\ asked # 0 => to \in 1..Len(stdout)
    /\ asked = 0 => to = 0

\* A line that nobody has read answers the request under way.
NothingUnread ==
    notices = {} => \A p \in 1..Len(stdout) :
        stdout[p] = <<>> \/ (asked # 0 /\ p = to /\ stdout[p] = <<asked>>)

AnswerInv == MCPTypes /\ NothingUnread /\ AnswerIsOwn

LEMMA AnswerInvInit == Init => AnswerInv
<1> SUFFICES ASSUME Init PROVE AnswerInv
  OBVIOUS
<1>1. stdout = <<>> /\ up = {} /\ requests = 0 /\ asked = 0 /\ to = 0 /\ answer.to = 0
  BY DEF Init, MCPInit, NoAnswer
<1> QED
  BY <1>1 DEF AnswerInv, MCPTypes, NothingUnread, AnswerIsOwn

\* Nothing is sent, written or read.
LEMMA QuietPipes ==
    ASSUME AnswerInv, UNCHANGED <<stdout, asked, to, requests, notices>>, up' \subseteq up,
           answer' = answer \/ answer' = NoAnswer
    PROVE  AnswerInv'
<1>1. MCPTypes'
  <2>1. MCPTypes
    BY DEF AnswerInv
  <2> QED
    BY <2>1 DEF MCPTypes
<1>2. NothingUnread'
  <2>1. NothingUnread
    BY DEF AnswerInv
  <2> QED
    BY <2>1 DEF NothingUnread
<1>3. AnswerIsOwn'
  <2>1. AnswerIsOwn
    BY DEF AnswerInv
  <2> QED
    BY <2>1 DEF AnswerIsOwn, NoAnswer
<1> QED
  BY <1>1, <1>2, <1>3 DEF AnswerInv

\* A request is sent while no line is unread, to a process just started too.
LEMMA SendStep ==
    ASSUME AnswerInv, Free, NEW p, NEW method, NEW id, send_request(p, method, id),
           UNCHANGED <<notices, answer>>, stdout' \in Seq(Seq(Nat)),
           up' \subseteq 1..Len(stdout'), p \in 1..Len(stdout'),
           \A q \in 1..Len(stdout') : (q \in 1..Len(stdout) /\ stdout'[q] = stdout[q]) \/ stdout'[q] = <<>>
    PROVE  AnswerInv'
<1>1. requests' = requests + 1 /\ asked' = requests + 1 /\ to' = p
  BY DEF send_request
<1>2. asked = 0 /\ requests \in Nat
  BY DEF Free, AnswerInv, MCPTypes
<1>3. MCPTypes'
  BY <1>1, <1>2 DEF MCPTypes
<1>4. NothingUnread'
  BY <1>2 DEF AnswerInv, NothingUnread
<1> QED
  BY <1>3, <1>4 DEF AnswerInv, AnswerIsOwn

LEMMA RegisterStep ==
    ASSUME AnswerInv, NEW id, register_server(id)
    PROVE  AnswerInv'
<1> DEFINE n == Len(stdout)
<1>1. stdout \in Seq(Seq(Nat)) /\ n \in Nat /\ up \subseteq 1..n
  BY DEF AnswerInv, MCPTypes
<1>2. stdout' = Append(stdout, <<>>) /\ up' = up \cup {n + 1}
  BY DEF register_server
<1>3. <<>> \in Seq(Nat)
  OBVIOUS
<1>4. /\ stdout' \in Seq(Seq(Nat)) /\ Len(stdout') = n + 1
      /\ stdout'[n + 1] = <<>> /\ \A q \in 1..n : stdout'[q] = stdout[q]
  BY <1>1, <1>2, <1>3
<1>5. Free /\ send_request(n + 1, "initialize", id) /\ UNCHANGED <<notices, answer>>
  BY DEF register_server
<1> HIDE DEF n
<1>6. \A q \in 1..Len(stdout') : (q \in 1..n /\ stdout'[q] = stdout[q]) \/ stdout'[q] = <<>>
  BY <1>1, <1>4
<1>7. up' \subseteq 1..Len(stdout') /\ n + 1 \in 1..Len(stdout')
  BY <1>1, <1>2, <1>4
<1> QED
  BY <1>4, <1>5, <1>6, <1>7, SendStep DEF n

LEMMA ReachesStep ==
    ASSUME AnswerInv, Free, NEW id, NEW method, Reaches(id, method),
           UNCHANGED <<stdout, up, notices>>
    PROVE  AnswerInv'
<1>1. CASE process[id] \in up
  <2>1. send_request(process[id], method, id) /\ UNCHANGED answer
    BY <1>1 DEF Reaches
  <2> QED
    BY <1>1, <2>1, SendStep DEF AnswerInv, MCPTypes
<1>2. CASE process[id] \notin up
  BY <1>2, QuietPipes DEF Reaches
<1> QED
  BY <1>1, <1>2

\* The line that is read is the answer to the request that is under way.
LEMMA ReadlineStep ==
    ASSUME AnswerInv, NEW ok \in BOOLEAN, readline(ok)
    PROVE  AnswerInv'
<1>1. /\ stdout \in Seq(Seq(Nat)) /\ to \in 1..Len(stdout) /\ asked \in Nat /\ asked # 0
  BY DEF AnswerInv, MCPTypes, readline, Free
<1>2. /\ stdout[to] # <<>> /\ stdout' = [stdout EXCEPT ![to] = Tail(@)]
      /\ asked' = 0 /\ to' = 0 /\ UNCHANGED <<up, requests, notices>>
      /\ answer' = [to |-> asked, line |-> Head(stdout[to]), error |-> ~ok]
  BY DEF readline, Settled
<1>3. Tail(stdout[to]) \in Seq(Nat)
  BY <1>1, <1>2
<1>4. /\ stdout' \in Seq(Seq(Nat)) /\ Len(stdout') = Len(stdout)
      /\ stdout'[to] = Tail(stdout[to])
      /\ \A q \in 1..Len(stdout) \ {to} : stdout'[q] = stdout[q]
  BY <1>1, <1>2, <1>3
<1>5. MCPTypes'
  BY <1>2, <1>4 DEF AnswerInv, MCPTypes
<1>6. ASSUME notices = {} PROVE stdout[to] = <<asked>>
  BY <1>1, <1>2, <1>6 DEF AnswerInv, NothingUnread
<1>7. ASSUME notices = {} PROVE \A q \in 1..Len(stdout') : stdout'[q] = <<>>
  <2>1. \A q \in 1..Len(stdout) \ {to} : stdout[q] = <<>>
    BY <1>7 DEF AnswerInv, NothingUnread
  <2>2. Tail(stdout[to]) = <<>>
    <3>1. stdout[to] = <<asked>>
      BY <1>6, <1>7
    <3>2. Tail(<<asked>>) = <<>>
      BY <1>1
    <3> QED
      BY <3>1, <3>2
  <2> QED
    BY <1>4, <2>1, <2>2
<1>8. AnswerIsOwn'
  <2>1. answer'.to = asked /\ answer'.line = Head(stdout[to])
    BY <1>2
  <2> QED
    BY <1>2, <1>6, <2>1 DEF AnswerIsOwn
<1> QED
  BY <1>2, <1>5, <1>7, <1>8 DEF AnswerInv, NothingUnread

LEMMA ServersStep ==
    ASSUME AnswerInv, Servers
    PROVE  AnswerInv'
<1>1. stdout \in Seq(Seq(Nat)) /\ up \subseteq 1..Len(stdout)
  BY DEF AnswerInv, MCPTypes
<1>2. CASE server_answers
  <2>1. /\ to \in up /\ asked \notin ToSet(stdout[to])
        /\ stdout' = [stdout EXCEPT ![to] = Append(@, asked)] /\ up' \subseteq up
        /\ UNCHANGED <<asked, to, requests, notices, answer>>
    BY <1>2 DEF server_answers
  <2>2. to \in 1..Len(stdout) /\ asked \in Nat /\ asked # 0
    BY <1>1, <2>1 DEF AnswerInv, MCPTypes
  <2>3. Append(stdout[to], asked) \in Seq(Nat)
    BY <1>1, <2>2
  <2>4. /\ stdout' \in Seq(Seq(Nat)) /\ Len(stdout') = Len(stdout)
        /\ stdout'[to] = Append(stdout[to], asked)
        /\ \A q \in 1..Len(stdout) \ {to} : stdout'[q] = stdout[q]
    BY <1>1, <2>1, <2>2, <2>3
  <2>5. MCPTypes'
    BY <1>1, <2>1, <2>2, <2>4 DEF AnswerInv, MCPTypes
  <2>6. stdout[to] # <<asked>>
    <3>1. SUFFICES ASSUME stdout[to] = <<asked>> PROVE FALSE
      OBVIOUS
    <3>2. DOMAIN stdout[to] = {1} /\ stdout[to][1] = asked
      BY <3>1
    <3> QED
      BY <2>1, <3>2 DEF ToSet
  <2>7. ASSUME notices = {} PROVE stdout'[to] = <<asked>>
    <3>1. stdout[to] = <<>>
      BY <2>2, <2>6, <2>7 DEF AnswerInv, NothingUnread
    <3> QED
      BY <2>4, <3>1
  <2>8. NothingUnread'
    BY <2>1, <2>2, <2>4, <2>7 DEF AnswerInv, NothingUnread
  <2> QED
    BY <2>1, <2>5, <2>8 DEF AnswerInv, AnswerIsOwn
<1>3. CASE \E p \in up : server_notifies(p)
  <2>1. PICK p \in up : server_notifies(p)
    BY <1>3
  <2>2. /\ stdout' = [stdout EXCEPT ![p] = Append(@, 0)] /\ notices' # {}
        /\ UNCHANGED <<up, asked, to, requests, answer>>
    BY <2>1 DEF server_notifies
  <2>3. Append(stdout[p], 0) \in Seq(Nat)
    BY <1>1
  <2>4. stdout' \in Seq(Seq(Nat)) /\ Len(stdout') = Len(stdout)
    BY <1>1, <2>2, <2>3
  <2>5. MCPTypes'
    BY <2>2, <2>4 DEF AnswerInv, MCPTypes
  <2> QED
    BY <2>2, <2>5 DEF AnswerInv, NothingUnread, AnswerIsOwn
<1>4. CASE \E p \in up : server_stops(p)
  BY <1>4, QuietPipes DEF server_stops
<1> QED
  BY <1>2, <1>3, <1>4 DEF Servers

LEMMA NextKeepsAnswerInv == AnswerInv /\ [Next]_vars => AnswerInv'
<1> SUFFICES ASSUME AnswerInv, [Next]_vars PROVE AnswerInv'
  OBVIOUS
<1>1. ASSUME UNCHANGED mcpVars PROVE AnswerInv'
  BY <1>1, QuietPipes DEF mcpVars
<1>2. ASSUME NEW t \in MCPTool, _execute_mcp_call(t) PROVE AnswerInv'
  <2>1. Free /\ UNCHANGED <<up, stdout, notices>>
    BY <1>2 DEF _execute_mcp_call, call_tool
  <2>2. \/ answer' = NoAnswer /\ UNCHANGED <<asked, to, requests>>
        \/ \E id : Reaches(id, "call")
    BY <1>2 DEF _execute_mcp_call, call_tool
  <2>3. CASE answer' = NoAnswer /\ UNCHANGED <<asked, to, requests>>
    BY <2>1, <2>3, QuietPipes
  <2>4. CASE \E id : Reaches(id, "call")
    BY <2>1, <2>4, ReachesStep
  <2> QED
    BY <2>2, <2>3, <2>4
<1>3. ASSUME list_next PROVE AnswerInv'
  <2>1. CASE fetch_tools(Head(call.todo), FALSE)
    BY <2>1, ReachesStep DEF fetch_tools
  <2> QED
    BY <1>1, <1>3, <2>1 DEF list_next
<1>4. ASSUME mcp_answered PROVE AnswerInv'
  <2>1. CASE \E ok \in BOOLEAN : readline(ok)
    BY <2>1, ReadlineStep
  <2>2. CASE readline_empty
    <3>1. /\ answer'.to = 0 /\ asked' = 0 /\ to' = 0 /\ UNCHANGED <<up, stdout, requests, notices>>
          /\ stdout[to] = <<>>
      BY <2>2 DEF readline_empty, Settled, NoAnswer
    <3> QED
      BY <3>1 DEF AnswerInv, MCPTypes, NothingUnread, AnswerIsOwn
  <2> QED
    BY <1>4, <2>1, <2>2 DEF mcp_answered
<1>5. ASSUME NEW id \in Server, register_mcp_server(id) PROVE AnswerInv'
  BY <1>5, RegisterStep DEF register_mcp_server
<1>6. ASSUME close PROVE AnswerInv'
  <2>1. up' \subseteq up /\ UNCHANGED <<stdout, asked, to, requests, notices, answer>>
    BY <1>6 DEF close, close_all_servers
  <2> QED
    BY <2>1, QuietPipes
<1>7. ASSUME Servers PROVE AnswerInv'
  BY <1>7, ServersStep
<1>8. \/ UNCHANGED mcpVars
      \/ \E t \in MCPTool : _execute_mcp_call(t)
      \/ list_next \/ mcp_answered \/ \E id \in Server : register_mcp_server(id)
      \/ close \/ Servers
  BY DEF Next, vars, execute_call_refused, execute_file, execute_memory, _execute_run_command,
     run_returns, run_raises, _subprocess_fallback, subprocess_ends, _execute_mcp_list_tools,
     mcp_returns, __init__
<1> QED
  BY <1>1, <1>2, <1>3, <1>4, <1>5, <1>6, <1>7, <1>8

\* As long as no server writes a line that nobody asked for, the line the client
\* takes for the answer to a request is the server's answer to that request
\* (MCPStdioTransport.send_request compares no ids), for any servers and tools.
THEOREM AnswersAreOwn == Spec => []AnswerIsOwn
<1>1. AnswerInv => AnswerIsOwn
  BY DEF AnswerInv
<1> QED
  BY <1>1, AnswerInvInit, NextKeepsAnswerInv, PTL DEF Spec
=============================================================================
