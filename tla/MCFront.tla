------------------------------ MODULE MCFront ------------------------------
(****************************************************************************)
(* The two ways to talk to the program, for TLC.  They are programs of      *)
(* their own, so a behaviour is about one of them.                          *)
(****************************************************************************)
EXTENDS Terminal, Repl

VARIABLE front      \* "terminal" or "repl"

vars == <<sessionVars, terminalVars, replVars, front>>

Init ==
    /\ TerminalInit /\ file = [p \in Path |-> "original"] /\ ReplInit
    /\ front \in {"terminal", "repl"}

Next ==
    \/ /\ front = "terminal" /\ TerminalNext /\ UNCHANGED <<replVars, front>>
       /\ tasks' + faults' <= MaxTasks      \* bound: a fault takes a task's place
    \/ front = "repl" /\ ReplNext /\ UNCHANGED <<sessionVars, terminalVars, front>>

Spec == Init /\ [][Next]_vars

----------------------------------------------------------------------------
\* Two changes to one file.
Changes ==
    {[id |-> "c1", path |-> "f", delete |-> FALSE], [id |-> "c2", path |-> "f", delete |-> TRUE]}
=============================================================================
