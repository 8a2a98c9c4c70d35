------------------------------ MODULE PTYShell ------------------------------
(****************************************************************************)
(* The shell that lives as long as a run (src/core/pty_shell.py): a bash    *)
(* that is sent one line per command, and the terminal it writes to.  Each  *)
(* command is followed by an echo of a sentinel of its own, and the caller  *)
(* waits for that.  What it does not wait for stays where it is: the line   *)
(* in the input, the command in bash, the output in the terminal.  A        *)
(* command that runs on reads the next line as its input; one that has      *)
(* ended may have left a process behind, or the echo of the terminal on.  A *)
(* command is the number of the call that sent it.                          *)
(****************************************************************************)
EXTENDS Integers, Sequences, FiniteSets, SequencesExt

CONSTANT PexpectAvailable   \* is the library installed that drives the terminal?

ASSUME PexpectAssumption == PexpectAvailable \in BOOLEAN

VARIABLES
    shell,      \* the session of the run: "none", "alive" or "dead"
    input,      \* lines that bash has not read
    busy,       \* the command it runs, or 0
    output,     \* what the terminal holds: <<"out", "late" or "sentinel", command>>
    echo,       \* does the terminal echo what is sent?  (run turns that off first)
    behind,     \* commands that left a process which has yet to print something
    runs,       \* history: command -> how often it was started
    mirrored,   \* history: commands whose line was printed, sentinel and all
    left        \* history: shells that nobody can reach any more

shellVars == <<shell, input, busy, output, echo, behind, runs, mirrored, left>>

----------------------------------------------------------------------------
ShellInit ==
    /\ shell = "none" /\ input = <<>> /\ busy = 0 /\ output = <<>>
    /\ echo = FALSE /\ behind = {}
    /\ runs = <<>> /\ mirrored = {} /\ left = 0

\* get_or_create: a session that is known is returned, dead or alive; a new one
\* is started, which may fail (then no session is entered).
get_or_create ==
    IF shell # "none" THEN shell' = shell
    ELSE shell' \in (IF PexpectAvailable THEN {"alive", "none"} ELSE {"none"})

Sentinel(k) == <<"sentinel", k>>

\* run, first half: the line is sent, and the sentinel with it.
sendline(k) ==
    IF shell' = "alive"
    THEN /\ input' = Append(input, k)
         /\ IF echo THEN output' = Append(output, Sentinel(k)) /\ mirrored' = mirrored \cup {k}
                    ELSE UNCHANGED <<output, mirrored>>
    ELSE UNCHANGED <<input, output, mirrored>>

\* Faulty variant: one sentinel serves all commands.
Position_AnySentinel(k) == SelectInSeq(output, LAMBDA o : o[1] = "sentinel")

\* Where the sentinel of the command is in the output, or 0.
Position(k) == SelectInSeq(output, LAMBDA o : o = Sentinel(k))

\* run, second half: everything before the sentinel is taken for the output.
sentinel_found(k, taken) ==
    /\ Position(k) # 0
    /\ taken = SubSeq(output, 1, Position(k) - 1)
    /\ output' = SubSeq(output, Position(k) + 1, Len(output))
    /\ UNCHANGED <<shell, input, busy, echo, behind, runs, mirrored, left>>

\* expect gives up, and changes nothing: TIMEOUT leaves the output in place.
sentinel_timeout(k) == Position(k) = 0 /\ shell = "alive" /\ UNCHANGED shellVars

\* EOF empties the terminal.
sentinel_eof(k) ==
    /\ Position(k) = 0 /\ shell # "alive"
    /\ output' = <<>>
    /\ UNCHANGED <<shell, input, busy, echo, behind, runs, mirrored, left>>

NoShell ==
    /\ shell' = "none" /\ input' = <<>> /\ busy' = 0 /\ output' = <<>>
    /\ echo' = FALSE /\ behind' = {}

\* close, and close_all: bash is hung up, whatever it is at.
close_all == NoShell /\ UNCHANGED <<runs, mirrored, left>>

\* A manager of its own for the next run; the last one's shell may be alive yet.
new_manager ==
    /\ NoShell
    /\ left' = IF shell = "alive" THEN left + 1 ELSE left
    /\ UNCHANGED <<runs, mirrored>>

----------------------------------------------------------------------------
(* bash, and what runs in it.  Started(k) is used by the fallback as well.  *)

Started(k) == runs' = [runs EXCEPT ![k] = @ + 1]

\* A line that is no command at all has an error message and no sentinel; one
\* that is not complete counts as a command that reads the next.
bash_reads(ok) ==
    /\ shell = "alive" /\ busy = 0 /\ input # <<>>
    /\ input' = Tail(input)
    /\ output' = Append(output, <<"out", Head(input)>>)
    /\ IF ok THEN busy' = Head(input) /\ Started(Head(input)) ELSE UNCHANGED <<busy, runs>>
    /\ UNCHANGED <<shell, echo, behind, mirrored, left>>

\* A command that runs takes the next line for its input, and may print it.
command_reads(prints) ==
    /\ shell = "alive" /\ busy # 0 /\ input # <<>>
    /\ input' = Tail(input)
    /\ IF prints THEN /\ output' = Append(Append(output, <<"out", busy>>), Sentinel(Head(input)))
                      /\ mirrored' = mirrored \cup {Head(input)}
                 ELSE UNCHANGED <<output, mirrored>>
    /\ UNCHANGED <<shell, busy, echo, behind, runs, left>>

\* It may set the terminal, as stty does.
command_sets_echo ==
    /\ busy # 0 /\ echo' = ~echo
    /\ UNCHANGED <<shell, input, busy, output, behind, runs, mirrored, left>>

\* The end of the command; some end the shell, some leave a process behind.
bash_ends(exits) ==
    /\ busy # 0
    /\ busy' = 0
    /\ IF exits THEN shell' = "dead" /\ input' = <<>> /\ UNCHANGED output
                ELSE output' = Append(output, Sentinel(busy)) /\ UNCHANGED <<shell, input>>
    /\ behind' \in {behind, behind \cup {busy}}
    /\ UNCHANGED <<echo, runs, mirrored, left>>

\* A process left behind prints at any time.
process_prints(k) ==
    /\ k \in behind
    /\ output' = Append(output, <<"late", k>>)
    /\ behind' = behind \ {k}
    /\ UNCHANGED <<shell, input, busy, echo, runs, mirrored, left>>

Bash ==
    \/ \E flag \in BOOLEAN : bash_reads(flag) \/ command_reads(flag) \/ bash_ends(flag)
    \/ command_sets_echo \/ \E k \in behind : process_prints(k)
=============================================================================
