----------------------------- MODULE FileGuard -----------------------------
(****************************************************************************)
(* The file guard of a run (src/core/file_guard.py), through which the diff *)
(* engine and the rollback manager reach the workspace: what it does to the *)
(* files and what it remembers of it.  Any call may also be refused, by the *)
(* limit of operations per minute, the path policy, a size limit or the     *)
(* operating system; its callers choose that freely, and only the file      *)
(* limit is kept, because a call cannot succeed beyond it.  copy and move   *)
(* have no caller and are left out.                                         *)
(****************************************************************************)
EXTENDS Integers, FiniteSets

CONSTANTS
    Path,
    Content,    \* what a file may contain
    Large,      \* the texts too large for a snapshot to hold
    Torn,       \* what a write that failed half-way leaves behind
    AsText,     \* Content -> what is read of it: every newline is read as one
    Absent,     \* no file
    MaxFiles,   \* max_files_per_run
    Stem        \* Path -> the file name without its directory

ASSUME FilesAssumption ==
    /\ Large \subseteq Content
    /\ Torn \in Content \ Large /\ Absent \notin Content
    /\ AsText \in [Content -> Content]
    /\ \A c \in Content : AsText[AsText[c]] = AsText[c]
    /\ IsFiniteSet(Path) /\ Path # {}
    /\ MaxFiles \in Nat
    /\ DOMAIN Stem = Path

VARIABLES
    files,      \* the workspace
    modified,   \* _state.files_modified
    created,    \* _state.files_created
    deleted,    \* _state.files_deleted
    backups,    \* .backups: the name of a backup -> its content
    second      \* the time stamp create_backup puts into the name

trackVars == <<modified, created, deleted>>
guardVars == <<files, trackVars, backups, second>>

----------------------------------------------------------------------------
FileState == Content \cup {Absent}

GuardInit ==
    /\ files \in [Path -> FileState]
    /\ modified = {} /\ created = {} /\ deleted = {}
    /\ backups = <<>> /\ second = 0

\* get_modified_files: a file that was only deleted is not among them.
get_modified_files == modified \cup created

\* The files the file limit counts.
Touched == get_modified_files \cup deleted

\* _check_file_limits: at the limit even a file that is counted already is
\* refused.
BelowFileLimit == Cardinality(Touched) < MaxFiles

\* The text of a file, Absent for none.
Text(f) == IF f = Absent THEN Absent ELSE AsText[f]

\* read decodes and converts newlines; write puts down what it is given, so a
\* file that is read and written back is the same text only.
read(p) == Text(files[p])

write(p, c) ==
    /\ BelowFileLimit
    /\ files' = [files EXCEPT ![p] = c]
    /\ IF files[p] = Absent
       THEN created' = created \cup {p} /\ UNCHANGED modified
       ELSE modified' = modified \cup {p} /\ UNCHANGED created
    /\ UNCHANGED deleted

\* write_text fails after it truncated the file: nothing is remembered.
write_Torn(p) ==
    /\ BelowFileLimit
    /\ files' = [files EXCEPT ![p] = Torn]
    /\ UNCHANGED trackVars

delete(p) ==
    /\ files[p] # Absent
    /\ files' = [files EXCEPT ![p] = Absent]
    /\ deleted' = deleted \cup {p}
    /\ UNCHANGED <<modified, created>>

\* The name create_backup gives: two files of one name in two directories get
\* the same one within a second.
BackupName(p) == <<Stem[p], second>>

\* The backup directory after the files of S were backed up, in any order.
BackupsAfter(S) ==
    LET names == {BackupName(p) : p \in S} IN
    {[name \in DOMAIN backups \cup names |->
        IF name \in names THEN files[last[name]] ELSE backups[name]] :
     last \in {f \in [names -> S] : \A name \in names : BackupName(f[name]) = name}}

\* The next second of the clock.
SecondPasses ==
    /\ second' = second + 1
    /\ UNCHANGED <<files, trackVars, backups>>

----------------------------------------------------------------------------
\* The workspace and what the guard remembers of it.
GuardTypeOK ==
    /\ files \in [Path -> FileState]
    /\ modified \subseteq Path /\ created \subseteq Path /\ deleted \subseteq Path
    /\ \A name \in DOMAIN backups : backups[name] \in Content
    /\ second \in Nat
=============================================================================
