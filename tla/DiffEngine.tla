----------------------------- MODULE DiffEngine -----------------------------
(****************************************************************************)
(* The diff engine (src/core/diff_engine.py): diffs made from the workspace *)
(* as it is, validated against it and applied through the file guard, and   *)
(* the stack from which they are undone.  Hunks are abstracted to the       *)
(* content they produce.                                                    *)
(****************************************************************************)
EXTENDS FileGuard, Sequences, SequencesExt

VARIABLES
    applied,    \* _applied_diffs
    base,       \* history: the workspace the engine began with
    touched     \* history: files that something else changed since, that a
                \* failed call left in between, or that an ADD overwrote

diffVars == <<applied, base, touched>>

----------------------------------------------------------------------------
DiffType == {"ADD", "MODIFY", "DELETE"}

\* A FileDiff; `base` is the content original_hash was taken of, and Absent
\* when the diff carries no hash.
Diff == [path : Path, type : DiffType, new : Content, base : FileState]

\* create_diff.
create_diff(p, c) ==
    [path |-> p, type |-> IF files[p] = Absent THEN "ADD" ELSE "MODIFY",
     new |-> c, base |-> read(p)]

\* create_deletion_diff; the read it begins with raises when there is no file.
create_deletion_diff(p) ==
    [path |-> p, type |-> "DELETE", new |-> Torn, base |-> read(p)]

\* validate_diff, without the limits on hunks and lines.
IsValid(d) ==
    /\ d.type # "ADD" => files[d.path] # Absent
    /\ d.type = "MODIFY" => d.base \in {Absent, read(d.path)}

\* Faulty variant: the content the diff was made of is kept.
OriginalOf_Made(d) == IF d.type = "ADD" THEN Absent ELSE IF d.base = Absent THEN Torn ELSE d.base

\* What is kept to undo the diff: the text that was read after the backup, or
\* an empty string, which only the undoing of an ADD does not look at.
OriginalOf(d) == IF d.type = "ADD" THEN Absent ELSE read(d.path)

\* An entry of the stack; `before` is history.
Entry(d) == [diff |-> d, original |-> OriginalOf(d), before |-> files[d.path]]

BacksUp(d) ==
    backups' \in BackupsAfter(IF d.type = "ADD" THEN {} ELSE {d.path}) /\ UNCHANGED second

\* Faulty variant: the file is not looked at again before it is overwritten.
apply_Unvalidated(d) ==
    /\ IF d.type = "DELETE" THEN delete(d.path) ELSE write(d.path, d.new)
    /\ BacksUp(d)
    /\ applied' = Append(applied, Entry(d))
    /\ touched' = IF d.type = "ADD" /\ files[d.path] # Absent
                  THEN touched \cup {d.path} ELSE touched
    /\ UNCHANGED base

\* apply, with success.
apply(d) ==
    /\ IsValid(d)
    /\ IF d.type = "DELETE" THEN delete(d.path) ELSE write(d.path, d.new)
    /\ BacksUp(d)
    /\ applied' = Append(applied, Entry(d))
    /\ touched' = IF d.type = "ADD" /\ files[d.path] # Absent
                  THEN touched \cup {d.path} ELSE touched
    /\ UNCHANGED base

\* apply, validation passed, returning a DiffResult without success: some call
\* of the guard was refused, or the write went wrong.
apply_Fails(d) ==
    /\ IsValid(d)
    /\ \/ UNCHANGED <<guardVars, touched>>
       \/ BacksUp(d) /\ UNCHANGED <<files, trackVars, touched>>
       \/ /\ BacksUp(d) /\ d.type # "DELETE" /\ write_Torn(d.path)
          /\ touched' = touched \cup {d.path}
    /\ UNCHANGED <<applied, base>>

\* apply raises: the diff is not valid or a call the validation makes is
\* refused.
apply_Raises == UNCHANGED <<guardVars, diffVars>>

\* Faulty variant: the entry stays on the stack.
rollback_last_Keeps ==
    LET entry == Last(applied) IN
    /\ applied # <<>>
    /\ IF entry.diff.type = "ADD" THEN delete(entry.diff.path)
       ELSE write(entry.diff.path, entry.original)
    /\ UNCHANGED <<backups, second, diffVars>>

\* rollback_last.
rollback_last ==
    LET entry == Last(applied) IN
    /\ applied # <<>>
    /\ IF entry.diff.type = "ADD" THEN delete(entry.diff.path)
       ELSE write(entry.diff.path, entry.original)
    /\ applied' = Front(applied)
    /\ UNCHANGED <<backups, second, base, touched>>

\* rollback_last, returning False: the entry is gone all the same.
rollback_last_Fails ==
    /\ applied # <<>>
    /\ applied' = Front(applied)
    /\ \/ UNCHANGED <<files, trackVars>>
       \/ Last(applied).diff.type # "ADD" /\ write_Torn(Last(applied).diff.path)
    /\ touched' = touched \cup {Last(applied).diff.path}
    /\ UNCHANGED <<backups, second, base>>

----------------------------------------------------------------------------
\* The stack: an entry that will be written back holds a content to write.
AppliedTypeOK ==
    /\ \A i \in DOMAIN applied :
        /\ applied[i].diff \in Diff
        /\ applied[i].before \in FileState
        /\ IF applied[i].diff.type = "ADD" THEN applied[i].original = Absent
                                          ELSE applied[i].original \in Content
    /\ base \in [Path -> FileState] /\ touched \subseteq Path
=============================================================================
