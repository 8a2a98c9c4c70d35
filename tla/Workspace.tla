----------------------------- MODULE Workspace -----------------------------
(****************************************************************************)
(* A run's work on the files of the workspace: the executor applies the     *)
(* changes of an agent one by one (_apply_changes), the diff engine applies *)
(* batches and undoes them (apply_multiple, rollback_last), the executor    *)
(* takes checkpoints between and rolls back to them.  One thread does all   *)
(* of this; commands and the user edit files next to it at any time.        *)
(****************************************************************************)
EXTENDS DiffEngine, Rollback

CONSTANTS
    Kinds,          \* what a change of an agent may ask for
    MaxBatch,       \* bound: the changes, or diffs, of one batch
    MaxBatches,     \* bound: batches in a behaviour
    MaxMade,        \* bound: checkpoints in a behaviour
    MaxEdits,       \* bound: edits from outside in a behaviour
    MaxSeconds      \* bound: of the clock

ASSUME WorkspaceAssumption ==
    /\ Kinds \subseteq {"delete", "content", "create_hunks", "modify_hunks"}
    /\ {MaxBatch, MaxBatches, MaxMade, MaxEdits, MaxSeconds} \subseteq Nat

VARIABLES
    pc,         \* where the executor is
    todo,       \* apply_multiple: the diffs not applied yet
    count,      \* the diffs of the batch applied, and not undone yet
    batch,      \* history: the workspace when the batch began
    clean,      \* history: since the batch or rollback began nothing was edited
                \* from outside, no write was torn and no undoing failed
    batches,    \* history, as `made` and `edits`: how many there were
    made,
    edits

controlVars == <<todo, count, batch, clean>>
budgetVars == <<batches, made, edits>>
vars == <<guardVars, diffVars, rollbackVars, pc, controlVars, budgetVars>>

----------------------------------------------------------------------------
NoBatch == [p \in Path |-> Absent]

Init ==
    /\ GuardInit /\ RollbackInit
    /\ applied = <<>> /\ base = files /\ touched = {}
    /\ pc = "idle" /\ todo = <<>> /\ count = 0 /\ batch = NoBatch /\ clean = TRUE
    /\ batches = 0 /\ made = 0 /\ edits = 0

\* A command an agent runs, or the user, changes a file behind the guard.
Edit(p, c) ==
    /\ edits < MaxEdits
    /\ files[p] # c
    /\ files' = [files EXCEPT ![p] = c]
    /\ clean' = FALSE /\ touched' = touched \cup {p}
    /\ edits' = edits + 1
    /\ UNCHANGED <<trackVars, backups, second, applied, base, rollbackVars, pc, todo, count,
                   batch, batches, made>>

\* The clock.
Tick ==
    /\ second < MaxSeconds
    /\ SecondPasses
    /\ UNCHANGED <<diffVars, rollbackVars, pc, controlVars, budgetVars>>

----------------------------------------------------------------------------
\* _apply_changes.

\* The diff made for a change, when it can be made.
DiffOf(change) ==
    CASE change.kind = "delete"       -> create_deletion_diff(change.path)
      [] change.kind = "content"      -> create_diff(change.path, change.new)
      [] change.kind = "create_hunks" -> [path |-> change.path, type |-> "ADD",
                                          new |-> change.new, base |-> Absent]
      [] change.kind = "modify_hunks" -> [path |-> change.path, type |-> "MODIFY",
                                          new |-> change.new, base |-> Absent]

Change == [path : Path, kind : Kinds, new : Content]

CanMakeDiff(change) == change.kind = "delete" => files[change.path] # Absent

BeginBatch(to) ==
    /\ pc = "idle"
    /\ batches < MaxBatches
    /\ pc' = to
    /\ batch' = files /\ clean' = TRUE /\ count' = 0
    /\ batches' = batches + 1
    /\ UNCHANGED <<guardVars, diffVars, rollbackVars, made, edits>>

\* The changes pass the limits on files and lines; each is chosen when its
\* turn comes.
apply_changes == BeginBatch("changes") /\ UNCHANGED todo

ApplyChange(change) ==
    /\ pc = "changes"
    /\ count < MaxBatch
    /\ CanMakeDiff(change)
    /\ apply(DiffOf(change))
    /\ count' = count + 1
    /\ UNCHANGED <<rollbackVars, pc, todo, batch, clean, budgetVars>>

\* The diff is not applied, for any reason: the loop returns False.
ApplyChangeFails(change) ==
    /\ pc = "changes"
    /\ count < MaxBatch
    /\ \/ apply_Raises /\ UNCHANGED clean
       \/ CanMakeDiff(change) /\ apply_Fails(DiffOf(change)) /\ clean' = (clean /\ files' = files)
    /\ pc' = "changes_failed"
    /\ UNCHANGED <<rollbackVars, todo, count, batch, budgetVars>>

----------------------------------------------------------------------------
\* apply_multiple.

\* The diffs that can be made of the workspace as it is.
MakeableDiffs ==
    {create_diff(p, c) : p \in Path, c \in Content \ {Torn}} \cup
    {create_deletion_diff(p) : p \in {q \in Path : files[q] # Absent}}

\* The caller has made the diffs ahead, all of the same workspace.
apply_multiple ==
    /\ BeginBatch("multiple")
    /\ todo' \in UNION {[1..n -> MakeableDiffs] : n \in 1..MaxBatch}

ApplyDiff ==
    /\ pc = "multiple" /\ todo # <<>>
    /\ apply(Head(todo))
    /\ todo' = Tail(todo) /\ count' = count + 1
    /\ UNCHANGED <<rollbackVars, pc, batch, clean, budgetVars>>

\* A DiffResult without success: those before it are undone.
ApplyDiffFails ==
    /\ pc = "multiple" /\ todo # <<>>
    /\ apply_Fails(Head(todo))
    /\ clean' = (clean /\ files' = files)
    /\ pc' = "undo" /\ todo' = <<>>
    /\ UNCHANGED <<rollbackVars, count, batch, budgetVars>>

\* The validation raises: the exception leaves apply_multiple.
ApplyDiffRaises ==
    /\ pc = "multiple" /\ todo # <<>>
    /\ apply_Raises
    /\ pc' = "multiple_raised" /\ todo' = <<>>
    /\ UNCHANGED <<rollbackVars, count, batch, clean, budgetVars>>

\* Faulty variant: the last of the applied diffs is left out.
UndoDiff_SkipsOne ==
    /\ pc = "undo" /\ count > 0
    /\ IF count = 1 THEN UNCHANGED <<guardVars, diffVars>> ELSE rollback_last
    /\ count' = count - 1
    /\ UNCHANGED <<rollbackVars, pc, todo, batch, clean, budgetVars>>

\* One rollback_last of the undoing.
UndoDiff ==
    /\ pc = "undo" /\ count > 0
    /\ rollback_last
    /\ count' = count - 1
    /\ UNCHANGED <<rollbackVars, pc, todo, batch, clean, budgetVars>>

\* It returns False, which nobody looks at.
UndoDiffFails ==
    /\ pc = "undo" /\ count > 0
    /\ rollback_last_Fails
    /\ count' = count - 1 /\ clean' = FALSE
    /\ UNCHANGED <<rollbackVars, pc, todo, batch, budgetVars>>

\* The end of a batch of either kind.
EndBatch ==
    /\ \/ pc \in {"changes", "changes_failed", "multiple_raised"}
       \/ pc = "multiple" /\ todo = <<>>
       \/ pc = "undo" /\ count = 0
    /\ pc' = "idle" /\ count' = 0 /\ batch' = NoBatch /\ clean' = TRUE
    /\ UNCHANGED <<guardVars, diffVars, rollbackVars, todo, budgetVars>>

\* rollback_last on its own; rollback_all repeats it until it fails.
UndoLast ==
    /\ pc = "idle"
    /\ rollback_last \/ rollback_last_Fails
    /\ UNCHANGED <<rollbackVars, pc, controlVars, budgetVars>>

----------------------------------------------------------------------------
\* _checkpoint: of the files the guard names, some of which cannot be read.
Checkpoint ==
    /\ pc = "idle"
    /\ made < MaxMade
    /\ \E refused \in SUBSET get_modified_files :
          \/ create_checkpoint(get_modified_files, refused)
          \/ create_checkpoint_Raises(get_modified_files, refused)
    /\ made' = made + 1
    /\ UNCHANGED <<diffVars, pc, controlVars, batches, edits>>

\* rollback_to_checkpoint, for the files: to any checkpoint there is.
RollbackTo(id) ==
    /\ pc = "idle"
    /\ rollback_to(id)
    /\ pc' = "restore" /\ clean' = TRUE
    /\ UNCHANGED <<diffVars, todo, count, batch, budgetVars>>

RestoreFile(p) ==
    /\ pc = "restore" /\ p \in left
    /\ restore_file(p)
    /\ touched' = touched \cup {p}
    /\ UNCHANGED <<applied, base, pc, controlVars, budgetVars>>

\* The RollbackError is not caught.
RestoreFileFails(p) ==
    /\ pc = "restore" /\ p \in left
    /\ restore_file_Fails(p)
    /\ pc' = "idle" /\ clean' = TRUE
    /\ touched' = touched \cup {p}
    /\ UNCHANGED <<applied, base, todo, count, batch, budgetVars>>

FinishRollback ==
    /\ pc = "restore"
    /\ finish_rollback
    /\ pc' = "idle" /\ clean' = TRUE
    /\ UNCHANGED <<diffVars, todo, count, batch, budgetVars>>

----------------------------------------------------------------------------
Next ==
    \/ \E p \in Path, c \in FileState : Edit(p, c)
    \/ Tick
    \/ apply_changes
    \/ \E change \in Change : ApplyChange(change) \/ ApplyChangeFails(change)
    \/ apply_multiple
    \/ ApplyDiff \/ ApplyDiffFails \/ ApplyDiffRaises
    \/ UndoDiff \/ UndoDiffFails
    \/ EndBatch
    \/ UndoLast
    \/ Checkpoint
    \/ \E id \in Gettable : RollbackTo(id)
    \/ \E p \in Path : RestoreFile(p) \/ RestoreFileFails(p)
    \/ FinishRollback

Spec == Init /\ [][Next]_vars

----------------------------------------------------------------------------
TypeOK ==
    /\ GuardTypeOK /\ AppliedTypeOK /\ RollbackTypeOK
    /\ pc \in {"idle", "changes", "changes_failed", "multiple", "multiple_raised", "undo",
               "restore"}
    /\ pc = "restore" <=> target # NoCheckpoint
    /\ \A i \in DOMAIN todo : todo[i] \in Diff
    /\ count \in Nat /\ (pc = "undo" => count <= Len(applied))
    /\ batch \in [Path -> FileState] /\ clean \in BOOLEAN
    /\ {batches, made, edits} \subseteq Nat

\* When a rollback has gone through its snapshots, each file it has one of
\* holds the text it held when the checkpoint was taken, whatever was done to it
\* since, by the guard or behind it, unless the snapshot could not be taken
\* (`_snapshot_file`, `rollback_to`).
RollbackRestoresTracked ==
    pc = "restore" /\ left = {} /\ clean =>
        LET cp == get_checkpoint(target) IN
        \A p \in DOMAIN cp.snapshots \ cp.refused : Text(files[p]) = Text(cp.truth[p])

\* When `apply_multiple` has undone what it applied, every file holds the text
\* it held before, unless the failing write or an undoing went wrong itself.
UndoRestoresBatch ==
    pc = "undo" /\ count = 0 /\ clean => \A p \in Path : Text(files[p]) = Text(batch[p])

\* The file as a diff left it.
LeftBy(entry) == IF entry.diff.type = "DELETE" THEN Absent ELSE entry.diff.new

\* The entries about a file lead from the text it has back to the one the
\* engine found: the newest left it so, each gives back what the one before it
\* left, and the oldest what was there first.
Retraces(p) ==
    LET own == {i \in DOMAIN applied : applied[i].diff.path = p} IN
    /\ own = {} => Text(files[p]) = Text(base[p])
    /\ \A i \in own :
        /\ (\A j \in own : i <= j) => applied[i].original = Text(base[p])
        /\ (\A j \in own : j <= i) => Text(files[p]) = Text(LeftBy(applied[i]))
        /\ \A j \in own : i < j /\ (\A k \in own : k <= i \/ j <= k) =>
            applied[j].original = Text(LeftBy(applied[i]))

\* Undoing the stack of applied diffs takes every file back through the texts
\* it had (`apply`, `rollback_last`): batches that failed, undoings and
\* checkpoints between change nothing of that.  A file that something else
\* wrote to, or an ADD found there, is another matter.
UndoRetraces == \A p \in Path \ touched : Retraces(p)

----------------------------------------------------------------------------
\* What the documents and comments say beyond that.

\* "Any checkpoint can be used to restore the system to that exact state".
RollbackRestoresState ==
    pc = "restore" /\ left = {} /\ clean =>
        \A p \in Path : Text(files[p]) = Text(get_checkpoint(target).truth[p])

\* "All operations can be rolled back to any checkpoint": rolling back does
\* not remove a file that was there when the checkpoint was taken.
KeepsExistingFiles ==
    [][pc = "restore" /\ edits' = edits =>
         \A p \in Path :
            get_checkpoint(target).truth[p] # Absent /\ files[p] # Absent => files'[p] # Absent]_vars

\* "Atomic application with rollback": changes that fail leave nothing behind.
ChangesApplyAtomically ==
    pc = "changes_failed" /\ clean => files = batch

\* "If True, rollback all on any failure".
MultipleIsAtomic ==
    pc = "multiple_raised" /\ clean => files = batch

\* "All edits are diff-based to ensure reversibility".
EditsAreReversible ==
    [][applied # <<>> /\ rollback_last =>
         LET entry == Last(applied)
             p     == entry.diff.path
         IN  files[p] = LeftBy(entry) => Text(files'[p]) = Text(entry.before)]_vars

\* "Maximum files that can be modified in a single run": the limit leaves the
\* files that are counted already to be restored.
LimitSparesRollback ==
    pc = "restore" /\ Cardinality(Touched) <= MaxFiles =>
        \A p \in left : get_checkpoint(target).snapshots[p].kind = "inline" /\ p \in Touched => BelowFileLimit
=============================================================================
