------------------------------ MODULE Rollback ------------------------------
(****************************************************************************)
(* The rollback manager of a run (src/orchestration/rollback.py): numbered  *)
(* checkpoints in memory and on disk, each with snapshots of the files the  *)
(* guard has changed so far, and the restoring of those files one by one.   *)
(* What is on disk is read only when a checkpoint is not in memory.         *)
(****************************************************************************)
EXTENDS FileGuard, Sequences, SequencesExt

CONSTANTS
    MaxCheckpoints,     \* max_checkpoints
    NoCheckpoint        \* no rollback in progress

ASSUME CheckpointsAssumption ==
    /\ MaxCheckpoints \in Nat \ {0}
    /\ NoCheckpoint \notin Nat

VARIABLES
    order,      \* _checkpoint_order
    memory,     \* _checkpoints
    disk,       \* the checkpoint directory: id -> what can be read of its file,
                \* which is nothing when it was written in part
    pruned,     \* history: some checkpoint was pruned
    stuck,      \* history: ids whose file could not be unlinked
    target,     \* rollback_to: the checkpoint being restored
    left        \* rollback_to: the paths not restored yet

rollbackVars == <<order, memory, disk, pruned, stuck, target, left>>

----------------------------------------------------------------------------
\* A snapshot: the file did not exist, or its content, or the name of a backup.
SnapshotOf(p) ==
    IF files[p] = Absent THEN [kind |-> "absent"]
    ELSE IF read(p) \in Large THEN [kind |-> "backup", name |-> BackupName(p)]
    ELSE [kind |-> "inline", content |-> read(p)]

RollbackInit ==
    /\ order = <<>> /\ memory = <<>> /\ disk = <<>> /\ pruned = FALSE /\ stuck = {}
    /\ target = NoCheckpoint /\ left = {}

\* Faulty variant of NextId: the number of the checkpoints, not counting the
\* last one.
NextId_OffByOne == IF order = <<>> THEN 0 ELSE Len(order) - 1

\* Checkpoints are numbered by the length of the order list.
NextId == Len(order)

\* _snapshot_file, for the paths of S: those in `refused` could not be looked
\* at and are recorded as absent.  `truth` and `refused` are history.
NewCheckpoint(S, refused) ==
    [snapshots |-> [p \in S |-> IF p \in refused THEN [kind |-> "absent"] ELSE SnapshotOf(p)],
     truth |-> files, refused |-> refused]

\* A map of ids with `value` stored under `id`, and one without the ids of S.
Store(map, id, value) ==
    [i \in DOMAIN map \cup {id} |-> IF i = id THEN value ELSE map[i]]
Without(map, S) == Restrict(map, DOMAIN map \ S)

\* The first n ids of a list.
First(ids, n) == {ids[i] : i \in 1..n}

\* What snapshots of the files of S back up.
Snapshots(S, refused) ==
    /\ backups' \in BackupsAfter({p \in S \ refused : read(p) \in Large})
    /\ UNCHANGED <<files, trackVars, second, target, left>>

\* create_checkpoint, which raises when the checkpoint cannot be written: a
\* part of the file may be left on disk and old checkpoints are not cleaned up.
create_checkpoint_Raises(S, refused) ==
    /\ order' = Append(order, NextId)
    /\ memory' = Store(memory, NextId, NewCheckpoint(S, refused))
    /\ disk' \in {disk, Store(disk, NextId, {})}
    /\ Snapshots(S, refused)
    /\ UNCHANGED <<pruned, stuck>>

\* Faulty variant: old checkpoints are forgotten, their files kept.
create_checkpoint_KeepsFiles(S, refused) ==
    LET cp     == NewCheckpoint(S, refused)
        longer == Append(order, NextId)
        excess == IF Len(longer) > MaxCheckpoints THEN Len(longer) - MaxCheckpoints ELSE 0
    IN  /\ order' = SubSeq(longer, excess + 1, Len(longer))
        /\ memory' = Without(Store(memory, NextId, cp), First(longer, excess))
        /\ disk' = Store(disk, NextId, {cp})
        /\ pruned' = (pruned \/ excess > 0)
        /\ Snapshots(S, refused)
        /\ UNCHANGED stuck

\* create_checkpoint, with _cleanup_old_checkpoints: the oldest go one by one,
\* from the list, from memory and from disk.  When the file of the n-th cannot
\* be unlinked it stays, and the exception leaves create_checkpoint.
create_checkpoint(S, refused) ==
    LET cp     == NewCheckpoint(S, refused)
        longer == Append(order, NextId)
        excess == IF Len(longer) > MaxCheckpoints THEN Len(longer) - MaxCheckpoints ELSE 0
        saved  == Store(disk, NextId, {cp})
    IN  \E n \in 0..excess :
        /\ order' = SubSeq(longer, n + 1, Len(longer))
        /\ memory' = Without(Store(memory, NextId, cp), First(longer, n))
        /\ \/ /\ n = excess
              /\ disk' = Without(saved, First(longer, n)) /\ UNCHANGED stuck
           \/ /\ n > 0 /\ longer[n] \in DOMAIN saved \ First(longer, n - 1)
              /\ disk' = Without(saved, First(longer, n - 1))
              /\ stuck' = stuck \cup {longer[n]}
        /\ pruned' = (pruned \/ n > 0)
        /\ Snapshots(S, refused)

\* get_checkpoint: from memory, else from disk.
Gettable == DOMAIN memory \cup {id \in DOMAIN disk : disk[id] # {}}
get_checkpoint(id) == IF id \in DOMAIN memory THEN memory[id] ELSE CHOOSE cp \in disk[id] : TRUE

\* rollback_to, up to the first file.
rollback_to(id) ==
    /\ id \in Gettable
    /\ target' = id
    /\ left' = DOMAIN get_checkpoint(id).snapshots
    /\ UNCHANGED <<guardVars, order, memory, disk, pruned, stuck>>

\* Faulty variant: a file that did not exist is left alone.
restore_file_KeepsCreated(p) ==
    LET snapshot == get_checkpoint(target).snapshots[p] IN
    /\ \/ snapshot.kind = "absent" /\ UNCHANGED <<files, trackVars>>
       \/ snapshot.kind = "inline" /\ write(p, snapshot.content)
       \/ snapshot.kind = "backup" /\ write(p, AsText[backups[snapshot.name]])
    /\ left' = left \ {p}
    /\ UNCHANGED <<backups, second, order, memory, disk, pruned, stuck, target>>

\* _restore_file.
restore_file(p) ==
    LET snapshot == get_checkpoint(target).snapshots[p] IN
    /\ \/ snapshot.kind = "absent" /\ files[p] = Absent /\ UNCHANGED <<files, trackVars>>
       \/ snapshot.kind = "absent" /\ delete(p)
       \/ snapshot.kind = "inline" /\ write(p, snapshot.content)
       \/ snapshot.kind = "backup" /\ write(p, AsText[backups[snapshot.name]])
    /\ left' = left \ {p}
    /\ UNCHANGED <<backups, second, order, memory, disk, pruned, stuck, target>>

\* A file could not be restored: RollbackError, and the rest is left alone.
restore_file_Fails(p) ==
    /\ \/ UNCHANGED files
       \/ get_checkpoint(target).snapshots[p].kind # "absent" /\ BelowFileLimit
          /\ files' = [files EXCEPT ![p] = Torn]
    /\ target' = NoCheckpoint /\ left' = {}
    /\ UNCHANGED <<trackVars, backups, second, order, memory, disk, pruned, stuck>>

\* The end of rollback_to: the checkpoints after the target are removed, one
\* by one, from memory and from disk, and then from the list.  When the file of
\* the n-th cannot be unlinked the exception leaves it there and the list alone.
finish_rollback ==
    LET index == CHOOSE i \in DOMAIN order :
                    order[i] = target /\ \A j \in 1..(i - 1) : order[j] # target
        later == SubSeq(order, index + 1, Len(order))
    IN  /\ left = {}
        /\ \/ target \notin ToSet(order) /\ UNCHANGED <<order, memory, disk, stuck>>
           \/ /\ target \in ToSet(order)
              /\ order' = SubSeq(order, 1, index)
              /\ memory' = Without(memory, ToSet(later))
              /\ disk' = Without(disk, ToSet(later))
              /\ UNCHANGED stuck
           \/ /\ target \in ToSet(order)
              /\ \E n \in DOMAIN later :
                    /\ later[n] \in DOMAIN disk \ First(later, n - 1)
                    /\ memory' = Without(memory, First(later, n))
                    /\ disk' = Without(disk, First(later, n - 1))
                    /\ stuck' = stuck \cup {later[n]}
              /\ UNCHANGED order
        /\ target' = NoCheckpoint
        /\ UNCHANGED <<guardVars, pruned, left>>

----------------------------------------------------------------------------
Snapshot ==
    [kind : {"absent"}] \cup [kind : {"inline"}, content : Content \ Large]
        \cup [kind : {"backup"}, name : Range(Stem) \X Nat]

\* A checkpoint: the backups its snapshots name are among those held.
CheckpointOK(cp, held) ==
    /\ DOMAIN cp.snapshots \subseteq Path /\ cp.refused \subseteq DOMAIN cp.snapshots
    /\ cp.truth \in [Path -> FileState]
    /\ \A p \in DOMAIN cp.snapshots :
          /\ cp.snapshots[p] \in Snapshot
          /\ cp.snapshots[p].kind = "backup" => cp.snapshots[p].name \in held

RollbackTypeOK ==
    /\ order \in Seq(Nat) /\ pruned \in BOOLEAN
    /\ DOMAIN memory \subseteq Nat /\ DOMAIN disk \subseteq Nat /\ stuck \subseteq Nat
    /\ \A id \in DOMAIN memory : CheckpointOK(memory[id], DOMAIN backups)
    /\ \A id \in DOMAIN disk : \A cp \in disk[id] : CheckpointOK(cp, DOMAIN backups)
    /\ target \in Gettable \cup {NoCheckpoint}
    /\ left \subseteq (IF target = NoCheckpoint THEN {} ELSE DOMAIN get_checkpoint(target).snapshots)

\* Checkpoint numbers are not given twice, as long as none was pruned, and each
\* that is listed can be had, unless a file could not be unlinked.
\* (`create_checkpoint` numbers by the length of the order list, which a
\* rollback shortens.)
IdsDistinctUntilPruned ==
    ~pruned => /\ \A i, j \in DOMAIN order : order[i] = order[j] => i = j
               /\ stuck = {} => DOMAIN memory = ToSet(order)

\* The list, the memory and the directory do not drift apart: what is in memory
\* is listed, and a file whose checkpoint is not in memory is one that could not
\* be unlinked.  However the removal of several checkpoints stops half-way, it
\* leaves no other behind.
CheckpointsListed ==
    /\ DOMAIN memory \subseteq ToSet(order)
    /\ DOMAIN disk \ stuck \subseteq DOMAIN memory

\* The most recent checkpoint can be had (`latest_checkpoint`).
LatestIsKept == order # <<>> => order[Len(order)] \in Gettable
=============================================================================
