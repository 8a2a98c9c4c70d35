--------------------------- MODULE CheckpointStore ---------------------------
(****************************************************************************)
(* The store of checkpoints (src/state/checkpoints.py): a directory per     *)
(* checkpoint, written part after part, and an index of all of them, kept   *)
(* in memory and rewritten as a whole.  The process may crash between two   *)
(* writes and a write may fail.  A part that was cut short reads as if it   *)
(* were not there, and an index that was, as an empty one.  Ids count up,   *)
(* so that a list of the index, to which checkpoints are appended, and its  *)
(* order by time of creation are both that of the ids: it is a set here.    *)
(****************************************************************************)
EXTENDS Integers, Sequences, FiniteSets

CONSTANTS
    Run,                \* runs that have checkpoints
    File,               \* the files a checkpoint holds
    MaxCheckpoints,     \* max_checkpoints_per_run
    MaxCreated,         \* bound: checkpoints created
    MaxFailures         \* bound: crashes and failed writes

ASSUME CheckpointAssumption ==
    /\ {MaxCheckpoints, MaxCreated, MaxFailures} \subseteq Nat /\ MaxCheckpoints > 0
    /\ Run # {} /\ File \cap {"state", "metadata"} = {}

VARIABLES
    dirs,       \* checkpoint -> the parts in its directory
    run_of,     \* checkpoint -> its run, as its metadata says
    index,      \* _index: run -> checkpoints
    index_file, \* the same on disk; nothing when it is torn
    stage,      \* where the operation under way is
    use,        \* which operation that is
    subject,    \* its run
    queue,      \* the checkpoints it still has to delete
    written,    \* history: the checkpoints whose last part was written
    returned,   \* history: the checkpoints whose creation returned
    dropped,    \* history: those a caller asked to delete
    failures,
    indexLost,  \* history: an index that was cut short was loaded
    runLost     \* history: that a run left the index could not be saved

storeVars == <<dirs, run_of, index, index_file, stage, use, subject, queue, written, returned,
               dropped, failures, indexLost, runLost>>

----------------------------------------------------------------------------
Part == {"state", "metadata"} \cup File
Checkpoint == DOMAIN dirs
NoIndex == <<>>
IdsOf(r) == IF r \in DOMAIN index THEN index[r] ELSE {}

StoreInit ==
    /\ dirs = <<>> /\ run_of = <<>>
    /\ index = NoIndex /\ index_file = [torn |-> FALSE, ids |-> NoIndex]
    /\ stage = "idle" /\ use = "create" /\ subject = (CHOOSE r \in Run : TRUE) /\ queue = {}
    /\ written = {} /\ returned = {} /\ dropped = {}
    /\ failures = 0 /\ indexLost = FALSE /\ runLost = FALSE

\* get_checkpoint_metadata finds something.
HasMetadata(c) == "metadata" \in dirs[c]

list_checkpoints_for_run(r) == {c \in IdsOf(r) : HasMetadata(c)}

create_checkpoint(r) ==
    /\ stage = "idle" /\ Len(dirs) < MaxCreated
    /\ dirs' = Append(dirs, {}) /\ run_of' = Append(run_of, r)
    /\ stage' = "parts" /\ use' = "create" /\ subject' = r
    /\ UNCHANGED <<index, index_file, queue, written, returned, dropped,
                   failures, indexLost, runLost>>

NewCheckpoint == Len(dirs)

\* The state, then the files, then the metadata.
InTurn(part) ==
    /\ part \notin dirs[NewCheckpoint]
    /\ part # "state" => "state" \in dirs[NewCheckpoint]
    /\ part = "metadata" => File \subseteq dirs[NewCheckpoint]

\* Faulty variant: the index comes before the last part, the metadata.
write_part_Early(part) ==
    /\ stage = "parts" /\ InTurn(part)
    /\ dirs' = [dirs EXCEPT ![NewCheckpoint] =
                   @ \cup {part} \cup (IF part \in File THEN {"metadata"} ELSE {})]
    /\ stage' = IF part \in File THEN "index" ELSE "parts"
    /\ written' = IF part \in File THEN written \cup {NewCheckpoint} ELSE written
    /\ UNCHANGED <<run_of, index, index_file, use, subject, queue, returned, dropped,
                   failures, indexLost, runLost>>

write_part(part) ==
    /\ stage = "parts" /\ InTurn(part)
    /\ dirs' = [dirs EXCEPT ![NewCheckpoint] = @ \cup {part}]
    /\ stage' = IF part = "metadata" THEN "index" ELSE "parts"
    /\ written' = IF part = "metadata" THEN written \cup {NewCheckpoint} ELSE written
    /\ UNCHANGED <<run_of, index, index_file, use, subject, queue, returned, dropped,
                   failures, indexLost, runLost>>

\* The new checkpoint is in the index in memory, which is to be saved.
update_index ==
    /\ stage = "index"
    /\ index' = [r \in DOMAIN index \cup {subject} |->
                   IF r = subject THEN IdsOf(r) \cup {NewCheckpoint} ELSE index[r]]
    /\ stage' = "open"
    /\ UNCHANGED <<dirs, run_of, index_file, use, subject, queue, written, returned, dropped,
                   failures, indexLost, runLost>>

\* _save_index: opening the file empties it.
open_index ==
    /\ stage = "open"
    /\ index_file' = [torn |-> TRUE, ids |-> NoIndex] /\ stage' = "index_write"
    /\ UNCHANGED <<dirs, run_of, index, use, subject, queue, written, returned, dropped, failures,
                   indexLost, runLost>>

\* _prune_run_checkpoints: all but the latest of those with metadata have to go.
prune_run_checkpoints ==
    LET known == list_checkpoints_for_run(subject)
    IN  IF Cardinality(IdsOf(subject)) <= MaxCheckpoints THEN {}
        ELSE {c \in known : Cardinality({d \in known : d > c}) >= MaxCheckpoints}

\* The rest of the operation: the directory of the checkpoint that came out of
\* the index, or the pruning after a creation.
save_index ==
    /\ stage = "index_write"
    /\ index_file' = [torn |-> FALSE, ids |-> index]
    /\ stage' = IF queue # {} THEN "rmtree" ELSE "deletes"
    /\ queue' = IF queue = {} /\ use = "create" THEN prune_run_checkpoints ELSE queue
    /\ UNCHANGED <<dirs, run_of, index, use, subject, written, returned, dropped,
                   failures, indexLost, runLost>>

\* A caller deletes a checkpoint, or (cleanup_run) all those of a run.
Deletes(ids, u, r) ==
    /\ stage = "idle"
    /\ stage' = "deletes" /\ use' = u /\ queue' = ids /\ subject' = r
    /\ dropped' = dropped \cup ids
    /\ UNCHANGED <<dirs, run_of, index, index_file, written, returned,
                   failures, indexLost, runLost>>

delete_checkpoint(c) == Deletes({c}, "delete", run_of[c])

cleanup_run(r) == r \in DOMAIN index /\ Deletes(IdsOf(r), "cleanup", r)

\* The oldest is the next to be deleted.
Oldest == CHOOSE c \in queue : \A d \in queue : c <= d

\* One deletion: it comes out of the index first, then its directory goes.  A
\* directory that is gone has no part, and then nothing is done.
delete_begins ==
    /\ stage = "deletes" /\ queue # {}
    /\ LET c == Oldest IN
       IF dirs[c] = {}
       THEN queue' = queue \ {c} /\ UNCHANGED <<index, stage>>
       ELSE IF HasMetadata(c) /\ subject \in DOMAIN index
       THEN /\ index' = [index EXCEPT ![subject] = @ \ {c}]
            /\ stage' = "open" /\ UNCHANGED queue
       ELSE stage' = "rmtree" /\ UNCHANGED <<index, queue>>
    /\ UNCHANGED <<dirs, run_of, index_file, use, subject, written, returned, dropped,
                   failures, indexLost, runLost>>

\* shutil.rmtree, part by part in any order.
rmtree ==
    /\ stage = "rmtree"
    /\ \E part \in dirs[Oldest] : dirs' = [dirs EXCEPT ![Oldest] = @ \ {part}]
    /\ IF dirs'[Oldest] = {} THEN stage' = "deletes" /\ queue' = queue \ {Oldest}
                             ELSE UNCHANGED <<stage, queue>>
    /\ UNCHANGED <<run_of, index, index_file, use, subject, written, returned, dropped, failures,
                   indexLost, runLost>>

\* The operation returns, but cleanup_run takes the run out of the index first.
deletes_done ==
    /\ stage = "deletes" /\ queue = {}
    /\ IF use = "cleanup" /\ subject \in DOMAIN index
       THEN /\ index' = [r \in DOMAIN index \ {subject} |-> index[r]]
            /\ stage' = "open" /\ UNCHANGED returned
       ELSE /\ stage' = "idle" /\ UNCHANGED index
            /\ returned' = IF use = "create" THEN returned \cup {NewCheckpoint} ELSE returned
    /\ UNCHANGED <<dirs, run_of, index_file, use, subject, queue, written, dropped,
                   failures, indexLost, runLost>>

\* A write fails: an exception ends the operation, except in the deletion of a
\* checkpoint, where it is caught, and the next one follows.
store_fails ==
    /\ stage \in {"parts", "open", "index_write", "rmtree"} /\ failures < MaxFailures
    /\ failures' = failures + 1
    /\ IF queue # {}
       THEN stage' = "deletes" /\ queue' = queue \ {Oldest}
       ELSE stage' = "idle" /\ UNCHANGED queue
    /\ runLost' = (runLost \/ (stage = "open" /\ use = "cleanup" /\ queue = {}))
    /\ UNCHANGED <<dirs, run_of, index, index_file, use, subject, written,
                   returned, dropped, indexLost>>

\* The process stops, and a new one loads the index.
reopen ==
    /\ failures < MaxFailures /\ failures' = failures + 1
    /\ stage' = "idle" /\ queue' = {}
    /\ index' = index_file.ids
    /\ indexLost' = (indexLost \/ index_file.torn)
    /\ UNCHANGED <<dirs, run_of, index_file, use, subject, written, returned, dropped, runLost>>

StoreNext ==
    \/ \E r \in Run : create_checkpoint(r) \/ cleanup_run(r)
    \/ \E part \in Part : write_part(part)
    \/ update_index \/ open_index \/ save_index
    \/ \E c \in Checkpoint : delete_checkpoint(c)
    \/ delete_begins \/ rmtree \/ deletes_done
    \/ store_fails \/ reopen

StoreSpec == StoreInit /\ [][StoreNext]_storeVars

----------------------------------------------------------------------------
\* An index names checkpoints, under their own run.
IsIndex(i) ==
    /\ DOMAIN i \subseteq Run /\ i \in [DOMAIN i -> SUBSET Checkpoint]
    /\ \A r \in DOMAIN i : \A c \in i[r] : run_of[c] = r

StoreTypeOK ==
    /\ dirs \in Seq(SUBSET Part) /\ run_of \in Seq(Run) /\ Len(run_of) = Len(dirs)
    /\ IsIndex(index) /\ IsIndex(index_file.ids) /\ index_file.torn \in BOOLEAN
    /\ stage \in {"idle", "parts", "index", "open", "index_write", "deletes", "rmtree"}
    /\ use \in {"create", "delete", "cleanup"} /\ subject \in Run
    /\ queue \cup written \cup returned \subseteq Checkpoint
    /\ failures \in Nat

Listed == UNION {list_checkpoints_for_run(r) : r \in Run}

\* As many later checkpoints of its run as may be kept were written.
Outdated(c) == Cardinality({d \in written : d > c /\ run_of[d] = run_of[c]}) >= MaxCheckpoints

\* What a caller can rely on, whatever crashed or failed: a checkpoint that is
\* listed has its state and all its files, unless a cleanup could not save that
\* the run is gone (its directories may then go while the index on disk still
\* names them); one whose creation returned is listed until it is deleted or
\* enough later ones of its run were written, unless a crash hit the index (an
\* index cut short forgets every checkpoint there is); and as long as nothing
\* failed no run keeps more of them than it may.
CheckpointsUsable ==
    /\ ~runLost => \A c \in Listed : dirs[c] = Part
    /\ ~indexLost => \A c \in returned \ dropped : c \in Listed \/ Outdated(c)
    /\ stage = "idle" /\ failures = 0 =>
          \A r \in Run : Cardinality(IdsOf(r)) <= MaxCheckpoints /\ index_file.ids = index
=============================================================================
