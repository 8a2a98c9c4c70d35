------------------------------ MODULE FileLock ------------------------------
(****************************************************************************)
(* Lock files and atomic writes (src/core/file_lock.py).  Processes take    *)
(* flock locks on one lock file, which a writer removes when it is done,    *)
(* and update the file it stands for: write to a temporary file and rename, *)
(* delete, or restore a backup.  An update is several system calls; a       *)
(* process may die between any two, and its descriptors are closed then.    *)
(****************************************************************************)
EXTENDS Integers

CONSTANTS
    Proc,
    Old,        \* what the file contains at first
    Torn,       \* a file that was truncated and not written in full
    Absent,     \* no file, no descriptor
    MaxCalls    \* bound: lock calls in a behaviour

ASSUME LockAssumption ==
    /\ Old # Torn /\ Old # Absent /\ Torn # Absent
    /\ {Old, Torn, Absent} \cap Proc = {}
    /\ Absent \notin Nat
    /\ MaxCalls \in Nat

VARIABLES
    name,       \* the inode the name of the lock file stands for
    inodes,     \* how many lock files were created
    fd,         \* process -> the inode it has open
    mode,       \* process -> its flock on that inode
    kind,       \* process -> the lock it calls for
    pc,         \* process -> where it is; in a block, the lock is in _held_locks
    target,     \* the file
    temp,       \* the file with .tmp added to its name
    backup,     \* the files with .bak and .deleted added
    before,     \* history: the content the last update has to preserve
    aged,       \* the inodes older than max_age_seconds
    displaced,  \* history: a lock file was removed that a process had open
    calls       \* history: how many lock calls there were

lockVars == <<name, inodes, fd, mode, kind, aged, displaced>>
dataVars == <<target, temp, backup, before>>
vars == <<lockVars, dataVars, pc, calls>>

----------------------------------------------------------------------------
Content == Proc \cup {Old, Torn, Absent}
Backup == {"bak", "deleted"}

Init ==
    /\ name = Absent /\ inodes = 0
    /\ fd = [p \in Proc |-> Absent] /\ mode = [p \in Proc |-> "none"]
    /\ kind = [p \in Proc |-> "read"]
    /\ pc = [p \in Proc |-> "idle"]
    /\ target = Old /\ temp = Absent /\ backup = [b \in Backup |-> Absent]
    /\ before = Old
    /\ aged = {} /\ displaced = FALSE /\ calls = 0

Goto(p, where) == pc' = [pc EXCEPT ![p] = where]

\* Opens the lock file, or creates it.
open(p, k) ==
    /\ pc[p] = "idle"
    /\ calls < MaxCalls /\ calls' = calls + 1
    /\ kind' = [kind EXCEPT ![p] = k]
    /\ IF name = Absent
       THEN name' = inodes /\ inodes' = inodes + 1
       ELSE UNCHANGED <<name, inodes>>
    /\ fd' = [fd EXCEPT ![p] = name']
    /\ Goto(p, "waiting")
    /\ UNCHANGED <<mode, aged, displaced, dataVars>>

\* Faulty variant: a writer asks for a shared lock.
Grants_Shared(p) ==
    \A q \in Proc \ {p} : fd[q] = fd[p] => mode[q] # "exclusive"

\* flock grants the lock: nobody holds one on the same inode that excludes it.
Grants(p) ==
    \A q \in Proc \ {p} :
        fd[q] = fd[p] => mode[q] = "none" \/ (kind[p] = "read" /\ mode[q] = "shared")

\* A lock is had; a writer writes its name into the lock file, which makes
\* the file young again.
acquire(p) ==
    /\ pc[p] = "waiting" /\ Grants(p)
    /\ mode' = [mode EXCEPT ![p] = IF kind[p] = "write" THEN "exclusive" ELSE "shared"]
    /\ aged' = IF kind[p] = "write" THEN aged \ {fd[p]} ELSE aged
    /\ Goto(p, "held")
    /\ UNCHANGED <<name, inodes, fd, kind, displaced, dataVars, calls>>

\* FileLockTimeout: the finally clause is next all the same.
time_out(p) ==
    /\ pc[p] = "waiting" /\ ~Grants(p)
    /\ Goto(p, "leaving")
    /\ UNCHANGED <<lockVars, dataVars, calls>>

\* The finally clause: unlock, close, forget; a writer goes on to unlink.
unlock(p) ==
    /\ pc[p] = "leaving"
    /\ mode' = [mode EXCEPT ![p] = "none"]
    /\ fd' = [fd EXCEPT ![p] = Absent]
    /\ Goto(p, IF kind[p] = "write" THEN "unlinking" ELSE "idle")
    /\ UNCHANGED <<name, inodes, kind, aged, displaced, dataVars, calls>>

\* The name of the lock file is removed, whatever inode it stands for by now.
Removed ==
    /\ name' = Absent
    /\ displaced' = (displaced \/ \E q \in Proc : fd[q] = name /\ name # Absent)

unlink(p) ==
    /\ pc[p] = "unlinking"
    /\ Removed
    /\ Goto(p, "idle")
    /\ UNCHANGED <<inodes, fd, mode, kind, aged, dataVars, calls>>

\* release_all, the last call of a with block that holds the lock.
release_all(p) ==
    /\ pc[p] = "held"
    /\ Goto(p, "released")
    /\ mode' = [mode EXCEPT ![p] = "none"]
    /\ fd' = [fd EXCEPT ![p] = Absent]
    /\ UNCHANGED <<name, inodes, kind, aged, displaced, dataVars, calls>>

\* It unlinks, and so does the finally clause of a write lock afterwards.
release_all_unlinks(p) ==
    /\ pc[p] = "released"
    /\ Removed
    /\ Goto(p, "leaving")
    /\ UNCHANGED <<inodes, fd, mode, kind, aged, dataVars, calls>>

----------------------------------------------------------------------------
\* cleanup_stale_locks: the age is that of the last write, and whether the
\* lock is held is not asked.
Age ==
    /\ name # Absent /\ name \notin aged
    /\ aged' = aged \cup {name}
    /\ UNCHANGED <<name, inodes, fd, mode, kind, displaced, dataVars, pc, calls>>

cleanup_stale_locks(p) ==
    /\ pc[p] = "idle"
    /\ name \in aged
    /\ Removed
    /\ UNCHANGED <<inodes, fd, mode, kind, aged, dataVars, pc, calls>>

----------------------------------------------------------------------------
\* The body of a write lock: one update of the file.  The writer has a lock
\* manager, which it never uses: locking is left to its caller.
Updates(p) == pc[p] = "held" /\ kind[p] = "write"

Starts(p, where) ==
    /\ Updates(p)
    /\ before' = target
    /\ Goto(p, where)

\* shutil.copy2: the copy is truncated first, and written then.
CopyBegins(b) == backup' = [backup EXCEPT ![b] = Torn]
CopyEnds(b) == backup' = [backup EXCEPT ![b] = target]

\* AtomicFileWriter.write: the copy to the backup begins, or there is none.
write(p) ==
    /\ Starts(p, IF target = Absent THEN "temp" ELSE "backup")
    /\ IF target = Absent THEN UNCHANGED backup ELSE CopyBegins("bak")
    /\ UNCHANGED <<lockVars, target, temp, calls>>

write_backed_up(p) ==
    /\ pc[p] = "backup"
    /\ CopyEnds("bak")
    /\ Goto(p, "temp")
    /\ UNCHANGED <<lockVars, target, temp, before, calls>>

\* Faulty variant: the file is written in place.
write_temp_InPlace(p) ==
    /\ pc[p] = "temp"
    /\ target' = Torn /\ temp' = Torn
    /\ Goto(p, "writing")
    /\ UNCHANGED <<lockVars, backup, before, calls>>

\* The temporary file is truncated, then written and flushed.
write_temp(p) ==
    /\ pc[p] = "temp"
    /\ temp' = Torn
    /\ Goto(p, "writing")
    /\ UNCHANGED <<lockVars, target, backup, before, calls>>

\* Two processes that write one file at a time may leave either's, or a mix.
write_flushed(p) ==
    /\ pc[p] = "writing"
    /\ \/ temp' = p
       \/ /\ \E q \in Proc \ {p} : pc[q] \in {"writing", "rename"}
          /\ temp' = Torn
    /\ Goto(p, "rename")
    /\ UNCHANGED <<lockVars, target, backup, before, calls>>

\* The rename; it fails when the temporary file is gone.
write_renamed(p) ==
    /\ pc[p] = "rename"
    /\ IF temp = Absent THEN UNCHANGED target ELSE target' = temp
    /\ temp' = Absent
    /\ Goto(p, "leaving")
    /\ UNCHANGED <<lockVars, backup, before, calls>>

\* An error before the rename: the temporary file is removed.
write_fails(p) ==
    /\ pc[p] \in {"backup", "temp", "writing", "rename"}
    /\ temp' = Absent
    /\ Goto(p, "leaving")
    /\ UNCHANGED <<lockVars, target, backup, before, calls>>

\* Faulty variant: the backup of a deleted file is not made.
safe_delete_Unsaved(p) ==
    /\ target # Absent
    /\ Starts(p, "deletable")
    /\ UNCHANGED <<lockVars, target, temp, backup, calls>>

\* safe_delete: a copy to the backup, then the removal.
safe_delete(p) ==
    /\ target # Absent
    /\ Starts(p, "deleting")
    /\ CopyBegins("deleted")
    /\ UNCHANGED <<lockVars, target, temp, calls>>

safe_delete_copied(p) ==
    /\ pc[p] = "deleting"
    /\ CopyEnds("deleted")
    /\ Goto(p, "deletable")
    /\ UNCHANGED <<lockVars, target, temp, before, calls>>

safe_delete_removes(p) ==
    /\ pc[p] = "deletable"
    /\ target' = Absent
    /\ Goto(p, "leaving")
    /\ UNCHANGED <<lockVars, temp, backup, before, calls>>

\* restore_backup: the file is written in place, then the backup is removed.
Restoring(b) == IF b = "bak" THEN "restoring bak" ELSE "restoring deleted"
Restored(b) == IF b = "bak" THEN "restored bak" ELSE "restored deleted"

restore_backup(p, b) ==
    /\ Updates(p) /\ backup[b] # Absent
    /\ before' = backup[b]
    /\ target' = Torn
    /\ Goto(p, Restoring(b))
    /\ UNCHANGED <<lockVars, temp, backup, calls>>

restore_backup_copied(p, b) ==
    /\ pc[p] = Restoring(b)
    /\ target' = backup[b]
    /\ Goto(p, Restored(b))
    /\ UNCHANGED <<lockVars, temp, backup, before, calls>>

restore_backup_removes(p, b) ==
    /\ pc[p] = Restored(b)
    /\ backup' = [backup EXCEPT ![b] = Absent]
    /\ Goto(p, "leaving")
    /\ UNCHANGED <<lockVars, target, temp, before, calls>>

\* The body ends without an update; a reader's always does.
finish(p) ==
    /\ pc[p] = "held"
    /\ Goto(p, "leaving")
    /\ UNCHANGED <<lockVars, dataVars, calls>>

\* The process dies: the kernel closes its descriptors, the files stay.
Die(p) ==
    /\ pc[p] # "idle"
    /\ mode' = [mode EXCEPT ![p] = "none"]
    /\ fd' = [fd EXCEPT ![p] = Absent]
    /\ Goto(p, "idle")
    /\ UNCHANGED <<name, inodes, kind, aged, displaced, dataVars, calls>>

----------------------------------------------------------------------------
Locking(p) ==
    \/ \E k \in {"read", "write"} : open(p, k)
    \/ acquire(p) \/ time_out(p) \/ unlock(p) \/ unlink(p)
    \/ release_all(p) \/ release_all_unlinks(p) \/ cleanup_stale_locks(p)

Updating(p) ==
    \/ write(p) \/ write_backed_up(p) \/ write_temp(p) \/ write_flushed(p)
    \/ write_renamed(p) \/ write_fails(p)
    \/ safe_delete(p) \/ safe_delete_copied(p) \/ safe_delete_removes(p)
    \/ \E b \in Backup :
        restore_backup(p, b) \/ restore_backup_copied(p, b) \/ restore_backup_removes(p, b)

Next ==
    \/ Age
    \/ \E p \in Proc : Locking(p) \/ Updating(p) \/ finish(p) \/ Die(p)

Spec == Init /\ [][Next]_vars

----------------------------------------------------------------------------
Place == {"idle", "waiting", "held", "leaving", "unlinking", "released", "backup",
          "temp", "writing", "rename", "deleting", "deletable", "restoring bak",
          "restoring deleted", "restored bak", "restored deleted"}

\* The process is between taking the lock and giving it back.
InBlock(p) ==
    pc[p] \in Place \ {"idle", "waiting", "leaving", "unlinking", "released"}

FlockFits(p) ==
    /\ InBlock(p) => mode[p] = IF kind[p] = "write" THEN "exclusive" ELSE "shared"
    /\ InBlock(p) \/ pc[p] = "waiting" => fd[p] # Absent
    /\ pc[p] \in {"idle", "unlinking"} => fd[p] = Absent /\ mode[p] = "none"

\* Every variable has its type; a process in a with block has the flock it
\* called for, and one that calls for nothing has no descriptor left open.
TypeOK ==
    /\ name \in Nat \cup {Absent} /\ inodes \in Nat
    /\ fd \in [Proc -> Nat \cup {Absent}]
    /\ mode \in [Proc -> {"none", "shared", "exclusive"}]
    /\ kind \in [Proc -> {"read", "write"}] /\ pc \in [Proc -> Place]
    /\ target \in Content /\ temp \in Content /\ before \in Content
    /\ backup \in [Backup -> Content]
    /\ aged \subseteq Nat /\ displaced \in BOOLEAN /\ calls \in Nat
    /\ \A p \in Proc : FlockFits(p)

\* A writer shares the lock with nobody (the manager: "Exclusive write locks").
ExclusiveWriteLocks ==
    \A p, q \in Proc :
        p # q /\ InBlock(p) /\ kind[p] = "write" => ~InBlock(q)

\* What the flock on a removable lock file does give: a writer is alone as long
\* as no lock file was removed while another process had it open.
ExclusiveUntilDisplaced == displaced \/ ExclusiveWriteLocks

\* A crash at any point of an update loses nothing: what the file (or the
\* backup that is restored) contained when it began is in the file or a backup.
CrashLosesNothing ==
    displaced \/ before \in {target, backup["bak"], backup["deleted"], Absent}

\* "No partial writes are visible" (AtomicFileWriter): the file is never torn by
\* a write or a deletion, only by the in-place copy of a restore.
OnlyRestoreTears ==
    [][~displaced /\ target # Torn /\ target' = Torn
        => \E p \in Proc, b \in Backup : pc'[p] = Restoring(b)]_vars
=============================================================================
