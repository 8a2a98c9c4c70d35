-------------------------- MODULE PersistenceProofs --------------------------
(****************************************************************************)
(* Proofs about what is kept on disk.  File locks: the type invariant, that *)
(* the flock on a lock file keeps a writer alone until a lock file is       *)
(* removed from under a process that has it open, and what that means to    *)
(* the file.  Checkpoints: those that are listed can be used.  Run states:  *)
(* a cleanup keeps the latest.  Memory: an update has the effect of one     *)
(* step; what every memory is like; and what is kept of the updates done,   *)
(* from the operators on lists and patterns up to the steps of a manager.   *)
(****************************************************************************)
EXTENDS FileLock, CheckpointStore, RunStateStore, Memory, FiniteSetTheorems,
        SequenceTheorems, WellFoundedInduction, TLAPS

\* Two flocks on one inode are compatible.
FlocksCompatible ==
    \A p, q \in Proc :
        p # q /\ fd[p] # Absent /\ fd[p] = fd[q] /\ mode[p] = "exclusive" => mode[q] = "none"

\* Until a lock file is displaced, every open one is the one that has the name.
OneLockFile ==
    displaced \/ \A p \in Proc : fd[p] # Absent => fd[p] = name

LockInv == TypeOK /\ FlocksCompatible /\ OneLockFile

\* An update keeps to its block, or leaves it, and touches no lock.
LEMMA UpdateStays ==
    ASSUME TypeOK, NEW p \in Proc, Updating(p) \/ finish(p)
    PROVE  /\ UNCHANGED <<lockVars, calls>>
           /\ InBlock(p)
           /\ \E where \in Place : pc' = [pc EXCEPT ![p] = where] /\ (InBlock(p)' \/ where = "leaving")
           /\ target' \in Content /\ temp' \in Content /\ before' \in Content
           /\ backup' \in [Backup -> Content]
<1> USE DEF TypeOK, Content, Backup, Place, InBlock, Goto
<1>1. CASE write(p)
  BY <1>1, ZenonT(60) DEF write, Updates, Starts, CopyBegins, CopyEnds
<1>2. CASE write_backed_up(p)
  BY <1>2 DEF write_backed_up, Updates, Starts, CopyBegins, CopyEnds
<1>3. CASE write_temp(p)
  BY <1>3 DEF write_temp, Updates, Starts, CopyBegins, CopyEnds
<1>4. CASE write_flushed(p)
  BY <1>4 DEF write_flushed, Updates, Starts, CopyBegins, CopyEnds
<1>5. CASE write_renamed(p)
  BY <1>5 DEF write_renamed, Updates, Starts, CopyBegins, CopyEnds
<1>6. CASE write_fails(p)
  BY <1>6 DEF write_fails, Updates, Starts, CopyBegins, CopyEnds
<1>7. CASE safe_delete(p)
  BY <1>7 DEF safe_delete, Updates, Starts, CopyBegins, CopyEnds
<1>8. CASE safe_delete_copied(p)
  BY <1>8 DEF safe_delete_copied, Updates, Starts, CopyBegins, CopyEnds
<1>9. CASE safe_delete_removes(p)
  BY <1>9 DEF safe_delete_removes, Updates, Starts, CopyBegins, CopyEnds
<1>10. CASE \E b \in Backup : restore_backup(p, b)
  <2> PICK b \in Backup : restore_backup(p, b)
    BY <1>10
  <2>1. CASE b = "bak"
    BY <2>1 DEF restore_backup, Updates, Restoring, Restored
  <2>2. CASE b = "deleted"
    BY <2>2 DEF restore_backup, Updates, Restoring, Restored
  <2> QED
    BY <2>1, <2>2
<1>11. CASE \E b \in Backup : restore_backup_copied(p, b)
  <2> PICK b \in Backup : restore_backup_copied(p, b)
    BY <1>11
  <2>1. CASE b = "bak"
    BY <2>1 DEF restore_backup_copied, Updates, Restoring, Restored
  <2>2. CASE b = "deleted"
    BY <2>2 DEF restore_backup_copied, Updates, Restoring, Restored
  <2> QED
    BY <2>1, <2>2
<1>12. CASE \E b \in Backup : restore_backup_removes(p, b)
  <2> PICK b \in Backup : restore_backup_removes(p, b)
    BY <1>12
  <2>1. CASE b = "bak"
    BY <2>1 DEF restore_backup_removes, Updates, Restoring, Restored
  <2>2. CASE b = "deleted"
    BY <2>2 DEF restore_backup_removes, Updates, Restoring, Restored
  <2> QED
    BY <2>1, <2>2
<1>13. CASE finish(p)
  BY <1>13 DEF finish, dataVars
<1> QED
  BY <1>1, <1>2, <1>3, <1>4, <1>5, <1>6, <1>7, <1>8, <1>9, <1>10, <1>11, <1>12, <1>13 DEF Updating

\* A step keeps the types, and the flock of every process.
LEMMA TypeStep ==
    ASSUME LockInv, [Next]_vars
    PROVE  TypeOK'
<1> USE LockAssumption DEF LockInv, TypeOK, InBlock, Place, FlockFits
<1>1. CASE Age
  BY <1>1 DEF Age, dataVars
<1>2. ASSUME NEW p \in Proc, NEW k \in {"read", "write"}, open(p, k)
      PROVE  TypeOK'
  <2>1. /\ name' \in Nat /\ inodes' \in Nat
        /\ calls' \in Nat /\ displaced' \in BOOLEAN /\ aged' \subseteq Nat
    <3>1. /\ name \in Nat \cup {Absent} /\ inodes \in Nat /\ calls \in Nat
          /\ displaced \in BOOLEAN /\ aged \subseteq Nat
      OBVIOUS
    <3> HIDE DEF LockInv, TypeOK
    <3>2. \/ name' = inodes /\ inodes' = inodes + 1
          \/ name # Absent /\ name' = name /\ inodes' = inodes
      BY <1>2 DEF open
    <3>3. calls' = calls + 1 /\ displaced' = displaced /\ aged' = aged
      BY <1>2 DEF open
    <3>4. name' \in Nat /\ inodes' \in Nat
      BY <3>1, <3>2
    <3>5. calls' \in Nat
      BY <3>1, <3>3
    <3> QED
      BY <3>1, <3>3, <3>4, <3>5
  <2>2. /\ fd' \in [Proc -> Nat \cup {Absent}] /\ mode' = mode
        /\ kind' \in [Proc -> {"read", "write"}] /\ pc' \in [Proc -> Place]
    BY <1>2, <2>1 DEF open, dataVars, Goto
  <2>3. /\ target' \in Content /\ temp' \in Content /\ before' \in Content
        /\ backup' \in [Backup -> Content]
    BY <1>2 DEF open, dataVars
  <2>4. ASSUME NEW q \in Proc
        PROVE  /\ InBlock(q)' => InBlock(q) /\ q # p
               /\ pc'[q] \in {"idle", "unlinking"} => pc[q] = pc'[q] /\ q # p
               /\ q # p => kind'[q] = kind[q] /\ fd'[q] = fd[q] /\ pc'[q] = pc[q]
               /\ q = p => fd'[q] # Absent
    <3>1. pc' = [pc EXCEPT ![p] = "waiting"] /\ fd' = [fd EXCEPT ![p] = name']
      BY <1>2 DEF open, Goto
    <3>2. kind' = [kind EXCEPT ![p] = k] /\ pc[p] = "idle"
      BY <1>2 DEF open
    <3>3. fd'[p] = name' /\ name' # Absent
      BY <2>1, <3>1
    <3> QED
      BY <3>1, <3>2, <3>3
  <2>5. ASSUME NEW q \in Proc
        PROVE  FlockFits(q)'
    <3>1. CASE q = p
      BY <2>1, <2>2, <2>4, <3>1
    <3>2. CASE q # p
      BY <2>1, <2>2, <2>4, <3>2, ZenonT(60)
    <3> QED
      BY <3>1, <3>2
  <2> QED
    BY <2>1, <2>2, <2>3, <2>5
<1>3. ASSUME NEW p \in Proc, acquire(p)
      PROVE  TypeOK'
  <2>1. /\ name' \in Nat \cup {Absent} /\ inodes' \in Nat /\ calls' \in Nat
        /\ displaced' \in BOOLEAN /\ aged' \subseteq Nat
        /\ fd' = fd /\ kind' = kind
    BY <1>3 DEF acquire, dataVars
  <2>2. /\ mode' \in [Proc -> {"none", "shared", "exclusive"}]
        /\ pc' \in [Proc -> Place] /\ pc'[p] = "held" /\ fd[p] # Absent
        /\ mode'[p] = IF kind[p] = "write" THEN "exclusive" ELSE "shared"
    BY <1>3 DEF acquire, dataVars, Goto
  <2>3. /\ target' \in Content /\ temp' \in Content /\ before' \in Content
        /\ backup' \in [Backup -> Content]
    BY <1>3 DEF acquire, dataVars
  <2>4. ASSUME NEW q \in Proc, q # p
        PROVE  mode'[q] = mode[q] /\ pc'[q] = pc[q]
    <3>1. pc' = [pc EXCEPT ![p] = "held"]
      BY <1>3 DEF acquire, Goto
    <3>2. \E m : mode' = [mode EXCEPT ![p] = m]
      BY <1>3 DEF acquire
    <3> QED
      BY <2>4, <3>1, <3>2
  <2>5. ASSUME NEW q \in Proc
        PROVE  FlockFits(q)'
    <3>1. CASE q = p
      BY <2>1, <2>2, <3>1
    <3>2. CASE q # p
      BY <2>1, <2>2, <2>4, <3>2, ZenonT(60)
    <3> QED
      BY <3>1, <3>2
  <2> QED
    BY <2>1, <2>2, <2>3, <2>5
<1>4. ASSUME NEW p \in Proc, time_out(p)
      PROVE  TypeOK'
  BY <1>4 DEF time_out, dataVars, lockVars, Goto
<1>5. ASSUME NEW p \in Proc, unlock(p)
      PROVE  TypeOK'
  BY <1>5, ZenonT(60) DEF unlock, dataVars, lockVars, Goto
<1>6. ASSUME NEW p \in Proc, unlink(p)
      PROVE  TypeOK'
  BY <1>6, ZenonT(60) DEF unlink, Removed, dataVars, lockVars, Goto
<1>7. ASSUME NEW p \in Proc, release_all(p)
      PROVE  TypeOK'
  BY <1>7, ZenonT(60) DEF release_all, dataVars, lockVars, Goto
<1>8. ASSUME NEW p \in Proc, release_all_unlinks(p)
      PROVE  TypeOK'
  BY <1>8 DEF release_all_unlinks, Removed, dataVars, lockVars, Goto
<1>9. ASSUME NEW p \in Proc, cleanup_stale_locks(p)
      PROVE  TypeOK'
  BY <1>9 DEF cleanup_stale_locks, Removed, dataVars, lockVars, Goto
<1>10. ASSUME NEW p \in Proc, Updating(p) \/ finish(p)
      PROVE  TypeOK'
  <2>1. PICK where \in Place :
            pc' = [pc EXCEPT ![p] = where] /\ (InBlock(p)' \/ where = "leaving")
    BY <1>10, UpdateStays
  <2>2. InBlock(p) /\ UNCHANGED <<name, inodes, fd, mode, kind, aged, displaced, calls>>
    BY <1>10, UpdateStays DEF lockVars
  <2>3. /\ target' \in Content /\ temp' \in Content /\ before' \in Content
        /\ backup' \in [Backup -> Content]
    BY <1>10, UpdateStays
  <2>4. pc' \in [Proc -> Place] /\ \A q \in Proc : q # p => pc'[q] = pc[q]
    BY <2>1
  <2>5. /\ pc'[p] \notin {"idle", "unlinking"}
        /\ InBlock(p)' => fd[p] # Absent
        /\ InBlock(p)' => mode[p] = IF kind[p] = "write" THEN "exclusive" ELSE "shared"
    BY <2>1, <2>2
  <2>6. ASSUME NEW q \in Proc
        PROVE  FlockFits(q)'
    BY <2>2, <2>4, <2>5, ZenonT(60)
  <2> QED
    BY <2>2, <2>3, <2>4, <2>6
<1>11. ASSUME NEW p \in Proc, Die(p)
      PROVE  TypeOK'
  BY <1>11, ZenonT(60) DEF Die, dataVars, Goto
<1>12. CASE UNCHANGED vars
  BY <1>12 DEF vars, lockVars, dataVars
<1> QED
  BY <1>1, <1>2, <1>3, <1>4, <1>5, <1>6, <1>7, <1>8, <1>9, <1>10, <1>11, <1>12 DEF Next, Locking

\* The kernel grants no flock that excludes another.
LEMMA FlockStep ==
    ASSUME LockInv, [Next]_vars
    PROVE  FlocksCompatible'
<1> USE LockAssumption DEF LockInv, TypeOK, FlockFits, FlocksCompatible
<1>1. CASE Age
  BY <1>1 DEF Age, dataVars
<1>2. ASSUME NEW p \in Proc, NEW k \in {"read", "write"}, open(p, k)
      PROVE  FlocksCompatible'
  BY <1>2 DEF open, dataVars, Goto
<1>3. ASSUME NEW p \in Proc, acquire(p)
      PROVE  FlocksCompatible'
  BY <1>3 DEF acquire, Grants, dataVars, lockVars, Goto
<1>4. ASSUME NEW p \in Proc, time_out(p)
      PROVE  FlocksCompatible'
  BY <1>4 DEF time_out, dataVars, lockVars, Goto
<1>5. ASSUME NEW p \in Proc, unlock(p)
      PROVE  FlocksCompatible'
  BY <1>5 DEF unlock, dataVars, lockVars, Goto
<1>6. ASSUME NEW p \in Proc, unlink(p)
      PROVE  FlocksCompatible'
  BY <1>6 DEF unlink, Removed, dataVars, lockVars, Goto
<1>7. ASSUME NEW p \in Proc, release_all(p)
      PROVE  FlocksCompatible'
  BY <1>7 DEF release_all, dataVars, lockVars, Goto
<1>8. ASSUME NEW p \in Proc, release_all_unlinks(p)
      PROVE  FlocksCompatible'
  BY <1>8 DEF release_all_unlinks, Removed, dataVars, lockVars, Goto
<1>9. ASSUME NEW p \in Proc, cleanup_stale_locks(p)
      PROVE  FlocksCompatible'
  BY <1>9 DEF cleanup_stale_locks, Removed, dataVars, lockVars, Goto
<1>10. ASSUME NEW p \in Proc, Updating(p) \/ finish(p)
      PROVE  FlocksCompatible'
  BY <1>10, UpdateStays DEF lockVars
<1>11. ASSUME NEW p \in Proc, Die(p)
      PROVE  FlocksCompatible'
  BY <1>11 DEF Die, dataVars, Goto
<1>12. CASE UNCHANGED vars
  BY <1>12 DEF vars, lockVars, dataVars
<1> QED
  BY <1>1, <1>2, <1>3, <1>4, <1>5, <1>6, <1>7, <1>8, <1>9, <1>10, <1>11, <1>12 DEF Next, Locking

\* A lock file is opened under its name, and loses it only by being displaced.
LEMMA NameStep ==
    ASSUME LockInv, [Next]_vars
    PROVE  OneLockFile'
<1> USE LockAssumption DEF LockInv, TypeOK, FlockFits, OneLockFile
<1>1. CASE Age
  BY <1>1 DEF Age, dataVars
<1>2. ASSUME NEW p \in Proc, NEW k \in {"read", "write"}, open(p, k)
      PROVE  OneLockFile'
  BY <1>2 DEF open, dataVars, Goto
<1>3. ASSUME NEW p \in Proc, acquire(p)
      PROVE  OneLockFile'
  BY <1>3 DEF acquire, Grants, dataVars, lockVars, Goto
<1>4. ASSUME NEW p \in Proc, time_out(p)
      PROVE  OneLockFile'
  BY <1>4 DEF time_out, dataVars, lockVars, Goto
<1>5. ASSUME NEW p \in Proc, unlock(p)
      PROVE  OneLockFile'
  BY <1>5 DEF unlock, dataVars, lockVars, Goto
<1>6. ASSUME NEW p \in Proc, unlink(p)
      PROVE  OneLockFile'
  BY <1>6 DEF unlink, Removed, dataVars, lockVars, Goto
<1>7. ASSUME NEW p \in Proc, release_all(p)
      PROVE  OneLockFile'
  BY <1>7 DEF release_all, dataVars, lockVars, Goto
<1>8. ASSUME NEW p \in Proc, release_all_unlinks(p)
      PROVE  OneLockFile'
  BY <1>8 DEF release_all_unlinks, Removed, dataVars, lockVars, Goto
<1>9. ASSUME NEW p \in Proc, cleanup_stale_locks(p)
      PROVE  OneLockFile'
  BY <1>9 DEF cleanup_stale_locks, Removed, dataVars, lockVars, Goto
<1>10. ASSUME NEW p \in Proc, Updating(p) \/ finish(p)
      PROVE  OneLockFile'
  BY <1>10, UpdateStays DEF lockVars
<1>11. ASSUME NEW p \in Proc, Die(p)
      PROVE  OneLockFile'
  BY <1>11 DEF Die, dataVars, Goto
<1>12. CASE UNCHANGED vars
  BY <1>12 DEF vars, lockVars, dataVars
<1> QED
  BY <1>1, <1>2, <1>3, <1>4, <1>5, <1>6, <1>7, <1>8, <1>9, <1>10, <1>11, <1>12 DEF Next, Locking

\* LockInv is inductive.
LEMMA LockInvariant == Spec => []LockInv
<1>1. ASSUME Init
      PROVE  LockInv
  <2>1. TypeOK
    BY <1>1, LockAssumption DEF Init, TypeOK, FlockFits, InBlock, Place, Content, Backup
  <2>2. FlocksCompatible /\ OneLockFile
    BY <1>1, LockAssumption DEF Init, FlocksCompatible, OneLockFile
  <2> QED
    BY <2>1, <2>2 DEF LockInv
<1>2. LockInv /\ [Next]_vars => LockInv'
  BY TypeStep, FlockStep, NameStep DEF LockInv
<1> QED
  BY <1>1, <1>2, PTL DEF Spec

\* Every process in a with block has the flock it asked for, and every process
\* that is done has closed its descriptor, however the calls overlap.
THEOREM FileLockTypeCorrect == Spec => []TypeOK
<1>1. LockInv => TypeOK
  BY DEF LockInv
<1> QED
  BY <1>1, LockInvariant, PTL

\* A writer is alone in its block.
LEMMA LockInvExcludes ==
    ASSUME LockInv
    PROVE  ExclusiveUntilDisplaced
<1> SUFFICES ASSUME ~displaced, NEW p \in Proc, NEW q \in Proc, p # q,
                    InBlock(p), kind[p] = "write", InBlock(q)
             PROVE  FALSE
  BY DEF ExclusiveUntilDisplaced, ExclusiveWriteLocks
<1>1. fd[p] = name /\ fd[q] = name /\ fd[p] # Absent
  BY DEF LockInv, TypeOK, FlockFits, OneLockFile
<1>2. mode[p] = "exclusive" /\ mode[q] # "none"
  BY DEF LockInv, TypeOK, FlockFits
<1> QED
  BY <1>1, <1>2 DEF LockInv, FlocksCompatible

\* A writer is alone in its block until a lock file is removed while a process
\* has it open: for any number of processes and calls, and any crashes.
THEOREM WriterAloneUntilDisplaced == Spec => []ExclusiveUntilDisplaced
BY LockInvExcludes, LockInvariant, PTL

----------------------------------------------------------------------------
(* The file.                                                                *)

UpdatePlaces ==
    {"backup", "temp", "writing", "rename", "deleting", "deletable", "restoring bak",
     "restoring deleted", "restored bak", "restored deleted"}

\* Where p is in its update says where the content to preserve is, and what the
\* files p is about to use contain.
WorkFits(p) ==
    /\ pc[p] \in {"backup", "deleting"} => target = before
    /\ pc[p] \in {"temp", "writing", "rename"} =>
        target = before /\ (before = Absent \/ backup["bak"] = before)
    /\ pc[p] = "rename" => temp = p
    /\ pc[p] = "deletable" => backup["deleted"] = before
    /\ \A b \in Backup :
        /\ pc[p] = Restoring(b) => backup[b] = before /\ target = Torn
        /\ pc[p] = Restored(b) => target = before

\* Only writers update, and the update under way fits the files.
DataInv ==
    /\ \A p \in Proc : pc[p] \in UpdatePlaces => kind[p] = "write"
    /\ displaced \/ \A p \in Proc : WorkFits(p)
    /\ CrashLosesNothing

\* No lock call, crash or clean-up touches the files or begins an update.
LEMMA LocksLeaveData ==
    ASSUME TypeOK, Age \/ \E p \in Proc : Locking(p) \/ finish(p) \/ Die(p)
    PROVE  /\ UNCHANGED dataVars
           /\ displaced => displaced'
           /\ \A q \in Proc :
                pc'[q] \in UpdatePlaces => pc[q] = pc'[q] /\ kind'[q] = kind[q]
<1> USE DEF TypeOK, UpdatePlaces, Goto, lockVars
<1>1. CASE Age
  BY <1>1 DEF Age
<1> DEFINE Keeps == /\ UNCHANGED dataVars
                    /\ displaced => displaced'
                    /\ \A q \in Proc :
                         pc'[q] \in UpdatePlaces => pc[q] = pc'[q] /\ kind'[q] = kind[q]
<1>2. ASSUME NEW p \in Proc, NEW k \in {"read", "write"}, open(p, k)
      PROVE  Keeps
  BY <1>2 DEF open
<1>3. ASSUME NEW p \in Proc, acquire(p) \/ time_out(p) \/ finish(p)
      PROVE  Keeps
  BY <1>3 DEF acquire, time_out, finish
<1>4. ASSUME NEW p \in Proc, unlock(p) \/ release_all(p) \/ Die(p)
      PROVE  Keeps
  <2>1. UNCHANGED <<dataVars, displaced, kind>>
    BY <1>4 DEF unlock, release_all, Die
  <2>2. \E w \in {"unlinking", "idle", "released"} : pc' = [pc EXCEPT ![p] = w]
    BY <1>4 DEF unlock, release_all, Die
  <2> QED
    BY <2>1, <2>2
<1>5. ASSUME NEW p \in Proc, unlink(p) \/ release_all_unlinks(p) \/ cleanup_stale_locks(p)
      PROVE  Keeps
  BY <1>5 DEF unlink, release_all_unlinks, cleanup_stale_locks, Removed
<1> QED
  BY <1>1, <1>2, <1>3, <1>4, <1>5 DEF Locking

\* The places of a restore are different ones.
LEMMA RestoresDiffer ==
    /\ Restoring("bak") = "restoring bak" /\ Restoring("deleted") = "restoring deleted"
    /\ Restored("bak") = "restored bak" /\ Restored("deleted") = "restored deleted"
BY DEF Restoring, Restored

\* Only a writer begins an update, and goes on with it.
LEMMA UpdatersWrite ==
    ASSUME TypeOK, NEW p \in Proc, Updating(p),
           pc[p] \in UpdatePlaces => kind[p] = "write"
    PROVE  pc'[p] \in UpdatePlaces => kind[p] = "write"
<1>1. pc[p] \in UpdatePlaces \/ kind[p] = "write"
  BY RestoresDiffer DEF Updating, write, safe_delete, restore_backup, Starts, Updates,
     write_backed_up, write_temp, write_flushed, write_renamed, write_fails,
     safe_delete_copied, safe_delete_removes, restore_backup_copied,
     restore_backup_removes, UpdatePlaces, Backup
<1> QED
  BY <1>1

\* An update leaves the other processes where they are.
LEMMA UpdateMovesOne ==
    ASSUME TypeOK, NEW p \in Proc, Updating(p), NEW q \in Proc, q # p
    PROVE  pc'[q] = pc[q]
BY UpdateStays DEF TypeOK

\* One step of a writer that is alone: the content to preserve is kept, and the
\* file is torn only at the beginning of a restore.
LEMMA UpdateKeepsData ==
    ASSUME LockInv, DataInv, ~displaced, NEW p \in Proc, Updating(p),
           \A q \in Proc \ {p} : pc[q] \notin UpdatePlaces
    PROVE  /\ pc'[p] \in UpdatePlaces => kind[p] = "write"
           /\ WorkFits(p)'
           /\ before' \in {target', backup'["bak"], backup'["deleted"], Absent}
           /\ target # Torn /\ target' = Torn => \E b \in Backup : pc'[p] = Restoring(b)
<1> USE LockAssumption, RestoresDiffer DEF WorkFits, Goto, Backup, UpdatePlaces
<1>1. /\ pc \in [Proc -> Place] /\ backup \in [{"bak", "deleted"} -> Content]
      /\ WorkFits(p) /\ (pc[p] \in UpdatePlaces => kind[p] = "write")
      /\ before \in {target, backup["bak"], backup["deleted"], Absent}
      /\ p # Torn /\ Absent # Torn
  BY DEF LockInv, TypeOK, DataInv, CrashLosesNothing
<1> USE <1>1
<1>2. CASE write(p)
  BY <1>2 DEF write, Updates, Starts, CopyBegins
<1>3. CASE write_backed_up(p)
  BY <1>3 DEF write_backed_up, CopyEnds
<1>4. CASE write_temp(p)
  BY <1>4 DEF write_temp
<1>5. CASE write_flushed(p)
  BY <1>5 DEF write_flushed
<1>6. CASE write_renamed(p)
  BY <1>6 DEF write_renamed
<1>7. CASE write_fails(p)
  BY <1>7 DEF write_fails
<1>8. CASE safe_delete(p)
  BY <1>8 DEF safe_delete, Updates, Starts, CopyBegins
<1>9. CASE safe_delete_copied(p)
  BY <1>9 DEF safe_delete_copied, CopyEnds
<1>10. CASE safe_delete_removes(p)
  BY <1>10 DEF safe_delete_removes
<1>11. CASE \E b \in Backup : restore_backup(p, b)
  <2>1. CASE restore_backup(p, "bak")
    BY <2>1 DEF restore_backup, Updates
  <2>2. CASE restore_backup(p, "deleted")
    BY <2>2 DEF restore_backup, Updates
  <2> QED
    BY <1>11, <2>1, <2>2
<1>12. CASE \E b \in Backup : restore_backup_copied(p, b)
  <2>1. CASE restore_backup_copied(p, "bak")
    BY <2>1 DEF restore_backup_copied
  <2>2. CASE restore_backup_copied(p, "deleted")
    BY <2>2 DEF restore_backup_copied
  <2> QED
    BY <1>12, <2>1, <2>2
<1>13. CASE \E b \in Backup : restore_backup_removes(p, b)
  <2>1. CASE restore_backup_removes(p, "bak")
    BY <2>1 DEF restore_backup_removes
  <2>2. CASE restore_backup_removes(p, "deleted")
    BY <2>2 DEF restore_backup_removes
  <2> QED
    BY <1>13, <2>1, <2>2
<1> QED
  BY <1>2, <1>3, <1>4, <1>5, <1>6, <1>7, <1>8, <1>9, <1>10, <1>11, <1>12,
     <1>13 DEF Updating

\* A writer in its update is alone in it.
LEMMA UpdatesAlone ==
    ASSUME LockInv, DataInv, ~displaced, NEW p \in Proc, Updating(p), NEW q \in Proc, q # p
    PROVE  pc[q] \notin UpdatePlaces
<1>1. InBlock(p)
  BY UpdateStays DEF LockInv
<1>2. ASSUME pc[q] \in UpdatePlaces PROVE FALSE
  <2>1. InBlock(q) /\ kind[q] = "write"
    BY <1>2 DEF UpdatePlaces, InBlock, Place, DataInv
  <2> QED
    BY <1>1, <2>1, LockInvExcludes DEF ExclusiveUntilDisplaced, ExclusiveWriteLocks
<1> QED
  BY <1>2

\* The invariant of the file is inductive, with that of the locks.
LEMMA DataStep ==
    ASSUME LockInv, DataInv, [Next]_vars
    PROVE  DataInv'
<1>1. CASE Age \/ \E p \in Proc : Locking(p) \/ finish(p) \/ Die(p)
  <2>1. /\ UNCHANGED <<target, temp, backup, before>>
        /\ displaced => displaced'
        /\ \A q \in Proc : pc'[q] \in UpdatePlaces => pc[q] = pc'[q] /\ kind'[q] = kind[q]
    BY <1>1, LocksLeaveData DEF LockInv, dataVars
  <2>2. ASSUME NEW q \in Proc, WorkFits(q)
        PROVE  WorkFits(q)'
    <3>1. CASE pc'[q] \in UpdatePlaces
      BY <2>1, <2>2, <3>1 DEF WorkFits
    <3>2. CASE pc'[q] \notin UpdatePlaces
      BY <3>2, RestoresDiffer DEF WorkFits, UpdatePlaces, Backup
    <3> QED
      BY <3>1, <3>2
  <2>3. CrashLosesNothing'
    BY <2>1 DEF DataInv, CrashLosesNothing
  <2> QED
    BY <2>1, <2>2, <2>3 DEF DataInv
<1>2. ASSUME NEW p \in Proc, Updating(p)
      PROVE  DataInv'
  <2>1. UNCHANGED <<kind, displaced>>
    BY <1>2, UpdateStays DEF LockInv, lockVars
  <2>2. \A q \in Proc : q # p => pc'[q] = pc[q]
    BY <1>2, UpdateMovesOne DEF LockInv
  <2>3. CASE displaced
    <3>1. pc'[p] \in UpdatePlaces => kind[p] = "write"
      BY <1>2, UpdatersWrite DEF LockInv, DataInv
    <3> QED
      BY <2>1, <2>2, <2>3, <3>1 DEF DataInv, CrashLosesNothing
  <2>4. CASE ~displaced
    <3>1. \A q \in Proc \ {p} : pc[q] \notin UpdatePlaces
      BY <1>2, <2>4, UpdatesAlone
    <3>2. /\ pc'[p] \in UpdatePlaces => kind[p] = "write"
          /\ WorkFits(p)'
          /\ before' \in {target', backup'["bak"], backup'["deleted"], Absent}
      BY <1>2, <2>4, <3>1, UpdateKeepsData
    <3>3. ASSUME NEW q \in Proc, q # p
          PROVE  WorkFits(q)'
      BY <2>2, <3>1, <3>3, RestoresDiffer DEF WorkFits, UpdatePlaces, Backup
    <3> QED
      BY <2>1, <2>2, <3>2, <3>3 DEF DataInv, CrashLosesNothing
  <2> QED
    BY <2>3, <2>4
<1>3. CASE UNCHANGED vars
  BY <1>3 DEF vars, lockVars, dataVars, DataInv, WorkFits, CrashLosesNothing
<1> QED
  BY <1>1, <1>2, <1>3 DEF Next

\* It holds of every execution.
LEMMA DataInvariant == Spec => []DataInv
<1>1. Init => DataInv
  <2> SUFFICES ASSUME Init PROVE DataInv
    OBVIOUS
  <2>1. /\ \A p \in Proc : pc[p] = "idle"
        /\ target = Old /\ before = Old
    BY DEF Init
  <2>2. \A p \in Proc : WorkFits(p) /\ pc[p] \notin UpdatePlaces
    BY <2>1, RestoresDiffer DEF WorkFits, UpdatePlaces, Backup
  <2>3. CrashLosesNothing
    BY <2>1 DEF CrashLosesNothing
  <2> QED BY <2>2, <2>3 DEF DataInv
<1>2. LockInv /\ DataInv /\ [Next]_vars => DataInv'
  BY DataStep
<1> QED
  BY <1>1, <1>2, LockInvariant, PTL DEF Spec

\* A process may die between any two system calls of an update, of any number
\* of processes: what the file, or the backup being restored, contained when
\* the update began is still in the file or in a backup.
THEOREM UpdatesLoseNothing == Spec => []CrashLosesNothing
<1>1. DataInv => CrashLosesNothing
  BY DEF DataInv
<1> QED
  BY <1>1, DataInvariant, PTL

\* No write and no deletion is ever seen half done: only the in-place copy of a
\* restore tears the file.
THEOREM OnlyRestoresTear == Spec => OnlyRestoreTears
<1>1. ASSUME LockInv, DataInv, [Next]_vars
      PROVE  [~displaced /\ target # Torn /\ target' = Torn
                => \E p \in Proc, b \in Backup : pc'[p] = Restoring(b)]_vars
  <2> SUFFICES ASSUME Next, ~displaced, target # Torn, target' = Torn
               PROVE  \E p \in Proc, b \in Backup : pc'[p] = Restoring(b)
    BY <1>1
  <2>1. PICK p \in Proc : Updating(p)
    BY <1>1, LocksLeaveData DEF Next, LockInv, dataVars
  <2>2. \A q \in Proc \ {p} : pc[q] \notin UpdatePlaces
    BY <1>1, <2>1, UpdatesAlone
  <2> QED
    BY <1>1, <2>1, <2>2, UpdateKeepsData
<1> QED
  BY <1>1, LockInvariant, DataInvariant, PTL DEF Spec, OnlyRestoreTears

----------------------------------------------------------------------------
(* The store of checkpoints: the inductive invariant. *)

\* Is the checkpoint in the index, in memory and on disk?
Indexed(c) == c \in IdsOf(run_of[c])
OnDisk(c) == run_of[c] \in DOMAIN index_file.ids /\ c \in index_file.ids[run_of[c]]

\* The creation under way: the parts, then the index in memory, then on disk,
\* then the pruning of checkpoints that have enough later ones.
CreationInv ==
    use = "create" /\ stage # "idle" =>
        /\ Len(dirs) > 0 /\ run_of[NewCheckpoint] = subject
        /\ stage = "parts" => ~HasMetadata(NewCheckpoint)
        /\ stage # "parts" => dirs[NewCheckpoint] = Part
        /\ stage \notin {"parts", "index"} => Indexed(NewCheckpoint)
        /\ stage \in {"deletes", "rmtree"} \/ queue # {} =>
              index_file.torn \/ OnDisk(NewCheckpoint)
        /\ \A c \in queue : Outdated(c)

\* What is to be deleted was asked for, or has enough later ones; a checkpoint
\* loses its parts only after it left the index, in memory and on disk.
DeletionInv ==
    /\ stage \in {"idle", "parts", "index"} => queue = {}
    /\ stage \in {"parts", "index"} => use = "create"
    /\ \A c \in queue : run_of[c] = subject
    /\ use # "create" => queue \subseteq dropped
    /\ use = "cleanup" /\ stage # "idle" => IdsOf(subject) \subseteq dropped
    /\ stage \in {"open", "index_write"} /\ queue # {} => ~Indexed(Oldest)
    /\ stage = "rmtree" =>
          /\ queue # {}
          /\ HasMetadata(Oldest) => ~Indexed(Oldest) /\ (~runLost => ~OnDisk(Oldest))

\* A run that is gone from memory is gone from the disk, or about to be.
RunsInv ==
    ~runLost => \A r \in DOMAIN index_file.ids :
        r \in DOMAIN index \/ (stage = "open" /\ use = "cleanup" /\ queue = {} /\ r = subject)

\* What is named by an index, and has its metadata, has everything.
CompleteInv ==
    ~runLost => \A c \in Checkpoint :
        HasMetadata(c) /\ (Indexed(c) \/ OnDisk(c)) => dirs[c] = Part

\* What was returned is in both indexes, unless that on disk is torn.
KeptInv ==
    ~indexLost => \A c \in returned \ dropped :
        Outdated(c) \/ (HasMetadata(c) /\ Indexed(c) /\ (index_file.torn \/ OnDisk(c)))

\* Those of a run that will stay in the index.
Staying(r) == IF use = "create" /\ r = subject THEN IdsOf(r) \ queue ELSE IdsOf(r)

\* As long as nothing failed.
SoundInv ==
    failures = 0 =>
        /\ stage \notin {"open", "index_write"} => index_file.ids = index
        /\ \A c \in Checkpoint : Indexed(c) => HasMetadata(c)
        /\ \A r \in Run :
              \/ use = "create" /\ r = subject /\ queue = {} /\ stage \in {"open", "index_write"}
              \/ Cardinality(Staying(r)) <= MaxCheckpoints

\* What has its metadata was written.
WrittenInv == \A c \in Checkpoint : HasMetadata(c) => c \in written

StoreInv ==
    /\ StoreTypeOK /\ CreationInv /\ DeletionInv /\ RunsInv /\ CompleteInv
    /\ KeptInv /\ SoundInv

----------------------------------------------------------------------------
(* Lemmas about sets of checkpoints. *)

\* A set of numbers has a least one.
LEMMA LeastOfNat ==
  ASSUME NEW T, T \subseteq Nat, T # {}
  PROVE  \E x \in T : \A y \in T : x <= y
<1>1. PICK x \in T : \A y \in T : ~(<<y, x>> \in OpToRel(<, Nat))
  BY NatLessThanWellFounded, WFMin
<1>2. ASSUME NEW y \in T PROVE x <= y
  <2>1. ~(y < x)
    BY <1>1, <1>2 DEF OpToRel
  <2> QED BY <2>1
<1> QED BY <1>2


\* The checkpoints are numbered, and there are finitely many.
LEMMA CheckpointFacts ==
  ASSUME StoreTypeOK
  PROVE  /\ Len(dirs) \in Nat /\ Checkpoint = 1..Len(dirs) /\ DOMAIN run_of = Checkpoint
         /\ Checkpoint \in SUBSET Nat
         /\ \A S \in SUBSET Checkpoint : IsFiniteSet(S) /\ Cardinality(S) \in Nat
<1>1. Len(dirs) \in Nat /\ Checkpoint = 1..Len(dirs) /\ DOMAIN run_of = Checkpoint
  BY DEF StoreTypeOK, Checkpoint
<1>2. IsFiniteSet(Checkpoint)
  BY <1>1, FS_Interval
<1>3. \A S \in SUBSET Checkpoint : IsFiniteSet(S) /\ Cardinality(S) \in Nat
  BY <1>2, FS_Subset, FS_CardinalityType
<1> QED BY <1>1, <1>3

\* A set of checkpoints has an oldest one.
LEMMA OldestIs ==
  ASSUME StoreTypeOK, queue # {}
  PROVE  Oldest \in queue
<1>1. queue \in SUBSET Nat
  BY CheckpointFacts DEF StoreTypeOK
<1>2. \E c \in queue : \A d \in queue : c <= d
  BY <1>1, LeastOfNat
<1> QED BY <1>2 DEF Oldest

\* What is outdated stays so.
LEMMA OutdatedStays ==
  ASSUME StoreTypeOK, StoreTypeOK', written \subseteq written',
         \A c \in Checkpoint : run_of'[c] = run_of[c],
         NEW c \in Checkpoint, Outdated(c)
  PROVE  Outdated(c)'
<1> DEFINE later  == {d \in written : d > c /\ run_of[d] = run_of[c]}
           later1 == {d \in written' : d > c /\ run_of'[d] = run_of'[c]}
<1>1. Checkpoint' = 1..Len(dirs') /\ Len(dirs') \in Nat
      /\ written \subseteq Checkpoint /\ written' \subseteq Checkpoint'
  BY DEF StoreTypeOK, Checkpoint
<1>2. later \in SUBSET later1
  BY <1>1
<1>3. IsFiniteSet(Checkpoint')
  BY <1>1, FS_Interval
<1>4. IsFiniteSet(later1)
  <2>1. later1 \in SUBSET Checkpoint'
    BY <1>1
  <2> QED BY <1>3, <2>1, FS_Subset
<1>5. Cardinality(later) <= Cardinality(later1) /\ Cardinality(later) \in Nat /\ Cardinality(later1) \in Nat
  <2> HIDE DEF later, later1
  <2> QED BY <1>2, <1>4, FS_Subset, FS_CardinalityType
<1>6. Cardinality(later) >= MaxCheckpoints
  BY DEF Outdated
<1> QED BY <1>5, <1>6, CheckpointAssumption DEF Outdated

\* The newest is not.
LEMMA NewestIsNot ==
  ASSUME StoreTypeOK, Len(dirs) > 0
  PROVE  ~Outdated(NewCheckpoint)
<1> DEFINE n == NewCheckpoint
           later == {d \in written : d > n /\ run_of[d] = run_of[n]}
<1>1. later = {}
  BY CheckpointFacts DEF NewCheckpoint, StoreTypeOK
<1>2. ~(Cardinality(later) >= MaxCheckpoints)
  <2> HIDE DEF later
  <2> QED BY <1>1, FS_EmptySet, CheckpointAssumption
<1> QED BY <1>2 DEF Outdated

\* Without those that have enough later ones, no more are left than may be kept.
LEMMA PruningLeaves ==
  ASSUME NEW S, NEW n \in Nat, S \in SUBSET Nat, IsFiniteSet(S), n > 0
  PROVE  Cardinality(S \ {c \in S : Cardinality({d \in S : d > c}) >= n}) <= n
<1> DEFINE later(c) == {d \in S : d > c}
           rest == {c \in S : Cardinality(later(c)) < n}
<1>1. \A c : IsFiniteSet(later(c)) /\ Cardinality(later(c)) \in Nat
  <2> TAKE c
  <2>1. later(c) \in SUBSET S
    OBVIOUS
  <2> QED BY <2>1, FS_Subset, FS_CardinalityType
<1>2. S \ {c \in S : Cardinality(later(c)) >= n} = rest
  <2> HIDE DEF later
  <2> QED BY <1>1
<1>3. IsFiniteSet(rest) /\ rest \in SUBSET Nat
  BY FS_Subset
<1>4. CASE rest = {}
  <2>1. Cardinality(rest) <= n
    <3> HIDE DEF rest
    <3> QED BY <1>4, FS_EmptySet
  <2> QED BY <1>2, <2>1
<1>5. CASE rest # {}
  <2>1. PICK m \in rest : \A c \in rest : m <= c
    <3> HIDE DEF rest
    <3> QED BY <1>3, <1>5, LeastOfNat
  <2>2. m \in Nat /\ Cardinality(later(m)) < n
    BY <1>3, <2>1
  <2>3. rest \subseteq later(m) \cup {m}
    BY <1>3, <2>1
  <2>4. IsFiniteSet(later(m) \cup {m}) /\ Cardinality(later(m) \cup {m}) = Cardinality(later(m)) + 1
    <3>1. m \notin later(m)
      BY <2>2
    <3> HIDE DEF later
    <3> QED BY <1>1, <3>1, FS_AddElement
  <2>5. Cardinality(rest) <= Cardinality(later(m) \cup {m})
    <3> HIDE DEF rest, later
    <3> QED BY <2>3, <2>4, FS_Subset
  <2>6. Cardinality(rest) \in Nat
    <3> HIDE DEF rest
    <3> QED BY <1>3, FS_CardinalityType
  <2>7. Cardinality(rest) <= n
    <3> HIDE DEF rest, later
    <3> QED BY <1>1, <2>2, <2>4, <2>5, <2>6
  <2> QED BY <1>2, <2>7
<1> QED BY <1>4, <1>5

----------------------------------------------------------------------------
(* The types, and what a step leaves alone. *)

\* A directory is changed and the others stay.
LEMMA DirectoryChanges ==
  ASSUME StoreTypeOK, NEW c, NEW parts \in SUBSET Part, dirs' = [dirs EXCEPT ![c] = parts]
  PROVE  dirs' \in Seq(SUBSET Part) /\ Len(dirs') = Len(dirs) /\ Checkpoint' = Checkpoint
<1>1. dirs \in [1..Len(dirs) -> SUBSET Part] /\ Len(dirs) \in Nat
  BY DEF StoreTypeOK
<1>2. dirs' \in [1..Len(dirs) -> SUBSET Part]
  BY <1>1
<1>3. dirs' \in Seq(SUBSET Part) /\ DOMAIN dirs' = 1..Len(dirs)
  BY <1>1, <1>2
<1>4. Len(dirs') = Len(dirs)
  BY <1>1, <1>3
<1> QED BY <1>1, <1>3, <1>4 DEF Checkpoint

\* No checkpoint is made.
Same == Len(dirs') = Len(dirs) /\ run_of' = run_of

LEMMA SameCheckpoints ==
  ASSUME StoreTypeOK, StoreTypeOK', Same
  PROVE  /\ Checkpoint' = Checkpoint /\ NewCheckpoint' = NewCheckpoint
         /\ written' = written => \A c : Outdated(c)' <=> Outdated(c)
<1>1. Checkpoint' = Checkpoint /\ NewCheckpoint' = NewCheckpoint
  BY DEF StoreTypeOK, Checkpoint, NewCheckpoint, Same
<1> QED BY <1>1 DEF Outdated, Same

LEMMA CreateTypes ==
  ASSUME StoreInv, NEW r \in Run, create_checkpoint(r)
  PROVE  /\ StoreTypeOK' /\ Len(dirs') = Len(dirs) + 1 /\ Checkpoint' = Checkpoint \cup {NewCheckpoint'}
         /\ NewCheckpoint' = Len(dirs) + 1 /\ NewCheckpoint' \notin Checkpoint
         /\ dirs'[NewCheckpoint'] = {} /\ run_of'[NewCheckpoint'] = r
         /\ \A c \in Checkpoint : dirs'[c] = dirs[c] /\ run_of'[c] = run_of[c]
<1> USE DEF StoreInv, create_checkpoint
<1>1. /\ dirs \in Seq(SUBSET Part) /\ run_of \in Seq(Run) /\ Len(run_of) = Len(dirs) /\ Len(dirs) \in Nat
      /\ DOMAIN dirs = 1..Len(dirs) /\ DOMAIN run_of = 1..Len(dirs)
  BY DEF StoreTypeOK
<1>2. /\ dirs' \in Seq(SUBSET Part) /\ run_of' \in Seq(Run) /\ Len(run_of') = Len(dirs')
      /\ Len(dirs') = Len(dirs) + 1 /\ DOMAIN dirs' = 1..Len(dirs)+1
      /\ dirs'[Len(dirs) + 1] = {} /\ run_of'[Len(dirs) + 1] = r
      /\ \A c \in 1..Len(dirs) : dirs'[c] = dirs[c] /\ run_of'[c] = run_of[c]
  BY <1>1
<1>3. Checkpoint' = Checkpoint \cup {Len(dirs) + 1} /\ NewCheckpoint' = Len(dirs) + 1
      /\ Checkpoint = 1..Len(dirs)
  BY <1>1, <1>2 DEF Checkpoint, NewCheckpoint
<1>4. IsIndex(index)' /\ IsIndex(index_file.ids)'
  BY <1>1, <1>2, <1>3 DEF StoreTypeOK, IsIndex
<1> QED BY <1>1, <1>2, <1>3, <1>4 DEF StoreTypeOK

LEMMA WriteTypes ==
  ASSUME StoreInv, NEW part \in Part, write_part(part)
  PROVE  StoreTypeOK' /\ Same
<1>1. dirs' \in Seq(SUBSET Part) /\ Len(dirs') = Len(dirs) /\ Checkpoint' = Checkpoint
  <2> DEFINE parts == dirs[NewCheckpoint] \cup {part}
  <2>1. parts \in SUBSET Part
    BY DEF StoreInv, StoreTypeOK, CreationInv, DeletionInv, write_part, NewCheckpoint
  <2>2. dirs' = [dirs EXCEPT ![NewCheckpoint] = parts]
    BY DEF write_part
  <2> QED BY <2>1, <2>2, DirectoryChanges DEF StoreInv
<1>2. written' \subseteq Checkpoint
  BY CheckpointFacts DEF StoreInv, StoreTypeOK, CreationInv, DeletionInv, write_part, NewCheckpoint
<1> QED BY <1>1, <1>2 DEF StoreInv, StoreTypeOK, IsIndex, write_part, Same

LEMMA NewIsOne ==
  ASSUME StoreInv, use = "create", stage # "idle"
  PROVE  NewCheckpoint \in Checkpoint /\ run_of[NewCheckpoint] = subject
BY CheckpointFacts DEF StoreInv, CreationInv, NewCheckpoint

LEMMA OtherTypes ==
  ASSUME StoreInv,
         \/ update_index \/ open_index \/ save_index
         \/ \E c \in Checkpoint : delete_checkpoint(c)
         \/ \E r \in Run : cleanup_run(r)
         \/ delete_begins \/ rmtree \/ deletes_done \/ store_fails \/ reopen
  PROVE  StoreTypeOK' /\ Same /\ written' = written
<1> USE DEF StoreInv, Same
<1>1. CASE update_index
  <2>1. use = "create" /\ stage # "idle"
    BY <1>1 DEF update_index, DeletionInv
  <2>2. NewCheckpoint \in Checkpoint /\ run_of[NewCheckpoint] = subject
    BY <2>1, NewIsOne
  <2>3. IsIndex(index')
    BY <1>1, <2>2 DEF update_index, IsIndex, StoreTypeOK, IdsOf
  <2> QED BY <1>1, <2>3 DEF update_index, StoreTypeOK, Checkpoint, IsIndex
<1>2. CASE open_index
  BY <1>2 DEF open_index, StoreTypeOK, Checkpoint, IsIndex, NoIndex
<1>3. CASE save_index
  <2>1. prune_run_checkpoints \subseteq Checkpoint
    BY DEF prune_run_checkpoints, list_checkpoints_for_run, IdsOf, StoreTypeOK, IsIndex
  <2> QED BY <1>3, <2>1 DEF save_index, StoreTypeOK, Checkpoint, IsIndex
<1>4. CASE \E c \in Checkpoint : delete_checkpoint(c)
  BY <1>4, CheckpointFacts DEF delete_checkpoint, Deletes, StoreTypeOK, Checkpoint, IsIndex
<1>5. CASE \E r \in Run : cleanup_run(r)
  BY <1>5 DEF cleanup_run, Deletes, StoreTypeOK, Checkpoint, IsIndex, IdsOf
<1>6. CASE delete_begins
  <2>1. IsIndex(index')
    BY <1>6 DEF delete_begins, IsIndex, StoreTypeOK
  <2> QED BY <1>6, <2>1 DEF delete_begins, StoreTypeOK, Checkpoint, IsIndex
<1>7. CASE rmtree
  <2>1. Oldest \in Checkpoint
    BY <1>7, OldestIs DEF rmtree, DeletionInv, StoreTypeOK
  <2>2. PICK part \in dirs[Oldest] : dirs' = [dirs EXCEPT ![Oldest] = @ \ {part}]
    BY <1>7 DEF rmtree
  <2> DEFINE parts == dirs[Oldest] \ {part}
  <2>3. parts \in SUBSET Part
    BY <2>1, CheckpointFacts DEF StoreTypeOK, Checkpoint
  <2>4. dirs' \in Seq(SUBSET Part) /\ Len(dirs') = Len(dirs) /\ Checkpoint' = Checkpoint
    <3>1. dirs' = [dirs EXCEPT ![Oldest] = parts]
      BY <2>2
    <3> HIDE DEF parts
    <3> QED BY <3>1, <2>3, DirectoryChanges
  <2>5. queue' \subseteq Checkpoint /\ stage' \in {"deletes", "rmtree"}
    BY <1>7 DEF rmtree, StoreTypeOK
  <2> QED BY <1>7, <2>4, <2>5 DEF rmtree, StoreTypeOK, IsIndex
<1>8. CASE deletes_done
  <2>1. use = "create" => NewCheckpoint \in Checkpoint
    BY <1>8, NewIsOne DEF deletes_done
  <2>2. IsIndex(index')
    BY <1>8 DEF deletes_done, IsIndex, StoreTypeOK
  <2> QED BY <1>8, <2>1, <2>2 DEF deletes_done, StoreTypeOK, Checkpoint, IsIndex
<1>9. CASE store_fails
  BY <1>9 DEF store_fails, StoreTypeOK, Checkpoint, IsIndex
<1>10. CASE reopen
  BY <1>10 DEF reopen, StoreTypeOK, Checkpoint, IsIndex
<1> QED BY <1>1, <1>2, <1>3, <1>4, <1>5, <1>6, <1>7, <1>8, <1>9, <1>10

----------------------------------------------------------------------------
(* One lemma for every action: the invariant stays. *)

LEMMA CreateStep ==
  ASSUME StoreInv, NEW r \in Run, create_checkpoint(r)
  PROVE  StoreInv'
<1> USE DEF create_checkpoint
<1> DEFINE n == NewCheckpoint'
<1>1. /\ StoreTypeOK /\ StoreTypeOK' /\ Len(dirs') = Len(dirs) + 1 /\ Len(dirs) \in Nat
      /\ Checkpoint' = Checkpoint \cup {n} /\ n \notin Checkpoint /\ n = Len(dirs) + 1
      /\ dirs'[n] = {} /\ run_of'[n] = r
      /\ \A c \in Checkpoint : dirs'[c] = dirs[c] /\ run_of'[c] = run_of[c]
  BY CreateTypes, CheckpointFacts DEF StoreInv
<1>2. stage = "idle" /\ queue = {} /\ stage' = "parts" /\ use' = "create" /\ subject' = r /\ queue' = {}
  BY DEF StoreInv, DeletionInv
<1>3. \A c \in Checkpoint : /\ HasMetadata(c)' <=> HasMetadata(c)
                            /\ Indexed(c)' <=> Indexed(c)
                            /\ OnDisk(c)' <=> OnDisk(c)
  BY <1>1 DEF HasMetadata, Indexed, OnDisk, IdsOf
<1>4. \A c \in Checkpoint : Outdated(c) => Outdated(c)'
  <2> HIDE DEF create_checkpoint
  <2> SUFFICES ASSUME NEW c \in Checkpoint, Outdated(c) PROVE Outdated(c)'
    OBVIOUS
  <2>1. written \subseteq written' /\ \A d \in Checkpoint : run_of'[d] = run_of[d]
    BY <1>1 DEF create_checkpoint
  <2> QED BY <1>1, <2>1, OutdatedStays
<1>5. \A c \in Checkpoint' : c = n => ~HasMetadata(c)' /\ ~Indexed(c)'
  BY <1>1 DEF HasMetadata, Indexed, IdsOf, StoreTypeOK, IsIndex
<1> HIDE DEF n
<1>6. CreationInv'
  <2>1. ~HasMetadata(NewCheckpoint)'
    BY <1>1, <1>5 DEF n, HasMetadata
  <2> QED BY <1>1, <1>2, <2>1 DEF CreationInv, n
<1>7. DeletionInv'
  BY <1>2 DEF DeletionInv
<1>8. RunsInv'
  BY <1>2 DEF StoreInv, RunsInv
<1>9. CompleteInv'
  BY <1>1, <1>3, <1>5 DEF StoreInv, CompleteInv
<1>10. KeptInv'
  BY <1>1, <1>3, <1>4 DEF StoreInv, KeptInv, StoreTypeOK
<1>11. SoundInv'
  <2>1. \A q : IdsOf(q)' = IdsOf(q)
    BY DEF IdsOf
  <2>2. \A q \in Run : Staying(q)' = Staying(q)
    BY <1>2, <2>1 DEF Staying
  <2> QED BY <1>1, <1>2, <1>3, <1>5, <2>2 DEF StoreInv, SoundInv
<1> QED BY <1>1, <1>6, <1>7, <1>8, <1>9, <1>10, <1>11 DEF StoreInv

LEMMA WriteStep ==
  ASSUME StoreInv, NEW part \in Part, write_part(part)
  PROVE  StoreInv'
<1> USE DEF write_part
<1> DEFINE n == NewCheckpoint
<1>1. /\ StoreTypeOK /\ StoreTypeOK' /\ run_of' = run_of /\ Checkpoint' = Checkpoint
      /\ NewCheckpoint' = n /\ written \subseteq written'
  BY WriteTypes, SameCheckpoints DEF StoreInv, Same
<1>2. stage = "parts" /\ use = "create" /\ queue = {} /\ queue' = {} /\ use' = "create"
      /\ stage' \in {"parts", "index"} /\ Len(dirs) > 0 /\ Len(dirs') = Len(dirs)
      /\ run_of[n] = subject /\ ~HasMetadata(n) /\ n \in Checkpoint /\ subject' = subject
  BY WriteTypes, CheckpointFacts DEF StoreInv, DeletionInv, CreationInv, Same, NewCheckpoint
<1>3. \A c \in Checkpoint : c # n => dirs'[c] = dirs[c]
  BY DEF Checkpoint
<1>4. dirs'[n] = dirs[n] \cup {part} /\ (stage' = "parts" => part # "metadata")
  BY <1>2 DEF Checkpoint
<1>5. \A c \in Checkpoint : (Indexed(c)' <=> Indexed(c)) /\ (OnDisk(c)' <=> OnDisk(c))
  BY <1>1 DEF Indexed, OnDisk, IdsOf
<1>6. stage' = "index" => dirs'[n] = Part
  <2> SUFFICES ASSUME stage' = "index" PROVE dirs'[n] = Part
    OBVIOUS
  <2>1. part = "metadata" /\ InTurn(part)
    BY DEF n
  <2>2. "state" \in dirs[n] /\ File \subseteq dirs[n]
    BY <2>1 DEF InTurn
  <2>3. dirs[n] \subseteq Part
    BY <1>2, CheckpointFacts DEF StoreInv, StoreTypeOK, Checkpoint
  <2> QED BY <1>4, <2>1, <2>2, <2>3 DEF Part
<1>7. \A c \in Checkpoint : c # n => (HasMetadata(c)' <=> HasMetadata(c))
  BY <1>3 DEF HasMetadata
<1> HIDE DEF n
<1>8. CreationInv'
  <2>1. stage' = "parts" => ~HasMetadata(NewCheckpoint)'
    BY <1>1, <1>2, <1>4 DEF HasMetadata
  <2> QED BY <1>1, <1>2, <1>6, <2>1 DEF CreationInv
<1>9. DeletionInv'
  BY <1>2 DEF DeletionInv
<1>10. RunsInv'
  BY <1>2 DEF StoreInv, RunsInv
<1>11. CompleteInv'
  <2> SUFFICES ASSUME ~runLost, NEW c \in Checkpoint, HasMetadata(c)', Indexed(c) \/ OnDisk(c)
               PROVE  dirs'[c] = Part
    BY <1>1, <1>5 DEF CompleteInv
  <2>1. CASE c # n
    BY <1>3, <1>7, <2>1 DEF StoreInv, CompleteInv
  <2>2. CASE c = n
    BY <1>2, <1>4, <1>6, <2>2 DEF HasMetadata
  <2> QED BY <2>1, <2>2
<1>12. KeptInv'
  <2> SUFFICES ASSUME ~indexLost, NEW c \in returned \ dropped, ~Outdated(c)
               PROVE  HasMetadata(c)' /\ Indexed(c) /\ (index_file.torn \/ OnDisk(c))
    <3>1. \A c \in Checkpoint : Outdated(c) => Outdated(c)'
      <4> HIDE DEF write_part
      <4> QED BY <1>1, OutdatedStays
    <3> QED BY <1>1, <1>5, <3>1 DEF KeptInv, StoreTypeOK
  <2>1. HasMetadata(c) /\ Indexed(c) /\ (index_file.torn \/ OnDisk(c))
    BY DEF StoreInv, KeptInv
  <2> QED BY <1>2, <1>7, <2>1, <1>1 DEF StoreTypeOK
<1>13. SoundInv'
  <2>1. \A q : Staying(q)' = Staying(q)
    BY <1>2 DEF Staying, IdsOf
  <2>2. failures = 0 => ~Indexed(n)
    BY <1>2 DEF StoreInv, SoundInv
  <2> QED BY <1>1, <1>2, <1>5, <1>7, <2>1, <2>2 DEF StoreInv, SoundInv
<1> QED BY <1>1, <1>8, <1>9, <1>10, <1>11, <1>12, <1>13 DEF StoreInv

\* What a step that makes no checkpoint and touches no directory leaves alone.
LEMMA LeavesDirectories ==
  ASSUME StoreInv, StoreTypeOK', Same, dirs' = dirs, written' = written
  PROVE  /\ StoreTypeOK /\ Checkpoint' = Checkpoint /\ NewCheckpoint' = NewCheckpoint
         /\ \A c : (Outdated(c)' <=> Outdated(c)) /\ (HasMetadata(c)' <=> HasMetadata(c))
BY SameCheckpoints DEF StoreInv, HasMetadata

LEMMA UpdateIndexStep ==
  ASSUME StoreInv, update_index
  PROVE  StoreInv'
<1> USE DEF update_index
<1> DEFINE n == NewCheckpoint
<1>1. /\ StoreTypeOK /\ StoreTypeOK' /\ run_of' = run_of /\ Checkpoint' = Checkpoint
      /\ NewCheckpoint' = n /\ \A c : Outdated(c)' <=> Outdated(c)
      /\ \A c : HasMetadata(c)' <=> HasMetadata(c)
  BY OtherTypes, LeavesDirectories DEF Same
<1>2. stage = "index" /\ use = "create" /\ queue = {} /\ queue' = {} /\ use' = "create"
      /\ stage' = "open" /\ Len(dirs) > 0 /\ subject' = subject
      /\ run_of[n] = subject /\ dirs[n] = Part /\ n \in Checkpoint
  BY NewIsOne DEF StoreInv, DeletionInv, CreationInv
<1>3. \A c \in Checkpoint : Indexed(c)' <=> Indexed(c) \/ c = n
  BY <1>1, <1>2 DEF Indexed, IdsOf
<1>4. \A c \in Checkpoint : OnDisk(c)' <=> OnDisk(c)
  BY <1>1 DEF OnDisk
<1>5. HasMetadata(n)
  BY <1>2 DEF HasMetadata, Part
<1> HIDE DEF n
<1>6. CreationInv'
  BY <1>1, <1>2, <1>3, <1>5 DEF CreationInv
<1>7. DeletionInv'
  BY <1>2 DEF DeletionInv
<1>8. RunsInv'
  BY <1>2 DEF StoreInv, RunsInv
<1>9. CompleteInv'
  BY <1>1, <1>2, <1>3, <1>4 DEF StoreInv, CompleteInv
<1>10. KeptInv'
  BY <1>1, <1>3, <1>4 DEF StoreInv, KeptInv, StoreTypeOK
<1>11. SoundInv'
  <2>1. \A r \in Run : r # subject => Staying(r)' = Staying(r)
    BY <1>2 DEF Staying, IdsOf
  <2> QED BY <1>1, <1>2, <1>3, <1>5, <2>1 DEF StoreInv, SoundInv
<1> QED BY <1>1, <1>6, <1>7, <1>8, <1>9, <1>10, <1>11 DEF StoreInv

LEMMA OpenIndexStep ==
  ASSUME StoreInv, open_index
  PROVE  StoreInv'
<1> USE DEF open_index
<1>1. /\ StoreTypeOK /\ StoreTypeOK' /\ run_of' = run_of /\ Checkpoint' = Checkpoint
      /\ NewCheckpoint' = NewCheckpoint /\ \A c : Outdated(c)' <=> Outdated(c)
      /\ \A c : HasMetadata(c)' <=> HasMetadata(c)
  BY OtherTypes, LeavesDirectories DEF Same
<1>2. index_file'.torn = TRUE /\ index_file'.ids = <<>> /\ Oldest' = Oldest
  BY DEF NoIndex, Oldest
<1>3. \A c : (Indexed(c)' <=> Indexed(c)) /\ ~OnDisk(c)'
  BY <1>2 DEF Indexed, OnDisk, IdsOf
<1>4. CreationInv'
  BY <1>1, <1>2, <1>3 DEF StoreInv, CreationInv
<1>5. DeletionInv'
  BY <1>1, <1>2, <1>3 DEF StoreInv, DeletionInv, IdsOf
<1>6. RunsInv'
  BY <1>2 DEF RunsInv
<1>7. CompleteInv'
  BY <1>1, <1>3 DEF StoreInv, CompleteInv
<1>8. KeptInv'
  BY <1>1, <1>2, <1>3 DEF StoreInv, KeptInv, StoreTypeOK
<1>9. SoundInv'
  <2>1. \A r : Staying(r)' = Staying(r)
    BY DEF Staying, IdsOf
  <2> QED BY <1>1, <1>3, <2>1 DEF StoreInv, SoundInv
<1> QED BY <1>1, <1>4, <1>5, <1>6, <1>7, <1>8, <1>9 DEF StoreInv

\* Pruning takes what has enough later ones, and is not the newest.
LEMMA PruningTakes ==
  ASSUME StoreInv, WrittenInv
  PROVE  \A c \in prune_run_checkpoints :
            c \in IdsOf(subject) /\ c \in Checkpoint /\ run_of[c] = subject /\ Outdated(c)
<1> DEFINE known == list_checkpoints_for_run(subject)
<1>1. StoreTypeOK
  BY DEF StoreInv
<1>2. \A c \in known : c \in IdsOf(subject) /\ c \in Checkpoint /\ run_of[c] = subject
  BY <1>1 DEF list_checkpoints_for_run, IdsOf, StoreTypeOK, IsIndex
<1>3. ASSUME NEW c \in known, Cardinality({d \in known : d > c}) >= MaxCheckpoints
      PROVE  Outdated(c)
  <2> DEFINE some == {d \in known : d > c}
             all  == {d \in written : d > c /\ run_of[d] = run_of[c]}
  <2>1. some \subseteq all
    BY <1>2 DEF WrittenInv, list_checkpoints_for_run
  <2>2. all \in SUBSET Checkpoint
    BY <1>1 DEF StoreTypeOK
  <2>3. Cardinality(some) <= Cardinality(all) /\ Cardinality(some) \in Nat /\ Cardinality(all) \in Nat
    <3> HIDE DEF some, all
    <3> QED BY <1>1, <2>1, <2>2, CheckpointFacts, FS_Subset, FS_CardinalityType
  <2>4. Cardinality(all) >= MaxCheckpoints
    <3> HIDE DEF some, all
    <3>1. Cardinality(some) >= MaxCheckpoints
      BY <1>3 DEF some
    <3> QED BY <2>3, <3>1, CheckpointAssumption
  <2> QED BY <2>4 DEF Outdated
<1>4. \A c \in prune_run_checkpoints :
        c \in known /\ Cardinality({d \in known : d > c}) >= MaxCheckpoints
  BY DEF prune_run_checkpoints
<1> HIDE DEF known
<1> QED BY <1>2, <1>3, <1>4

\* Without what is pruned there are not too many, if all have their metadata.
LEMMA PruningIsEnough ==
  ASSUME StoreInv, \A c \in IdsOf(subject) : HasMetadata(c)
  PROVE  Cardinality(IdsOf(subject) \ prune_run_checkpoints) <= MaxCheckpoints
<1> DEFINE ids == IdsOf(subject)
<1>1. ids \in SUBSET Checkpoint
  BY DEF StoreInv, StoreTypeOK, IsIndex, IdsOf
<1>2. ids \in SUBSET Nat /\ IsFiniteSet(ids) /\ Cardinality(ids) \in Nat
  BY <1>1, CheckpointFacts DEF StoreInv
<1>3. list_checkpoints_for_run(subject) = ids
  BY DEF list_checkpoints_for_run
<1>4. CASE Cardinality(ids) <= MaxCheckpoints
  <2>1. ids \ prune_run_checkpoints = ids
    BY <1>4 DEF prune_run_checkpoints
  <2> QED BY <1>4, <2>1
<1>5. CASE ~(Cardinality(ids) <= MaxCheckpoints)
  <2>1. prune_run_checkpoints = {c \in ids : Cardinality({d \in ids : d > c}) >= MaxCheckpoints}
    BY <1>3, <1>5 DEF prune_run_checkpoints
  <2> HIDE DEF ids
  <2>2. Cardinality(ids \ {c \in ids : Cardinality({d \in ids : d > c}) >= MaxCheckpoints}) <= MaxCheckpoints
    BY <1>2, PruningLeaves, CheckpointAssumption
  <2> QED BY <2>1, <2>2 DEF ids
<1> QED BY <1>4, <1>5

LEMMA SaveIndexStep ==
  ASSUME StoreInv, WrittenInv, save_index
  PROVE  StoreInv'
<1> USE DEF save_index
<1>1. /\ StoreTypeOK /\ StoreTypeOK' /\ run_of' = run_of /\ Checkpoint' = Checkpoint
      /\ NewCheckpoint' = NewCheckpoint /\ \A c : Outdated(c)' <=> Outdated(c)
      /\ \A c : HasMetadata(c)' <=> HasMetadata(c)
  BY OtherTypes, LeavesDirectories DEF Same
<1>2. index_file'.torn = FALSE /\ index_file'.ids = index
  OBVIOUS
<1>3. \A c : (Indexed(c)' <=> Indexed(c)) /\ (OnDisk(c)' <=> Indexed(c))
  BY <1>2 DEF Indexed, OnDisk, IdsOf
<1>4. \A c \in queue' : run_of[c] = subject /\ (use = "create" => Outdated(c))
  BY PruningTakes DEF StoreInv, CreationInv, DeletionInv
<1>5. CreationInv'
  BY <1>1, <1>3, <1>4 DEF StoreInv, CreationInv
<1>6. DeletionInv'
  <2>1. queue # {} => Oldest' = Oldest /\ ~Indexed(Oldest)
    BY DEF StoreInv, DeletionInv, Oldest
  <2>2. stage' = "rmtree" => queue' # {} /\ ~Indexed(Oldest)' /\ ~OnDisk(Oldest)'
    BY <2>1, <1>3 DEF Oldest
  <2>3. IdsOf(subject)' = IdsOf(subject)
    BY DEF IdsOf
  <2> QED BY <1>4, <2>2, <2>3, <1>1 DEF StoreInv, DeletionInv
<1>7. RunsInv'
  BY <1>2 DEF RunsInv
<1>8. CompleteInv'
  BY <1>1, <1>3 DEF StoreInv, CompleteInv
<1>9. KeptInv'
  BY <1>1, <1>2, <1>3 DEF StoreInv, KeptInv, StoreTypeOK
<1>10. SoundInv'
  <2> SUFFICES ASSUME failures = 0 PROVE SoundInv'
    BY DEF SoundInv
  <2>1. \A c \in Checkpoint : Indexed(c) => HasMetadata(c)
    BY DEF StoreInv, SoundInv
  <2>2. \A c \in IdsOf(subject) : c \in Checkpoint /\ run_of[c] = subject
    BY <1>1 DEF IdsOf, StoreTypeOK, IsIndex
  <2>3. \A c \in IdsOf(subject) : HasMetadata(c)
    BY <2>1, <2>2 DEF Indexed
  <2>4. \A r \in Run : Cardinality(Staying(r)') <= MaxCheckpoints
    <3> TAKE r \in Run
    <3>1. CASE use = "create" /\ r = subject /\ queue = {}
      <4>1. Staying(r)' = IdsOf(subject) \ prune_run_checkpoints
        BY <3>1 DEF Staying, IdsOf
      <4> QED BY <4>1, <2>3, PruningIsEnough
    <3>2. CASE ~(use = "create" /\ r = subject /\ queue = {})
      <4>1. Staying(r)' = Staying(r)
        BY <3>2 DEF Staying, IdsOf
      <4> QED BY <3>2, <4>1 DEF StoreInv, SoundInv
    <3> QED BY <3>1, <3>2
  <2> QED BY <1>1, <1>2, <1>3, <2>1, <2>4 DEF SoundInv
<1> QED BY <1>1, <1>5, <1>6, <1>7, <1>8, <1>9, <1>10 DEF StoreInv

LEMMA DeletesStep ==
  ASSUME StoreInv, NEW ids \in SUBSET Checkpoint, NEW u \in {"delete", "cleanup"}, NEW r \in Run,
         Deletes(ids, u, r), \A c \in ids : run_of[c] = r, u = "cleanup" => ids = IdsOf(r),
         StoreTypeOK', Same
  PROVE  StoreInv'
<1> USE DEF Deletes
<1>1. /\ StoreTypeOK /\ run_of' = run_of /\ Checkpoint' = Checkpoint
      /\ NewCheckpoint' = NewCheckpoint /\ \A c : Outdated(c)' <=> Outdated(c)
      /\ \A c : HasMetadata(c)' <=> HasMetadata(c)
  BY LeavesDirectories DEF Same
<1>2. stage = "idle" /\ queue = {}
  BY DEF StoreInv, DeletionInv
<1>3. \A c : (Indexed(c)' <=> Indexed(c)) /\ (OnDisk(c)' <=> OnDisk(c))
  BY <1>1 DEF Indexed, OnDisk, IdsOf
<1>4. CreationInv'
  BY DEF CreationInv
<1>5. DeletionInv'
  <2>1. u = "cleanup" => IdsOf(subject)' = ids
    BY DEF IdsOf
  <2> QED BY <1>1, <2>1 DEF DeletionInv
<1>6. RunsInv'
  BY <1>2 DEF StoreInv, RunsInv
<1>7. CompleteInv'
  BY <1>1, <1>3 DEF StoreInv, CompleteInv
<1>8. KeptInv'
  BY <1>1, <1>3 DEF StoreInv, KeptInv, StoreTypeOK
<1>9. SoundInv'
  <2>1. \A q : Staying(q)' = Staying(q)
    BY <1>2 DEF Staying, IdsOf
  <2> QED BY <1>1, <1>2, <1>3, <2>1 DEF StoreInv, SoundInv
<1> QED BY <1>4, <1>5, <1>6, <1>7, <1>8, <1>9 DEF StoreInv

\* What is under way to be deleted is not the checkpoint just created, and
\* nobody counts on it any more.
LEMMA OldestGoes ==
  ASSUME StoreInv, stage # "idle", queue # {}
  PROVE  /\ Oldest \in queue /\ Oldest \in Checkpoint /\ run_of[Oldest] = subject
         /\ use = "create" => Oldest # NewCheckpoint
         /\ Outdated(Oldest) \/ Oldest \in dropped
<1>1. StoreTypeOK /\ Oldest \in queue
  BY OldestIs DEF StoreInv
<1>2. Oldest \in Checkpoint /\ run_of[Oldest] = subject
  BY <1>1 DEF StoreInv, StoreTypeOK, DeletionInv
<1>3. use = "create" => Outdated(Oldest) /\ Oldest # NewCheckpoint
  BY <1>1, NewestIsNot DEF StoreInv, CreationInv
<1>4. use # "create" => Oldest \in dropped
  BY <1>1 DEF StoreInv, DeletionInv
<1> QED BY <1>1, <1>2, <1>3, <1>4

LEMMA DeleteBeginsStep ==
  ASSUME StoreInv, delete_begins
  PROVE  StoreInv'
<1> DEFINE o == Oldest
<1>1. /\ StoreTypeOK /\ StoreTypeOK' /\ run_of' = run_of /\ Checkpoint' = Checkpoint
      /\ NewCheckpoint' = NewCheckpoint /\ \A c : Outdated(c)' <=> Outdated(c)
      /\ \A c : HasMetadata(c)' <=> HasMetadata(c)
  BY OtherTypes, LeavesDirectories DEF Same, delete_begins
<1>2. /\ stage = "deletes" /\ queue # {} /\ dirs' = dirs /\ use' = use /\ subject' = subject
      /\ index_file' = index_file /\ returned' = returned /\ dropped' = dropped
      /\ failures' = failures /\ indexLost' = indexLost /\ runLost' = runLost
  BY DEF delete_begins
<1>3. /\ o \in queue /\ o \in Checkpoint /\ run_of[o] = subject
      /\ use = "create" => o # NewCheckpoint
      /\ Outdated(o) \/ o \in dropped
  BY <1>2, OldestGoes
<1>4. \A c : OnDisk(c)' <=> OnDisk(c)
  BY <1>1, <1>2 DEF OnDisk
<1>5. RunsInv'
  <2>1. DOMAIN index' = DOMAIN index
    BY DEF delete_begins
  <2> QED BY <1>2, <2>1 DEF StoreInv, RunsInv
<1>6. CASE dirs[o] = {}
  <2>1. index' = index /\ stage' = stage /\ queue' = queue \ {o}
    BY <1>6 DEF delete_begins
  <2>2. \A c : Indexed(c)' <=> Indexed(c)
    BY <1>1, <2>1 DEF Indexed, IdsOf
  <2> HIDE DEF o
  <2>3. CreationInv'
    BY <1>1, <1>2, <1>4, <2>1, <2>2 DEF StoreInv, CreationInv
  <2>4. DeletionInv'
    <3>1. IdsOf(subject)' = IdsOf(subject)
      BY <1>2, <2>1 DEF IdsOf
    <3> QED BY <1>1, <1>2, <2>1, <3>1 DEF StoreInv, DeletionInv
  <2>5. CompleteInv'
    BY <1>1, <1>2, <1>4, <2>2 DEF StoreInv, CompleteInv
  <2>6. KeptInv'
    BY <1>1, <1>2, <1>4, <2>2 DEF StoreInv, KeptInv, StoreTypeOK
  <2>7. SoundInv'
    <3> SUFFICES ASSUME failures = 0 PROVE SoundInv'
      BY <1>2 DEF SoundInv
    <3>1. ~Indexed(o)
      BY <1>3, <1>6 DEF StoreInv, SoundInv, HasMetadata
    <3>2. o \notin IdsOf(subject)
      BY <1>3, <3>1 DEF Indexed
    <3>3. \A r : Staying(r)' = Staying(r)
      BY <1>2, <2>1, <3>2 DEF Staying, IdsOf
    <3> QED BY <1>1, <1>2, <2>1, <2>2, <3>3 DEF StoreInv, SoundInv
  <2> QED BY <1>1, <1>5, <2>3, <2>4, <2>5, <2>6, <2>7 DEF StoreInv
<1>7. CASE dirs[o] # {} /\ HasMetadata(o) /\ subject \in DOMAIN index
  <2>1. index' = [index EXCEPT ![subject] = @ \ {o}] /\ stage' = "open" /\ queue' = queue
    BY <1>7 DEF delete_begins
  <2> HIDE DEF o
  <2>2. \A c \in Checkpoint : Indexed(c)' <=> (Indexed(c) /\ c # o)
    BY <1>1, <1>2, <1>3, <1>7, <2>1 DEF Indexed, IdsOf
  <2>3. IdsOf(subject)' = IdsOf(subject) \ {o} /\ \A r : r # subject => IdsOf(r)' = IdsOf(r)
    BY <1>2, <1>7, <2>1 DEF IdsOf
  <2>4. CreationInv'
    <3>1. use = "create" => NewCheckpoint \in Checkpoint
      BY <1>2, NewIsOne
    <3> QED BY <1>1, <1>2, <1>3, <1>4, <2>1, <2>2, <3>1 DEF StoreInv, CreationInv
  <2>5. DeletionInv'
    <3>1. Oldest' = o
      BY <2>1 DEF o, Oldest
    <3>2. ~Indexed(Oldest)'
      BY <1>1, <1>2, <1>3, <1>7, <2>1, <3>1 DEF Indexed, IdsOf
    <3>3. use = "cleanup" => IdsOf(subject)' \subseteq dropped
      BY <1>2, <2>3 DEF StoreInv, DeletionInv
    <3> QED BY <1>1, <1>2, <2>1, <3>2, <3>3 DEF StoreInv, DeletionInv
  <2>6. CompleteInv'
    BY <1>1, <1>2, <1>4, <2>2 DEF StoreInv, CompleteInv
  <2>7. KeptInv'
    BY <1>1, <1>2, <1>3, <1>4, <2>2 DEF StoreInv, KeptInv, StoreTypeOK
  <2>8. SoundInv'
    <3> SUFFICES ASSUME failures = 0 PROVE SoundInv'
      BY <1>2 DEF SoundInv
    <3>1. \A r \in Run : Cardinality(Staying(r)') <= MaxCheckpoints
      <4> TAKE r \in Run
      <4>1. Cardinality(Staying(r)) <= MaxCheckpoints
        BY <1>2 DEF StoreInv, SoundInv
      <4>2. Staying(r)' \subseteq Staying(r)
        BY <1>2, <2>1, <2>3 DEF Staying
      <4>3. Staying(r) \in SUBSET Checkpoint
        BY <1>1 DEF Staying, IdsOf, StoreTypeOK, IsIndex
      <4> DEFINE now == Staying(r)'
      <4>4. Cardinality(now) <= Cardinality(Staying(r)) /\ Cardinality(now) \in Nat /\ Cardinality(Staying(r)) \in Nat
        <5> HIDE DEF now
        <5>1. now \subseteq Staying(r)
          BY <4>2 DEF now
        <5> QED BY <1>1, <4>3, <5>1, CheckpointFacts, FS_Subset, FS_CardinalityType
      <4> HIDE DEF now
      <4>5. Cardinality(now) <= MaxCheckpoints
        BY <4>1, <4>4, CheckpointAssumption
      <4> QED BY <4>5 DEF now
    <3> QED BY <1>1, <1>2, <2>1, <2>2, <3>1 DEF StoreInv, SoundInv
  <2> QED BY <1>1, <1>5, <2>4, <2>5, <2>6, <2>7, <2>8 DEF StoreInv
<1>8. CASE dirs[o] # {} /\ ~(HasMetadata(o) /\ subject \in DOMAIN index)
  <2>1. index' = index /\ stage' = "rmtree" /\ queue' = queue
    BY <1>8 DEF delete_begins
  <2>2. \A c : Indexed(c)' <=> Indexed(c)
    BY <1>1, <2>1 DEF Indexed, IdsOf
  <2>3. CreationInv'
    BY <1>1, <1>2, <1>4, <2>1, <2>2 DEF StoreInv, CreationInv
  <2>4. DeletionInv'
    <3>1. IdsOf(subject)' = IdsOf(subject) /\ Oldest' = o
      BY <1>2, <2>1 DEF IdsOf, Oldest
    <3>2. HasMetadata(o) => ~Indexed(o) /\ (~runLost => ~OnDisk(o))
      BY <1>2, <1>3, <1>8 DEF StoreInv, RunsInv, Indexed, OnDisk, IdsOf
    <3>3. HasMetadata(Oldest)' => ~Indexed(Oldest)' /\ (~runLost => ~OnDisk(Oldest)')
      BY <1>1, <1>2, <1>4, <2>1, <2>2, <3>1, <3>2 DEF HasMetadata, Indexed, OnDisk, IdsOf
    <3> HIDE DEF o
    <3> QED BY <1>1, <1>2, <2>1, <3>1, <3>3 DEF StoreInv, DeletionInv
  <2> HIDE DEF o
  <2>5. CompleteInv'
    BY <1>1, <1>2, <1>4, <2>2 DEF StoreInv, CompleteInv
  <2>6. KeptInv'
    BY <1>1, <1>2, <1>4, <2>2 DEF StoreInv, KeptInv, StoreTypeOK
  <2>7. SoundInv'
    <3>1. \A r : Staying(r)' = Staying(r)
      BY <1>2, <2>1 DEF Staying, IdsOf
    <3> QED BY <1>1, <1>2, <2>1, <2>2, <3>1 DEF StoreInv, SoundInv
  <2> QED BY <1>1, <1>5, <2>3, <2>4, <2>5, <2>6, <2>7 DEF StoreInv
<1> QED BY <1>6, <1>7, <1>8

LEMMA RmtreeStep ==
  ASSUME StoreInv, rmtree
  PROVE  StoreInv'
<1> DEFINE o == Oldest
<1>1. /\ StoreTypeOK /\ StoreTypeOK' /\ run_of' = run_of /\ Checkpoint' = Checkpoint
      /\ NewCheckpoint' = NewCheckpoint /\ \A c : Outdated(c)' <=> Outdated(c)
  BY OtherTypes, SameCheckpoints DEF Same, StoreInv
<1>2. /\ stage = "rmtree" /\ use' = use /\ subject' = subject /\ index' = index
      /\ index_file' = index_file /\ returned' = returned /\ dropped' = dropped
      /\ failures' = failures /\ indexLost' = indexLost /\ runLost' = runLost
      /\ (stage' = "deletes" /\ queue' = queue \ {o}) \/ (stage' = stage /\ queue' = queue)
  BY DEF rmtree
<1>3. /\ o \in queue /\ o \in Checkpoint /\ run_of[o] = subject /\ queue # {}
      /\ use = "create" => o # NewCheckpoint
      /\ Outdated(o) \/ o \in dropped
      /\ HasMetadata(o) => ~Indexed(o) /\ (~runLost => ~OnDisk(o))
  BY <1>2, OldestGoes DEF StoreInv, DeletionInv
<1>4. \A c \in Checkpoint : /\ c # o => dirs'[c] = dirs[c]
                            /\ HasMetadata(c)' => HasMetadata(c)
                            /\ c # o => (HasMetadata(c)' <=> HasMetadata(c))
  BY DEF rmtree, HasMetadata, Checkpoint
<1>5. \A c : (Indexed(c)' <=> Indexed(c)) /\ (OnDisk(c)' <=> OnDisk(c))
  BY <1>1, <1>2 DEF Indexed, OnDisk, IdsOf
<1>6. CreationInv'
  <2> HIDE DEF o
  <2>1. use = "create" => NewCheckpoint \in Checkpoint
    BY <1>2, NewIsOne
  <2>2. Len(dirs') = Len(dirs)
    BY OtherTypes DEF Same, rmtree
  <2> QED BY <1>1, <1>2, <1>3, <1>4, <1>5, <2>1, <2>2 DEF StoreInv, CreationInv
<1>7. DeletionInv'
  <2>1. IdsOf(subject)' = IdsOf(subject)
    BY <1>2 DEF IdsOf
  <2>2. stage' = "rmtree" => Oldest' = o
    BY <1>2 DEF Oldest
  <2>3. stage' = "rmtree" /\ HasMetadata(Oldest)' => ~Indexed(Oldest)' /\ (~runLost => ~OnDisk(Oldest)')
    <3> SUFFICES ASSUME stage' = "rmtree", HasMetadata(Oldest)'
                 PROVE  ~Indexed(Oldest)' /\ (~runLost => ~OnDisk(Oldest)')
      OBVIOUS
    <3>1. HasMetadata(o)
      BY <1>3, <1>4, <2>2 DEF HasMetadata
    <3> QED BY <1>1, <1>2, <1>3, <2>2, <3>1 DEF Indexed, OnDisk, IdsOf
  <2> HIDE DEF o
  <2> QED BY <1>1, <1>2, <1>3, <2>1, <2>3 DEF StoreInv, DeletionInv
<1> HIDE DEF o
<1>8. RunsInv'
  BY <1>2 DEF StoreInv, RunsInv
<1>9. CompleteInv'
  BY <1>1, <1>2, <1>3, <1>4, <1>5 DEF StoreInv, CompleteInv
<1>10. KeptInv'
  BY <1>1, <1>2, <1>3, <1>4, <1>5 DEF StoreInv, KeptInv, StoreTypeOK
<1>11. SoundInv'
  <2> SUFFICES ASSUME failures = 0 PROVE SoundInv'
    BY <1>2 DEF SoundInv
  <2>1. ~Indexed(o)
    BY <1>3 DEF StoreInv, SoundInv
  <2>2. o \notin IdsOf(subject)
    BY <1>3, <2>1 DEF Indexed
  <2>3. \A r : Staying(r)' = Staying(r)
    BY <1>2, <2>2 DEF Staying, IdsOf
  <2> QED BY <1>1, <1>2, <1>4, <1>5, <2>1, <2>3 DEF StoreInv, SoundInv
<1> QED BY <1>1, <1>6, <1>7, <1>8, <1>9, <1>10, <1>11 DEF StoreInv

LEMMA DeletesDoneStep ==
  ASSUME StoreInv, deletes_done
  PROVE  StoreInv'
<1>1. /\ StoreTypeOK /\ StoreTypeOK' /\ run_of' = run_of /\ Checkpoint' = Checkpoint
      /\ NewCheckpoint' = NewCheckpoint /\ \A c : Outdated(c)' <=> Outdated(c)
      /\ \A c : HasMetadata(c)' <=> HasMetadata(c)
  BY OtherTypes, LeavesDirectories DEF Same, deletes_done
<1>2. /\ stage = "deletes" /\ queue = {} /\ queue' = queue /\ use' = use /\ subject' = subject
      /\ dirs' = dirs /\ index_file' = index_file /\ dropped' = dropped
      /\ failures' = failures /\ indexLost' = indexLost /\ runLost' = runLost
  BY DEF deletes_done
<1>3. \A c : OnDisk(c)' <=> OnDisk(c)
  BY <1>1, <1>2 DEF OnDisk
<1>4. CASE use = "cleanup" /\ subject \in DOMAIN index
  <2>1. /\ index' = [r \in DOMAIN index \ {subject} |-> index[r]]
        /\ stage' = "open" /\ returned' = returned
    BY <1>4 DEF deletes_done
  <2>2. \A c : Indexed(c)' <=> (Indexed(c) /\ run_of[c] # subject)
    BY <1>1, <2>1 DEF Indexed, IdsOf
  <2>3. IdsOf(subject)' = {} /\ \A r : r # subject => IdsOf(r)' = IdsOf(r)
    BY <1>2, <2>1 DEF IdsOf
  <2>4. \A c : Indexed(c) /\ run_of[c] = subject => c \in dropped
    BY <1>2, <1>4 DEF StoreInv, DeletionInv, Indexed
  <2>5. CreationInv'
    BY <1>2, <1>4 DEF CreationInv
  <2>6. DeletionInv'
    BY <1>1, <1>2, <1>4, <2>1, <2>3 DEF StoreInv, DeletionInv
  <2>7. RunsInv'
    <3>1. \A r \in DOMAIN index_file.ids : ~runLost => r \in DOMAIN index
      BY <1>2 DEF StoreInv, RunsInv
    <3> QED BY <1>2, <1>4, <2>1, <3>1 DEF RunsInv
  <2>8. CompleteInv'
    BY <1>1, <1>2, <1>3, <2>2 DEF StoreInv, CompleteInv
  <2>9. KeptInv'
    BY <1>1, <1>2, <1>3, <2>1, <2>2, <2>4 DEF StoreInv, KeptInv, StoreTypeOK
  <2>10. SoundInv'
    <3>1. \A r : r # subject => Staying(r)' = Staying(r)
      BY <1>2, <1>4, <2>3 DEF Staying
    <3>2. Cardinality(Staying(subject)') <= MaxCheckpoints
      <4>1. Staying(subject)' = {}
        BY <1>2, <1>4, <2>3 DEF Staying
      <4> QED BY <4>1, FS_EmptySet, CheckpointAssumption
    <3> QED BY <1>1, <1>2, <1>4, <2>1, <2>2, <3>1, <3>2 DEF StoreInv, SoundInv
  <2> QED BY <1>1, <2>5, <2>6, <2>7, <2>8, <2>9, <2>10 DEF StoreInv
<1>5. CASE ~(use = "cleanup" /\ subject \in DOMAIN index)
  <2>1. /\ index' = index /\ stage' = "idle"
        /\ returned' = IF use = "create" THEN returned \cup {NewCheckpoint} ELSE returned
    BY <1>5 DEF deletes_done
  <2>2. \A c : Indexed(c)' <=> Indexed(c)
    BY <1>1, <2>1 DEF Indexed, IdsOf
  <2>3. \A r : Staying(r)' = Staying(r)
    BY <1>2, <2>1 DEF Staying, IdsOf
  <2>4. use = "create" => /\ NewCheckpoint \in Checkpoint /\ HasMetadata(NewCheckpoint)
                          /\ Indexed(NewCheckpoint) /\ (index_file.torn \/ OnDisk(NewCheckpoint))
    BY <1>2, NewIsOne DEF StoreInv, CreationInv, HasMetadata, Part
  <2>5. CreationInv'
    BY <2>1 DEF CreationInv
  <2>6. DeletionInv'
    BY <1>1, <1>2, <2>1 DEF StoreInv, DeletionInv
  <2>7. RunsInv'
    BY <1>2, <2>1 DEF StoreInv, RunsInv
  <2>8. CompleteInv'
    BY <1>1, <1>2, <1>3, <2>2 DEF StoreInv, CompleteInv
  <2>9. KeptInv'
    BY <1>1, <1>2, <1>3, <2>1, <2>2, <2>4 DEF StoreInv, KeptInv, StoreTypeOK
  <2>10. SoundInv'
    BY <1>1, <1>2, <2>1, <2>2, <2>3 DEF StoreInv, SoundInv
  <2> QED BY <1>1, <2>5, <2>6, <2>7, <2>8, <2>9, <2>10 DEF StoreInv
<1> QED BY <1>4, <1>5

LEMMA FailsStep ==
  ASSUME StoreInv, store_fails
  PROVE  StoreInv'
<1>1. /\ StoreTypeOK /\ StoreTypeOK' /\ run_of' = run_of /\ Checkpoint' = Checkpoint
      /\ NewCheckpoint' = NewCheckpoint /\ \A c : Outdated(c)' <=> Outdated(c)
      /\ \A c : HasMetadata(c)' <=> HasMetadata(c)
  BY OtherTypes, LeavesDirectories DEF Same, store_fails
<1>2. /\ dirs' = dirs /\ use' = use /\ subject' = subject /\ index' = index
      /\ index_file' = index_file /\ returned' = returned /\ dropped' = dropped
      /\ indexLost' = indexLost /\ stage # "idle" /\ failures' = failures + 1
      /\ runLost' = (runLost \/ (stage = "open" /\ use = "cleanup" /\ queue = {}))
      /\ (queue # {} /\ stage' = "deletes" /\ queue' = queue \ {Oldest})
         \/ (queue = {} /\ stage' = "idle" /\ queue' = {})
  BY DEF store_fails
<1>3. \A c : (Indexed(c)' <=> Indexed(c)) /\ (OnDisk(c)' <=> OnDisk(c))
  BY <1>1, <1>2 DEF Indexed, OnDisk, IdsOf
<1>4. CreationInv'
  <2>1. Len(dirs') = Len(dirs) /\ (queue # {} => stage \notin {"parts", "index"})
    BY <1>2 DEF StoreInv, DeletionInv
  <2> QED BY <1>1, <1>2, <1>3, <2>1 DEF StoreInv, CreationInv
<1>5. DeletionInv'
  <2>1. IdsOf(subject)' = IdsOf(subject)
    BY <1>2 DEF IdsOf
  <2> QED BY <1>1, <1>2, <2>1 DEF StoreInv, DeletionInv
<1>6. RunsInv'
  BY <1>2 DEF StoreInv, RunsInv
<1>7. CompleteInv'
  BY <1>1, <1>2, <1>3 DEF StoreInv, CompleteInv
<1>8. KeptInv'
  BY <1>1, <1>2, <1>3 DEF StoreInv, KeptInv, StoreTypeOK
<1>9. SoundInv'
  <2>1. failures' # 0
    BY <1>1, <1>2 DEF StoreTypeOK
  <2> QED BY <2>1 DEF SoundInv
<1> QED BY <1>1, <1>4, <1>5, <1>6, <1>7, <1>8, <1>9 DEF StoreInv

LEMMA ReopenStep ==
  ASSUME StoreInv, reopen
  PROVE  StoreInv'
<1>1. /\ StoreTypeOK /\ StoreTypeOK' /\ run_of' = run_of /\ Checkpoint' = Checkpoint
      /\ NewCheckpoint' = NewCheckpoint /\ \A c : Outdated(c)' <=> Outdated(c)
      /\ \A c : HasMetadata(c)' <=> HasMetadata(c)
  BY OtherTypes, LeavesDirectories DEF Same, reopen
<1>2. /\ dirs' = dirs /\ use' = use /\ subject' = subject /\ index' = index_file.ids
      /\ index_file' = index_file /\ returned' = returned /\ dropped' = dropped
      /\ indexLost' = (indexLost \/ index_file.torn) /\ stage' = "idle" /\ queue' = {}
      /\ failures' = failures + 1 /\ runLost' = runLost
  BY DEF reopen
<1>3. \A c : (Indexed(c)' <=> OnDisk(c)) /\ (OnDisk(c)' <=> OnDisk(c))
  BY <1>1, <1>2 DEF Indexed, OnDisk, IdsOf
<1>4. CreationInv'
  BY <1>2 DEF CreationInv
<1>5. DeletionInv'
  BY <1>2 DEF DeletionInv
<1>6. RunsInv'
  BY <1>2 DEF RunsInv
<1>7. CompleteInv'
  BY <1>1, <1>2, <1>3 DEF StoreInv, CompleteInv
<1>8. KeptInv'
  BY <1>1, <1>2, <1>3 DEF StoreInv, KeptInv, StoreTypeOK
<1>9. SoundInv'
  <2>1. failures' # 0
    BY <1>1, <1>2 DEF StoreTypeOK
  <2> QED BY <2>1 DEF SoundInv
<1> QED BY <1>1, <1>4, <1>5, <1>6, <1>7, <1>8, <1>9 DEF StoreInv

----------------------------------------------------------------------------
LEMMA StoreInitially ==
  ASSUME StoreInit
  PROVE  StoreInv /\ WrittenInv
<1> USE DEF StoreInit
<1>1. subject \in Run
  BY CheckpointAssumption
<1>2. StoreTypeOK /\ Checkpoint = {} /\ index = <<>> /\ DOMAIN index = {}
  BY <1>1 DEF StoreTypeOK, IsIndex, Checkpoint, NoIndex
<1>3. SoundInv
  <2>1. \A r : Staying(r) = {}
    BY <1>2 DEF Staying, IdsOf
  <2>2. \A r \in Run : Cardinality(Staying(r)) <= MaxCheckpoints
    BY <2>1, FS_EmptySet, CheckpointAssumption
  <2> QED BY <1>2, <2>2 DEF SoundInv, NoIndex
<1> QED
  BY <1>2, <1>3
  DEF StoreInv, CreationInv, DeletionInv, RunsInv, CompleteInv, KeptInv, WrittenInv, NoIndex

\* Only the step that writes the metadata makes a checkpoint one that has it.
LEMMA WrittenStep ==
  ASSUME StoreInv, WrittenInv, [StoreNext]_storeVars
  PROVE  WrittenInv'
<1> SUFFICES ASSUME NEW c \in Checkpoint', HasMetadata(c)' PROVE c \in written'
  BY DEF WrittenInv
<1>1. CASE \E r \in Run : create_checkpoint(r)
  <2> PICK r \in Run : create_checkpoint(r)
    BY <1>1
  <2>1. /\ Checkpoint' = Checkpoint \cup {Len(dirs) + 1} /\ dirs'[Len(dirs) + 1] = {}
        /\ \A d \in Checkpoint : dirs'[d] = dirs[d]
    BY CreateTypes, CheckpointFacts DEF StoreInv, NewCheckpoint
  <2>2. c \in Checkpoint /\ HasMetadata(c)
    BY <2>1 DEF HasMetadata
  <2> QED BY <2>2 DEF WrittenInv, create_checkpoint
<1>2. CASE \E part \in Part : write_part(part)
  <2> PICK part \in Part : write_part(part)
    BY <1>2
  <2>1. Checkpoint' = Checkpoint
    BY DEF write_part, Checkpoint
  <2>2. CASE HasMetadata(c)
    BY <2>1, <2>2 DEF WrittenInv, write_part
  <2>3. CASE ~HasMetadata(c)
    <3>1. c = NewCheckpoint /\ part = "metadata"
      BY <2>1, <2>3 DEF HasMetadata, write_part, Checkpoint
    <3> QED BY <3>1 DEF write_part
  <2> QED BY <2>2, <2>3
<1>3. CASE rmtree
  <2>1. Checkpoint' = Checkpoint /\ dirs'[c] \subseteq dirs[c]
    BY <1>3 DEF rmtree, Checkpoint
  <2> QED BY <1>3, <2>1 DEF WrittenInv, HasMetadata, rmtree
<1>4. CASE dirs' = dirs /\ written' = written
  BY <1>4 DEF WrittenInv, HasMetadata, Checkpoint
<1> QED
  BY <1>1, <1>2, <1>3, <1>4
     DEF StoreNext, storeVars, cleanup_run, delete_checkpoint, Deletes, update_index, open_index,
         save_index, delete_begins, deletes_done, store_fails, reopen

LEMMA StoreStep ==
  ASSUME StoreInv, WrittenInv, [StoreNext]_storeVars
  PROVE  StoreInv'
<1>1. CASE \E r \in Run : create_checkpoint(r)
  BY <1>1, CreateStep
<1>2. CASE \E part \in Part : write_part(part)
  BY <1>2, WriteStep
<1>3. CASE \E r \in Run : cleanup_run(r)
  <2> PICK r \in Run : cleanup_run(r)
    BY <1>3
  <2>1. /\ IdsOf(r) \in SUBSET Checkpoint /\ \A c \in IdsOf(r) : run_of[c] = r
        /\ StoreTypeOK' /\ Same /\ Deletes(IdsOf(r), "cleanup", r)
    BY OtherTypes DEF cleanup_run, StoreInv, StoreTypeOK, IsIndex, IdsOf
  <2> QED BY <2>1, DeletesStep
<1>4. CASE \E c \in Checkpoint : delete_checkpoint(c)
  <2> PICK c \in Checkpoint : delete_checkpoint(c)
    BY <1>4
  <2>1. StoreTypeOK' /\ Same
    BY OtherTypes
  <2>2. {c} \in SUBSET Checkpoint /\ run_of[c] \in Run
    BY CheckpointFacts DEF StoreInv, StoreTypeOK
  <2>3. Deletes({c}, "delete", run_of[c])
    BY DEF delete_checkpoint
  <2> QED BY <2>1, <2>2, <2>3, DeletesStep
<1>5. CASE UNCHANGED storeVars
  <2> USE <1>5 DEF storeVars, StoreInv
  <2>1. /\ Checkpoint' = Checkpoint /\ NewCheckpoint' = NewCheckpoint /\ Oldest' = Oldest
        /\ \A r : IdsOf(r)' = IdsOf(r) /\ Staying(r)' = Staying(r)
        /\ \A c : (HasMetadata(c)' <=> HasMetadata(c)) /\ (Outdated(c)' <=> Outdated(c))
        /\ \A c : (Indexed(c)' <=> Indexed(c)) /\ (OnDisk(c)' <=> OnDisk(c))
    BY DEF Checkpoint, NewCheckpoint, Oldest, HasMetadata, Indexed, OnDisk, IdsOf, Outdated, Staying
  <2>2. StoreTypeOK'
    BY DEF StoreTypeOK, IsIndex, Checkpoint
  <2>3. CreationInv'
    BY <2>1 DEF CreationInv
  <2>4. DeletionInv'
    BY DEF DeletionInv, HasMetadata, Indexed, OnDisk, IdsOf, Oldest
  <2>5. RunsInv' /\ CompleteInv' /\ KeptInv'
    BY <2>1 DEF RunsInv, CompleteInv, KeptInv
  <2>6. SoundInv'
    BY <2>1 DEF SoundInv
  <2> QED BY <2>2, <2>3, <2>4, <2>5, <2>6
<1> QED
  BY <1>1, <1>2, <1>3, <1>4, <1>5, UpdateIndexStep, OpenIndexStep, SaveIndexStep, DeleteBeginsStep,
     RmtreeStep, DeletesDoneStep, FailsStep, ReopenStep
  DEF StoreNext

\* What the invariant says to a caller.
LEMMA InvariantServes ==
  ASSUME StoreInv
  PROVE  CheckpointsUsable
<1>1. StoreTypeOK
  BY DEF StoreInv
<1>2. \A c : c \in Listed <=> c \in Checkpoint /\ Indexed(c) /\ HasMetadata(c)
  BY <1>1, CheckpointFacts
     DEF Listed, list_checkpoints_for_run, Indexed, IdsOf, StoreTypeOK, IsIndex
<1>3. ~runLost => \A c \in Listed : dirs[c] = Part
  BY <1>2 DEF StoreInv, CompleteInv
<1>4. ~indexLost => \A c \in returned \ dropped : c \in Listed \/ Outdated(c)
  BY <1>1, <1>2 DEF StoreInv, KeptInv, StoreTypeOK
<1>5. stage = "idle" /\ failures = 0 =>
        \A r \in Run : Cardinality(IdsOf(r)) <= MaxCheckpoints /\ index_file.ids = index
  <2> SUFFICES ASSUME stage = "idle", failures = 0, NEW r \in Run
               PROVE  Cardinality(IdsOf(r)) <= MaxCheckpoints /\ index_file.ids = index
    OBVIOUS
  <2>1. Staying(r) = IdsOf(r)
    BY DEF StoreInv, DeletionInv, Staying
  <2> QED BY <2>1 DEF StoreInv, SoundInv
<1> QED BY <1>3, <1>4, <1>5 DEF CheckpointsUsable

\* The index lists checkpoints that were created, and the store is always at a
\* statement of one of its operations.
THEOREM StoreTypeCorrect == StoreSpec => []StoreTypeOK
<1>1. StoreInv => StoreTypeOK
  BY DEF StoreInv
<1>2. StoreInit => StoreInv /\ WrittenInv
  BY StoreInitially
<1>3. StoreInv /\ WrittenInv /\ [StoreNext]_storeVars => StoreInv' /\ WrittenInv'
  BY StoreStep, WrittenStep
<1> QED BY <1>1, <1>2, <1>3, PTL DEF StoreSpec

\* Whatever crashes or fails: a checkpoint that is listed is whole, one whose
\* creation returned is listed until it is deleted or superseded, and while
\* nothing fails no run keeps more than it may (create_checkpoint,
\* _prune_run_checkpoints, delete_checkpoint and cleanup_run of checkpoints.py).
THEOREM CheckpointsStayUsable == StoreSpec => []CheckpointsUsable
<1>1. StoreInit => StoreInv /\ WrittenInv
  BY StoreInitially
<1>2. StoreInv /\ WrittenInv /\ [StoreNext]_storeVars => StoreInv' /\ WrittenInv'
  BY StoreStep, WrittenStep
<1>3. StoreInv => CheckpointsUsable
  BY InvariantServes
<1> QED BY <1>1, <1>2, <1>3, PTL DEF StoreSpec

----------------------------------------------------------------------------
(* The files of the runs. *)

\* There are finitely many files, each with the time at which it was written;
\* a cleanup goes on only while nothing is saved, and what it has still to unlink
\* is older than KeepCount files that it will leave.
DiskInv ==
    /\ IsFiniteSet(DOMAIN disk) /\ saves \in Nat
    /\ \A r \in DOMAIN disk :
        "mtime" \in DOMAIN disk[r] /\ disk[r].mtime \in Nat /\ disk[r].mtime <= saves
    /\ saving => doomed = {}
    /\ doomed \subseteq DOMAIN disk
    /\ \A r \in doomed :
        Cardinality({q \in DOMAIN disk \ doomed : disk[q].mtime > disk[r].mtime}) >= KeepCount

\* A finite set has no more elements than one that holds it.
LEMMA EnoughElements ==
  ASSUME NEW S, NEW T, NEW n \in Nat, IsFiniteSet(T), S \subseteq T, Cardinality(S) >= n
  PROVE  Cardinality(T) >= n
<1>1. IsFiniteSet(S) /\ Cardinality(S) <= Cardinality(T)
  BY FS_Subset
<1>2. Cardinality(S) \in Nat /\ Cardinality(T) \in Nat
  BY <1>1, FS_CardinalityType
<1> QED BY <1>1, <1>2

\* Of runs that are saved one was saved last.
LEMMA LastSaved ==
  ASSUME DiskInv, NEW T, T \subseteq DOMAIN disk, T # {}
  PROVE  \E x \in T : \A y \in T : disk[y].mtime <= disk[x].mtime
<1> DEFINE Ages == {saves - disk[x].mtime : x \in T}
<1>1. \A x \in T : disk[x].mtime \in Nat /\ disk[x].mtime <= saves /\ saves \in Nat
  BY DEF DiskInv
<1>2. Ages \subseteq Nat /\ Ages # {}
  BY <1>1
<1>3. PICK a \in Ages : \A b \in Ages : ~(<<b, a>> \in OpToRel(<, Nat))
  <2> HIDE DEF Ages
  <2> QED BY <1>2, NatLessThanWellFounded, WFMin
<1>4. PICK x \in T : a = saves - disk[x].mtime
  OBVIOUS
<1>5. ASSUME NEW y \in T PROVE disk[y].mtime <= disk[x].mtime
  <2>1. saves - disk[y].mtime \in Ages /\ saves - disk[y].mtime \in Nat /\ a \in Nat
    BY <1>1, <1>2
  <2>2. ~(saves - disk[y].mtime < a)
    BY <1>3, <2>1 DEF OpToRel
  <2> QED BY <1>1, <1>4, <2>2
<1> QED BY <1>5

\* What lies beyond the KeepCount latest is older than so many that do not.
LEMMA BeyondIsOlder ==
  ASSUME DiskInv, NEW r \in Beyond
  PROVE  Cardinality({q \in DOMAIN disk \ Beyond : disk[q].mtime > disk[r].mtime}) >= KeepCount
<1> DEFINE later(x) == {q \in DOMAIN disk : disk[q].mtime > disk[x].mtime}
           kept     == {q \in DOMAIN disk \ Beyond : disk[q].mtime > disk[r].mtime}
<1>1. Beyond = {x \in DOMAIN disk : Cardinality(later(x)) >= KeepCount}
  BY DEF Beyond
<1>2. /\ \A x \in DOMAIN disk : disk[x].mtime \in Nat
      /\ IsFiniteSet(DOMAIN disk) /\ KeepCount \in Nat
  BY RunStateAssumption DEF DiskInv
<1>3. \A x \in DOMAIN disk : IsFiniteSet(later(x))
  <2> TAKE x \in DOMAIN disk
  <2>1. later(x) \subseteq DOMAIN disk
    OBVIOUS
  <2> HIDE DEF later
  <2> QED BY <1>2, <2>1, FS_Subset
<1>4. PICK x \in Beyond : \A y \in Beyond : disk[y].mtime <= disk[x].mtime
  <2>1. Beyond \subseteq DOMAIN disk /\ Beyond # {}
    BY <1>1
  <2> QED BY <2>1, LastSaved
<1>5. x \in DOMAIN disk /\ r \in DOMAIN disk /\ disk[r].mtime <= disk[x].mtime
  BY <1>1, <1>4
<1>6. \A q \in later(x) : q \notin Beyond
  BY <1>1, <1>2, <1>4, <1>5
<1>7. later(x) \subseteq kept
  BY <1>2, <1>5, <1>6
<1>8. IsFiniteSet(kept)
  <2>1. kept \subseteq DOMAIN disk
    OBVIOUS
  <2> HIDE DEF kept
  <2> QED BY <1>2, <2>1, FS_Subset
<1>9. Cardinality(later(x)) >= KeepCount
  BY <1>1
<1> HIDE DEF later, kept
<1>10. Cardinality(kept) >= KeepCount
  BY <1>2, <1>7, <1>8, <1>9, EnoughElements
<1> QED BY <1>10 DEF kept

\* The file goes, or stays because the unlink fails; either way it is passed.
LEMMA UnlinkStep ==
  ASSUME DiskInv, unlink_old_run
  PROVE  /\ DiskInv'
         /\ \A r \in DOMAIN disk \ DOMAIN disk' :
              Cardinality({q \in DOMAIN disk' : disk[q].mtime > disk[r].mtime}) >= KeepCount
<1> DEFINE kept(x)  == {q \in DOMAIN disk \ doomed : disk[q].mtime > disk[x].mtime}
           there(x) == {q \in DOMAIN disk' : disk[q].mtime > disk[x].mtime}
           keeps(x) == {q \in DOMAIN disk' \ doomed' : disk'[q].mtime > disk'[x].mtime}
<1>1. PICK r \in doomed :
        /\ doomed' = doomed \ {r} /\ UNCHANGED <<saves, saving>>
        /\ DOMAIN disk' = DOMAIN disk \ {r} \/ DOMAIN disk' = DOMAIN disk
        /\ \A q \in DOMAIN disk' : disk'[q] = disk[q]
  BY DEF unlink_old_run, Unlink
<1>2. /\ IsFiniteSet(DOMAIN disk) /\ doomed \subseteq DOMAIN disk /\ KeepCount \in Nat
      /\ \A x \in doomed : Cardinality(kept(x)) >= KeepCount
  BY RunStateAssumption DEF DiskInv
<1>3. IsFiniteSet(DOMAIN disk') /\ DOMAIN disk' \subseteq DOMAIN disk /\ doomed' \subseteq DOMAIN disk'
  BY <1>1, <1>2, FS_Subset
<1>4. ASSUME NEW x \in doomed
      PROVE  /\ IsFiniteSet(there(x)) /\ kept(x) \subseteq there(x)
             /\ IsFiniteSet(keeps(x)) /\ (x \in doomed' => kept(x) \subseteq keeps(x))
  <2>1. there(x) \subseteq DOMAIN disk' /\ keeps(x) \subseteq DOMAIN disk'
    OBVIOUS
  <2>2. kept(x) \subseteq there(x) /\ (x \in doomed' => kept(x) \subseteq keeps(x))
    BY <1>1, <1>2, <1>3
  <2> HIDE DEF there, keeps, kept
  <2> QED BY <1>3, <2>1, <2>2, FS_Subset
<1>5. \A x \in doomed : Cardinality(there(x)) >= KeepCount
  <2> HIDE DEF there, kept, keeps
  <2> QED BY <1>2, <1>4, EnoughElements
<1>6. \A x \in doomed' : Cardinality(keeps(x)) >= KeepCount
  <2> HIDE DEF there, kept, keeps
  <2> QED BY <1>1, <1>2, <1>4, EnoughElements
<1>7. DiskInv'
  BY <1>1, <1>3, <1>6 DEF DiskInv
<1> QED BY <1>1, <1>5, <1>7

LEMMA DiskStep ==
  ASSUME DiskInv, [RunStateNext]_runStateVars
  PROVE  DiskInv'
<1>1. ASSUME NEW s, open_state(s) PROVE DiskInv'
  <2> DEFINE made == [torn |-> TRUE, content |-> s, mtime |-> saves']
  <2>1. /\ disk' = [r \in DOMAIN disk \cup {s.run_id} |-> IF r = s.run_id THEN made ELSE disk[r]]
        /\ doomed' = {}
    BY <1>1 DEF open_state, Idle
  <2>2. IsFiniteSet(DOMAIN disk')
    <3>1. DOMAIN disk' = DOMAIN disk \cup {s.run_id}
      BY <2>1
    <3> QED BY <3>1, FS_AddElement DEF DiskInv
  <2>3. saves' = saves + 1 /\ saves' \in Nat /\ saves \in Nat
    BY <1>1 DEF open_state, DiskInv
  <2>4. "mtime" \in DOMAIN made /\ made.mtime \in Nat /\ made.mtime <= saves'
    BY <2>3
  <2> HIDE DEF made
  <2>5. \A r \in DOMAIN disk' :
          "mtime" \in DOMAIN disk'[r] /\ disk'[r].mtime \in Nat /\ disk'[r].mtime <= saves'
    BY <2>1, <2>3, <2>4 DEF DiskInv
  <2> QED BY <2>1, <2>2, <2>3, <2>5 DEF DiskInv
<1>2. ASSUME NEW id, Unlink(id), doomed = {}, doomed' = {} PROVE DiskInv'
  <2>1. DOMAIN disk' \subseteq DOMAIN disk /\ \A r \in DOMAIN disk' : disk'[r] = disk[r]
    BY <1>2 DEF Unlink
  <2>2. IsFiniteSet(DOMAIN disk')
    BY <2>1, FS_Subset DEF DiskInv
  <2> QED BY <1>2, <2>1, <2>2 DEF Unlink, DiskInv
<1>3. CASE write_state
  <2> USE <1>3 DEF write_state
  <2>1. DOMAIN disk' = DOMAIN disk /\ saves' = saves /\ doomed = {} /\ doomed' = {}
    BY DEF DiskInv
  <2>2. ASSUME NEW r \in DOMAIN disk
        PROVE  "mtime" \in DOMAIN disk'[r] /\ disk'[r].mtime = disk[r].mtime
    <3>1. "mtime" \in DOMAIN disk[r]
      BY DEF DiskInv
    <3>2. disk'[r] = IF r = state.run_id THEN [disk[r] EXCEPT !.torn = FALSE] ELSE disk[r]
      OBVIOUS
    <3> QED BY <3>1, <3>2
  <2> QED BY <2>1, <2>2 DEF DiskInv
<1>4. CASE cleanup_old_runs
  <2>1. doomed' = Beyond /\ UNCHANGED <<disk, saves, saving>> /\ ~saving /\ Beyond \subseteq DOMAIN disk
    BY <1>4 DEF cleanup_old_runs, Idle, Beyond
  <2>2. \A r \in Beyond :
          Cardinality({q \in DOMAIN disk \ Beyond : disk[q].mtime > disk[r].mtime}) >= KeepCount
    BY BeyondIsOlder
  <2> QED BY <2>1, <2>2 DEF DiskInv
<1>5. CASE unlink_old_run
  BY <1>5, UnlinkStep
<1>6. CASE forget
  BY <1>6 DEF forget, DiskInv
<1>7. CASE UNCHANGED <<disk, saves, saving, doomed>>
  BY <1>7 DEF DiskInv
<1>8. ASSUME NEW id, delete(id) PROVE DiskInv'
  <2>1. Unlink(id) /\ doomed = {} /\ doomed' = {}
    BY <1>8 DEF delete, Idle
  <2> QED BY <1>2, <2>1
<1> QED
  BY <1>1, <1>3, <1>4, <1>5, <1>6, <1>7, <1>8
  DEF RunStateNext, runStateVars, change, save, create, load

\* A cleanup unlinks none of the KeepCount runs that were saved last, whatever
\* the runs are called, however many there are, whichever unlinks fail and
\* wherever it is broken off (cleanup_old_runs of run_state.py).
THEOREM CleanupsKeepRecent == RunStateSpec => CleanupKeepsRecent
<1>1. RunStateInit => DiskInv
  BY FS_EmptySet DEF RunStateInit, DiskInv
<1>2. DiskInv /\ [RunStateNext]_runStateVars => DiskInv'
  BY DiskStep
<1>3. ASSUME DiskInv, RunStateNext, doomed # {}
      PROVE  \A r \in DOMAIN disk \ DOMAIN disk' :
                Cardinality({q \in DOMAIN disk' : disk[q].mtime > disk[r].mtime}) >= KeepCount
  <2>1. CASE unlink_old_run
    BY <1>3, <2>1, UnlinkStep
  <2>2. CASE disk' = disk
    BY <2>2
  <2> QED
    BY <1>3, <2>1, <2>2
    DEF RunStateNext, change, save, open_state, write_state, cleanup_old_runs, forget, create,
        load, delete, Idle, DiskInv
<1> QED BY <1>1, <1>2, <1>3, PTL DEF RunStateSpec, CleanupKeepsRecent

----------------------------------------------------------------------------
(* The memory: loading, changing and writing as one step. *)

\* What a writer is about to save is what the file holds, or an update of it.
Prepared(w) ==
    \/ data[w] = file.data
    \/ \E u \in Update, n \in 1..MaxUpdates : data[w] = Applied(file.data, u, n)

\* A writer that is fresh has made its data of what the file still holds; until
\* the disturbance there is one that writes at most, and nobody else is fresh.
MemoryInv ==
    /\ at \in [Writer -> {"new", "idle", "save", "write"}] /\ DOMAIN data = Writer
    /\ fresh \in [Writer -> BOOLEAN] /\ updates \in Nat /\ disturbed \in BOOLEAN
    /\ file.is = "missing" => file.data = default_memory
    /\ \A w \in Writer : at[w] = "save" /\ fresh[w] => Prepared(w)
    /\ ~disturbed => \A w \in Writer : at[w] = "write" =>
          /\ file = Emptied
          /\ \A v \in Writer : v # w => at[v] # "write" /\ (at[v] = "save" => ~fresh[v])

\* Where one writes, the memory is what it writes; where none does, what the file holds.
StoredIn(a, d, held) ==
    IF \E v \in Writer : a[v] = "write" THEN d[CHOOSE v \in Writer : a[v] = "write"] ELSE held

LEMMA StoredIsWritten ==
  ASSUME NEW a, NEW d, NEW held, NEW w \in Writer, a[w] = "write",
         \A v \in Writer : v # w => a[v] # "write"
  PROVE  StoredIn(a, d, held) = d[w]
<1>1. (CHOOSE v \in Writer : a[v] = "write") = w
  OBVIOUS
<1> QED BY <1>1 DEF StoredIn

LEMMA StoredIsRead ==
  ASSUME NEW a, NEW d, NEW held, \A v \in Writer : a[v] # "write"
  PROVE  StoredIn(a, d, held) = held
BY DEF StoredIn

\* A step of the others leaves it alone.
LEMMA StoredStays ==
  ASSUME MemoryInv, ~disturbed, NEW a, NEW d,
         \A v \in Writer : (a[v] = "write" <=> at[v] = "write") /\ (a[v] = "write" => d[v] = data[v])
  PROVE  StoredIn(a, d, file.data) = StoredIn(at, data, file.data)
<1>1. CASE \E w \in Writer : at[w] = "write"
  <2> PICK w \in Writer : at[w] = "write"
    BY <1>1
  <2>1. \A v \in Writer : v # w => at[v] # "write" /\ a[v] # "write"
    BY DEF MemoryInv
  <2> QED BY <2>1, StoredIsWritten
<1>2. CASE \A w \in Writer : at[w] # "write"
  BY <1>2, StoredIsRead
<1> QED BY <1>1, <1>2

LEMMA MemoryBegins == MemoryInit => MemoryInv
<1> SUFFICES ASSUME MemoryInit PROVE MemoryInv
  OBVIOUS
<1>1. /\ file.is = "missing" /\ file.data = default_memory
      /\ \A w \in Writer : at[w] = "new"
  BY DEF MemoryInit
<1>2. at \in [Writer -> {"new", "idle", "save", "write"}] /\ DOMAIN data = Writer
  BY DEF MemoryInit
<1>3. fresh \in [Writer -> BOOLEAN] /\ updates \in Nat /\ disturbed \in BOOLEAN
  BY DEF MemoryInit
<1> QED BY <1>1, <1>2, <1>3 DEF MemoryInv

LEMMA MemoryStep ==
  ASSUME MemoryInv, [MemoryNext]_memoryVars
  PROVE  MemoryInv'
<1> USE DEF MemoryInv
<1>1. ASSUME NEW w \in Writer, ensure_files(w) PROVE MemoryInv'
  <2> USE <1>1 DEF ensure_files
  <2>1. \A v \in Writer : at'[v] = "save" /\ fresh'[v] => Prepared(v)'
    BY DEF Prepared
  <2>2. file.is = "missing" => file # Emptied
    BY DEF Emptied
  <2> QED BY <2>1, <2>2
<1>2. ASSUME NEW w \in Writer, NEW u \in Update, begin_update(w, u) PROVE MemoryInv'
  <2>1. updates' \in 1..MaxUpdates /\ updates' \in Nat
    BY <1>2, MemoryBounds DEF begin_update
  <2>2. /\ at' \in [Writer -> {"new", "idle", "save", "write"}] /\ DOMAIN data' = Writer
        /\ fresh' \in [Writer -> BOOLEAN] /\ disturbed' \in BOOLEAN /\ file' = file
        /\ \A v \in Writer : v # w => at'[v] = at[v] /\ data'[v] = data[v] /\ fresh'[v] = fresh[v]
        /\ at[w] = "idle" /\ at'[w] \in {"idle", "save"}
        /\ ~disturbed' => ~disturbed /\ file.is # "torn"
    <3>1. /\ at[w] = "idle" /\ file' = file /\ fresh' = [fresh EXCEPT ![w] = TRUE]
          /\ disturbed' = (disturbed \/ file.is = "torn")
          /\ \E a \in {"idle", "save"} : at' = [at EXCEPT ![w] = a]
      BY <1>2 DEF begin_update, Finished
    <3>2. DOMAIN data' = Writer /\ \A v \in Writer : v # w => data'[v] = data[v]
      BY <1>2 DEF begin_update, Finished
    <3> QED BY <3>1, <3>2
  <2>3. at'[w] = "save" => data'[w] = Applied(file.data, u, updates')
    BY <1>2 DEF begin_update, Finished, load_memory
  <2>4. \A v \in Writer : at'[v] = "save" /\ fresh'[v] => Prepared(v)'
    BY <2>1, <2>2, <2>3 DEF Prepared
  <2>5. ~disturbed' => \A v \in Writer : at[v] # "write"
    BY <2>2 DEF Emptied
  <2> QED BY <2>1, <2>2, <2>4, <2>5
<1>3. ASSUME NEW w \in Writer, open_for_writing(w) PROVE MemoryInv'
  BY <1>3 DEF open_for_writing, Emptied
<1>4. ASSUME NEW w \in Writer, write_file(w) PROVE MemoryInv'
  BY <1>4 DEF write_file, Finished, Emptied
<1>5. ASSUME NEW w \in Writer, save_fails(w) PROVE MemoryInv'
  BY <1>5 DEF save_fails, Finished, Prepared
<1>6. ASSUME NEW w \in Writer, Crash(w) PROVE MemoryInv'
  BY <1>6 DEF Crash, Finished, Prepared
<1>7. CASE UNCHANGED memoryVars
  BY <1>7 DEF memoryVars, Prepared
<1> QED BY <1>1, <1>2, <1>3, <1>4, <1>5, <1>6, <1>7 DEF MemoryNext

LEMMA MemoryStores ==
  ASSUME MemoryInv, MemoryNext, ~disturbed'
  PROVE  \/ Stored' = Stored
         \/ \E u \in Update, n \in 1..MaxUpdates : Stored' = Applied(Stored, u, n)
         \/ \E w \in Writer : at[w] = "write" /\ at'[w] = "new" /\ Stored' = default_memory
<1> DEFINE Goal == \/ Stored' = Stored
                   \/ \E u \in Update, n \in 1..MaxUpdates : Stored' = Applied(Stored, u, n)
                   \/ \E w \in Writer : at[w] = "write" /\ at'[w] = "new" /\ Stored' = default_memory
           earlier == StoredIn(at, data, file.data)
           later  == StoredIn(at', data', file'.data)
<1>1. Stored = earlier /\ Stored' = later
  BY DEF Stored, StoredIn
<1> HIDE DEF earlier, later
<1>2. ~disturbed
  BY DEF MemoryNext, ensure_files, begin_update, open_for_writing, write_file, save_fails, Crash,
         MemoryInv
<1>3. ASSUME NEW w \in Writer,
             \/ ensure_files(w) \/ (\E u \in Update : begin_update(w, u))
             \/ Crash(w) /\ at[w] # "write"
      PROVE  later = earlier
  <2>1. file' = file
    BY <1>3 DEF ensure_files, begin_update, Crash
  <2>2. \A v \in Writer : /\ at'[v] = "write" <=> at[v] = "write"
                          /\ at'[v] = "write" => data'[v] = data[v]
    BY <1>3 DEF MemoryInv, ensure_files, begin_update, Crash, Finished
  <2> QED BY <1>2, <2>1, <2>2, StoredStays DEF earlier, later
<1>4. ASSUME NEW w \in Writer, open_for_writing(w) PROVE Goal
  <2>1. at[w] = "save" /\ fresh[w] /\ Prepared(w)
    BY <1>2, <1>4 DEF open_for_writing, MemoryInv
  <2>2. \A v \in Writer : at[v] # "write"
    BY <1>2, <2>1 DEF MemoryInv
  <2>3. at'[w] = "write" /\ (\A v \in Writer : v # w => at'[v] # "write") /\ data' = data
    BY <1>4, <2>2 DEF open_for_writing, MemoryInv
  <2>4. later = data[w] /\ earlier = file.data
    BY <2>2, <2>3, StoredIsWritten, StoredIsRead DEF earlier, later
  <2> QED BY <1>1, <2>1, <2>4 DEF Prepared
<1>5. ASSUME NEW w \in Writer, write_file(w) PROVE later = earlier
  <2>1. at[w] = "write" /\ file = Emptied /\ \A v \in Writer : v # w => at[v] # "write"
    BY <1>2, <1>5 DEF write_file, MemoryInv
  <2>2. file'.data = data[w]
    BY <1>5, <2>1 DEF write_file
  <2>3. \A v \in Writer : at'[v] # "write"
    BY <1>5, <2>1 DEF write_file, Finished, MemoryInv
  <2>4. later = file'.data
    BY <2>3, StoredIsRead DEF later
  <2>5. earlier = data[w]
    BY <2>1, StoredIsWritten DEF earlier
  <2> QED BY <2>2, <2>4, <2>5
<1>6. ASSUME NEW w \in Writer, save_fails(w) PROVE FALSE
  BY <1>6 DEF save_fails
<1>7. ASSUME NEW w \in Writer, Crash(w), at[w] = "write" PROVE Goal
  <2>1. file = Emptied /\ file' = file /\ at'[w] = "new" /\ \A v \in Writer : at'[v] # "write"
    BY <1>2, <1>7 DEF Crash, Finished, MemoryInv
  <2>2. later = default_memory
    BY <2>1, StoredIsRead DEF later, Emptied
  <2> QED BY <1>1, <1>7, <2>1, <2>2
<1> QED BY <1>1, <1>3, <1>4, <1>5, <1>6, <1>7 DEF MemoryNext

\* Every update of the memory file is one step to those who come after, for any
\* number of managers, until one writes over what it has not seen or a write
\* fails; only a manager that stops while it writes loses the memory
\* (_load_memory and _save_memory of memory.py, which take no lock).
THEOREM UpdatesAreAtomic == MemorySpec => StoreIsAtomic
<1>1. MemoryInit => MemoryInv
  BY MemoryBegins
<1>2. MemoryInv /\ [MemoryNext]_memoryVars => MemoryInv'
  BY MemoryStep
<1>3. MemoryInv /\ [MemoryNext]_memoryVars =>
        [~disturbed' =>
            \/ Stored' = Stored
            \/ \E u \in Update, n \in 1..MaxUpdates : Stored' = Applied(Stored, u, n)
            \/ \E w \in Writer : at[w] = "write" /\ at'[w] = "new" /\ Stored' = default_memory]_memoryVars
  BY MemoryStores
<1> QED BY <1>1, <1>2, <1>3, PTL DEF MemorySpec, StoreIsAtomic

----------------------------------------------------------------------------
(* Lists, their order and what is picked out of them. *)

\* An interval from one on.
LEMMA FromOneTo ==
  ASSUME NEW n \in Nat
  PROVE  IsFiniteSet(1..n) /\ Cardinality(1..n) = n
<1>1. 1 \in Int /\ n \in Int /\ n >= 0
  OBVIOUS
<1>2. IsFiniteSet(1..n) /\ Cardinality(1..n) = IF 1 > n THEN 0 ELSE n - 1 + 1
  BY <1>1, FS_Interval
<1> QED BY <1>1, <1>2

\* Induction, for a set of numbers.
LEMMA UpTo ==
  ASSUME NEW n \in Nat, NEW T, 0 \in T, \A i \in 1..n : i - 1 \in T => i \in T
  PROVE  \A i \in 0..n : i \in T
<1> DEFINE F == {i \in 0..n : i \notin T}
<1> SUFFICES ASSUME F # {} PROVE FALSE
  OBVIOUS
<1>1. F \subseteq Nat
  OBVIOUS
<1> HIDE DEF F
<1>2. PICK i \in F : \A j \in F : i <= j
  BY <1>1, LeastOfNat
<1>3. i \in 1..n /\ i - 1 \in 0..n /\ i \notin T
  BY DEF F
<1>4. i - 1 \notin F
  BY <1>2, <1>3
<1> QED BY <1>3, <1>4 DEF F

\* The places of a strict order are one for each rank.
Rank(I, R, i) == Cardinality({j \in I : <<j, i>> \in R})

StrictOrder(I, R) ==
    /\ \A i \in I : <<i, i>> \notin R
    /\ \A i, j \in I : i # j => <<i, j>> \in R \/ <<j, i>> \in R
    /\ \A i, j, k \in I : <<i, j>> \in R /\ <<j, k>> \in R => <<i, k>> \in R

LEMMA RanksAreDistinct ==
  ASSUME NEW I, IsFiniteSet(I), NEW R, StrictOrder(I, R)
  PROVE  /\ \A i \in I : Rank(I, R, i) \in 0..(Cardinality(I) - 1)
         /\ \A i, j \in I : <<i, j>> \in R => Rank(I, R, i) < Rank(I, R, j)
<1> DEFINE B(i) == {j \in I : <<j, i>> \in R}
<1>1. ASSUME NEW i \in I, NEW S, S \subseteq I, B(i) \cup {i} \subseteq S
      PROVE  Rank(I, R, i) \in Nat /\ Rank(I, R, i) < Cardinality(S) /\ Cardinality(S) \in Nat
  <2>1. IsFiniteSet(B(i)) /\ IsFiniteSet(S)
    BY <1>1, FS_Subset
  <2>2. i \notin B(i)
    BY DEF StrictOrder
  <2>3. Cardinality(B(i) \cup {i}) = Cardinality(B(i)) + 1
    BY <2>1, <2>2, FS_AddElement
  <2>4. Cardinality(B(i) \cup {i}) <= Cardinality(S)
    BY <1>1, <2>1, FS_Subset
  <2>5. Cardinality(B(i)) \in Nat /\ Cardinality(S) \in Nat
    BY <2>1, FS_CardinalityType
  <2> QED BY <2>3, <2>4, <2>5 DEF Rank
<1>2. ASSUME NEW i \in I PROVE Rank(I, R, i) \in 0..(Cardinality(I) - 1)
  <2>1. Rank(I, R, i) \in Nat /\ Rank(I, R, i) < Cardinality(I) /\ Cardinality(I) \in Nat
    BY <1>1
  <2> QED BY <2>1
<1>3. ASSUME NEW i \in I, NEW j \in I, <<i, j>> \in R PROVE Rank(I, R, i) < Rank(I, R, j)
  <2>1. B(i) \cup {i} \subseteq B(j)
    BY <1>3 DEF StrictOrder
  <2>2. Rank(I, R, i) < Cardinality(B(j))
    BY <1>1, <2>1
  <2> QED BY <2>2 DEF Rank
<1> QED BY <1>2, <1>3

\* Sorting and selecting only permute: what InOrder lists is s at the places of I,
\* each of them once.
LEMMA InOrderPermutes ==
  ASSUME NEW I, IsFiniteSet(I), NEW R, StrictOrder(I, R)
  PROVE  \E f \in Bijection(1..Cardinality(I), I) :
             \A s : InOrder(s, I, R) = [n \in 1..Cardinality(I) |-> s[f[n]]]
<1> DEFINE c == Cardinality(I)
           r == [i \in I |-> Rank(I, R, i) + 1]
<1>1. c \in Nat
  BY FS_CardinalityType
<1>2. r \in [I -> 1..c]
  BY <1>1, RanksAreDistinct
<1>3. ASSUME NEW i \in I, NEW j \in I, i # j PROVE r[i] # r[j]
  <2>1. Rank(I, R, i) # Rank(I, R, j)
    <3>1. <<i, j>> \in R \/ <<j, i>> \in R
      BY <1>3 DEF StrictOrder
    <3>2. Rank(I, R, i) \in 0..(c - 1) /\ Rank(I, R, j) \in 0..(c - 1)
      BY RanksAreDistinct
    <3>3. Rank(I, R, i) < Rank(I, R, j) \/ Rank(I, R, j) < Rank(I, R, i)
      BY <3>1, RanksAreDistinct
    <3> QED BY <1>1, <3>2, <3>3
  <2>2. Rank(I, R, i) \in Int /\ Rank(I, R, j) \in Int
    BY <1>1, RanksAreDistinct
  <2> QED BY <2>1, <2>2
<1>4. r \in Injection(I, 1..c)
  BY <1>2, <1>3 DEF Injection, IsInjective
<1>5. IsFiniteSet(1..c) /\ Cardinality(1..c) = c
  BY <1>1, FS_Interval
<1>6. r \in Surjection(I, 1..c)
  BY <1>4, <1>5, FS_Injection
<1> DEFINE f == [n \in 1..c |-> CHOOSE i \in I : Rank(I, R, i) = n - 1]
<1>7. ASSUME NEW n \in 1..c PROVE f[n] \in I /\ r[f[n]] = n
  <2>1. PICK i \in I : r[i] = n
    BY <1>6 DEF Surjection
  <2>2. Rank(I, R, i) = n - 1
    BY <1>1, <2>1, RanksAreDistinct
  <2>3. f[n] \in I /\ Rank(I, R, f[n]) = n - 1
    BY <2>2
  <2> QED BY <1>1, <2>3
<1>8. ASSUME NEW i \in I PROVE \E n \in 1..c : f[n] = i
  <2>1. r[i] \in 1..c
    BY <1>2
  <2>2. r[f[r[i]]] = r[i] /\ f[r[i]] \in I
    BY <1>7, <2>1
  <2> QED BY <1>3, <2>1, <2>2
<1>9. f \in Bijection(1..c, I)
  <2>1. f \in [1..c -> I]
    BY <1>7
  <2>2. \A m, n \in 1..c : f[m] = f[n] => m = n
    BY <1>7
  <2> HIDE DEF f
  <2> QED BY <1>8, <2>1, <2>2 DEF Bijection, Injection, Surjection, IsInjective
<1>10. ASSUME NEW s PROVE InOrder(s, I, R) = [n \in 1..c |-> s[f[n]]]
  BY DEF InOrder, Rank
<1> QED BY <1>9, <1>10

\* A list: a sequence of whatever is in it.
IsList(s) == s \in Seq(ToSet(s))

LEMMA ListIs ==
  ASSUME NEW s, NEW n \in Nat, s = [i \in 1..n |-> s[i]]
  PROVE  IsList(s) /\ Len(s) = n
<1>1. \A i \in 1..n : s[i] \in ToSet(s)
  BY DEF ToSet
<1>2. s \in [1..n -> ToSet(s)]
  BY <1>1
<1> QED BY <1>2 DEF IsList

LEMMA ListHas ==
  ASSUME NEW s, IsList(s)
  PROVE  /\ Len(s) \in Nat /\ DOMAIN s = 1..Len(s) /\ s = [i \in 1..Len(s) |-> s[i]]
         /\ IsFiniteSet(DOMAIN s) /\ Cardinality(DOMAIN s) = Len(s)
         /\ ToSet(s) = {s[i] : i \in 1..Len(s)}
<1>1. Len(s) \in Nat /\ DOMAIN s = 1..Len(s) /\ s = [i \in 1..Len(s) |-> s[i]]
  BY DEF IsList
<1>2. ToSet(s) = {s[i] : i \in 1..Len(s)}
  BY <1>1 DEF ToSet
<1>3. IsFiniteSet(1..Len(s)) /\ Cardinality(1..Len(s)) = Len(s)
  BY <1>1, FromOneTo
<1>4. IsFiniteSet(DOMAIN s) /\ Cardinality(DOMAIN s) = Len(s)
  BY <1>1, <1>3
<1> QED BY <1>1, <1>2, <1>4

LEMMA ListIn ==
  ASSUME NEW S, NEW s \in Seq(S)
  PROVE  IsList(s) /\ ToSet(s) \subseteq S
<1>1. Len(s) \in Nat /\ s = [i \in 1..Len(s) |-> s[i]] /\ \A i \in 1..Len(s) : s[i] \in S
  OBVIOUS
<1>2. IsList(s)
  BY <1>1, ListIs
<1>3. ToSet(s) = {s[i] : i \in 1..Len(s)}
  BY <1>2, ListHas
<1> QED BY <1>1, <1>2, <1>3

LEMMA ListOf ==
  ASSUME NEW S, NEW s, IsList(s), ToSet(s) \subseteq S
  PROVE  s \in Seq(S)
<1>1. s \in Seq(ToSet(s))
  BY DEF IsList
<1> QED BY <1>1

LEMMA Joined ==
  ASSUME NEW s, NEW t, IsList(s), IsList(t)
  PROVE  /\ IsList(s \o t) /\ ToSet(s \o t) = ToSet(s) \cup ToSet(t)
         /\ Len(s \o t) = Len(s) + Len(t)
<1>1. s \in Seq(ToSet(s) \cup ToSet(t)) /\ t \in Seq(ToSet(s) \cup ToSet(t))
  BY ListOf
<1>2. s \o t \in Seq(ToSet(s) \cup ToSet(t)) /\ Len(s \o t) = Len(s) + Len(t)
  BY <1>1, ConcatProperties
<1>3. IsList(s \o t) /\ ToSet(s \o t) \subseteq ToSet(s) \cup ToSet(t)
  BY <1>2, ListIn
<1>4. Len(s) \in Nat /\ Len(t) \in Nat
  BY ListHas
<1>5. ASSUME NEW i \in 1..Len(s) PROVE s[i] \in ToSet(s \o t)
  <2>1. (s \o t)[i] = s[i] /\ i \in 1..Len(s \o t)
    BY <1>1, <1>2, <1>4, ConcatProperties
  <2>2. ToSet(s \o t) = {(s \o t)[k] : k \in 1..Len(s \o t)}
    BY <1>3, ListHas
  <2> QED BY <2>1, <2>2
<1>6. ASSUME NEW i \in 1..Len(t) PROVE t[i] \in ToSet(s \o t)
  <2>1. (s \o t)[i + Len(s)] = t[i] /\ i + Len(s) \in 1..Len(s \o t)
    BY <1>1, <1>2, <1>4, ConcatProperties
  <2>2. ToSet(s \o t) = {(s \o t)[k] : k \in 1..Len(s \o t)}
    BY <1>3, ListHas
  <2> QED BY <2>1, <2>2
<1>7. ToSet(s) \subseteq ToSet(s \o t) /\ ToSet(t) \subseteq ToSet(s \o t)
  BY <1>5, <1>6, ListHas
<1> QED BY <1>2, <1>3, <1>7

LEMMA Appended ==
  ASSUME NEW s, NEW e, IsList(s)
  PROVE  /\ IsList(Append(s, e)) /\ ToSet(Append(s, e)) = ToSet(s) \cup {e}
         /\ Len(Append(s, e)) = Len(s) + 1 /\ Append(s, e)[Len(s) + 1] = e
         /\ \A i \in 1..Len(s) : Append(s, e)[i] = s[i]
<1>1. s \in Seq(ToSet(s) \cup {e})
  BY ListOf
<1> DEFINE t == Append(s, e)
<1>2. Len(s) \in Nat
  BY ListHas
<1>3. t \in Seq(ToSet(s) \cup {e}) /\ Len(t) = Len(s) + 1 /\ t[Len(s) + 1] = e
      /\ \A i \in 1..Len(s) : t[i] = s[i]
  BY <1>1, AppendProperties
<1> HIDE DEF t
<1>4. IsList(t) /\ ToSet(t) \subseteq ToSet(s) \cup {e} /\ ToSet(t) = {t[i] : i \in 1..Len(t)}
      /\ ToSet(s) = {s[i] : i \in 1..Len(s)}
  BY <1>3, ListIn, ListHas
<1>5. e \in ToSet(t)
  BY <1>2, <1>3, <1>4
<1>6. ASSUME NEW i \in 1..Len(s) PROVE s[i] \in ToSet(t)
  <2>1. i \in 1..Len(t) /\ t[i] = s[i]
    BY <1>2, <1>3
  <2> QED BY <1>4, <2>1
<1> QED BY <1>3, <1>4, <1>5, <1>6 DEF t

\* seq[-n:] is the list itself as long as it has at most n entries.
LEMMA LatestOf ==
  ASSUME NEW s, IsList(s), NEW n \in Nat
  PROVE  /\ IsList(Latest(s, n)) /\ ToSet(Latest(s, n)) \subseteq ToSet(s)
         /\ Len(s) <= n => Latest(s, n) = s
         /\ Len(Latest(s, n)) < n => Latest(s, n) = s
         /\ Len(Latest(s, n)) <= n /\ Len(Latest(s, n)) <= Len(s)
         /\ \A i \in 1..Len(Latest(s, n)) : \E j \in 1..Len(s) : Latest(s, n)[i] = s[j]
<1> DEFINE k == Max({1, Len(s) - n + 1})
           t == Latest(s, n)
<1>1. Len(s) \in Nat /\ s \in Seq(ToSet(s)) /\ s = [i \in 1..Len(s) |-> s[i]]
  BY ListHas DEF IsList
<1>2. k = IF Len(s) - n + 1 >= 1 THEN Len(s) - n + 1 ELSE 1
  <2>1. \E m \in {1, Len(s) - n + 1} : \A i \in {1, Len(s) - n + 1} : m >= i
    BY <1>1
  <2>2. k \in {1, Len(s) - n + 1} /\ \A i \in {1, Len(s) - n + 1} : k >= i
    BY <2>1 DEF Max
  <2> QED BY <1>1, <2>2
<1>3. t = SubSeq(s, k, Len(s))
  BY DEF Latest
<1> HIDE DEF k, t
<1>4. k \in 1..(Len(s) + 1)
  BY <1>1, <1>2
<1>5. t \in Seq(ToSet(s)) /\ Len(t) = Len(s) - k + 1 /\ \A i \in 1..(Len(s) - k + 1) : t[i] = s[k + i - 1]
  BY <1>1, <1>3, <1>4, SubSeqProperties
<1>6. IsList(t) /\ ToSet(t) \subseteq ToSet(s)
  BY <1>5, ListIn
<1>7. ASSUME k = 1 PROVE t = s
  <2>1. Len(t) = Len(s) /\ \A i \in 1..Len(s) : t[i] = s[i]
    BY <1>1, <1>5, <1>7
  <2> QED BY <1>1, <1>5, <2>1, SeqEqual
<1>8. ASSUME NEW i \in 1..Len(t) PROVE \E j \in 1..Len(s) : t[i] = s[j]
  <2>1. k + i - 1 \in 1..Len(s) /\ t[i] = s[k + i - 1]
    BY <1>1, <1>4, <1>5
  <2> QED BY <2>1
<1>9. Len(t) <= n /\ Len(t) <= Len(s) /\ (Len(s) <= n => k = 1) /\ (Len(t) < n => k = 1)
  BY <1>1, <1>2, <1>5
<1> QED BY <1>6, <1>7, <1>8, <1>9 DEF t

LEMMA MinIs ==
  ASSUME NEW I, I \subseteq Nat, I # {}
  PROVE  Min(I) \in I
<1>1. \E x \in I : \A y \in I : x <= y
  BY LeastOfNat
<1> QED BY <1>1 DEF Min

\* Sorting and selecting make lists of what is at the places of I.
LEMMA InOrderLists ==
  ASSUME NEW s, NEW I, IsFiniteSet(I), NEW R, StrictOrder(I, R)
  PROVE  /\ IsList(InOrder(s, I, R)) /\ Len(InOrder(s, I, R)) = Cardinality(I)
         /\ ToSet(InOrder(s, I, R)) = {s[i] : i \in I}
<1> DEFINE c == Cardinality(I)
           t == InOrder(s, I, R)
<1>1. PICK f \in Bijection(1..c, I) : \A u : InOrder(u, I, R) = [n \in 1..c |-> u[f[n]]]
  BY InOrderPermutes
<1>2. t = [n \in 1..c |-> s[f[n]]] /\ c \in Nat
  BY <1>1, FS_CardinalityType
<1>3. t = [n \in 1..c |-> t[n]]
  BY <1>2
<1> HIDE DEF t, c
<1>4. IsList(t) /\ Len(t) = c
  BY <1>2, <1>3, ListIs
<1>5. ToSet(t) = {t[n] : n \in 1..c}
  BY <1>4, ListHas
<1>6. \A n \in 1..c : t[n] = s[f[n]] /\ f[n] \in I
  BY <1>1, <1>2 DEF Bijection, Injection
<1>7. \A i \in I : \E n \in 1..c : f[n] = i
  BY <1>1 DEF Bijection, Surjection
<1>8. ToSet(t) = {s[i] : i \in I}
  BY <1>5, <1>6, <1>7
<1> QED BY <1>4, <1>8 DEF t, c

LEMMA ByPlace ==
  ASSUME NEW I, I \subseteq Int
  PROVE  StrictOrder(I, {p \in I \X I : p[1] < p[2]})
BY DEF StrictOrder

LEMMA UpsertedTo ==
  ASSUME NEW list, IsList(list), NEW new, IsList(new)
  PROVE  /\ IsList(Upserted(list, new)) /\ ToSet(Upserted(list, new)) = ToSet(list) \cup ToSet(new)
         /\ Len(list) <= Len(Upserted(list, new))
<1> DEFINE I == {i \in DOMAIN new : new[i] \notin ToSet(list)}
           R == {p \in I \X I : p[1] < p[2]}
           t == InOrder(new, I, R)
<1>1. I \subseteq DOMAIN new /\ IsFiniteSet(DOMAIN new) /\ DOMAIN new = 1..Len(new)
  BY ListHas
<1>2. IsFiniteSet(I) /\ I \subseteq Int
  BY <1>1, FS_Subset
<1>3. StrictOrder(I, R)
  BY <1>2, ByPlace
<1>4. Upserted(list, new) = list \o t
  BY DEF Upserted, Selected
<1>5. ToSet(list) \cup {new[i] : i \in I} = ToSet(list) \cup ToSet(new)
  BY <1>1, ListHas
<1> HIDE DEF I, R
<1>6. IsList(t) /\ ToSet(t) = {new[i] : i \in I}
  BY <1>2, <1>3, InOrderLists
<1> HIDE DEF t
<1>7. IsList(list \o t) /\ ToSet(list \o t) = ToSet(list) \cup ToSet(t) /\ Len(list \o t) = Len(list) + Len(t)
  BY <1>6, Joined
<1>8. Len(t) \in Nat /\ Len(list) \in Nat
  BY <1>6, ListHas
<1> QED BY <1>4, <1>5, <1>6, <1>7, <1>8

----------------------------------------------------------------------------
(* Patterns: merged and sorted they are as many occurrences as before. *)

\* What a pattern of the memory can be: it is called as an occurrence is.
PatternsOf(O) ==
    {p \in [id : {o.id : o \in O}, kind : {o.kind : o \in O}, words : {o.words : o \in O},
            tags : SUBSET UNION {o.tags : o \in O}, frequency : Nat \ {0}, last : Nat] :
        \E o \in O : p.id = o.id /\ p.kind = o.kind /\ p.words = o.words}

LEMMA NamedAfter ==
  ASSUME NEW O, NEW p \in PatternsOf(O)
  PROVE  \E o \in O : p.id = o.id /\ p.kind = o.kind /\ p.words = o.words
BY DEF PatternsOf

NoIdTwice(patterns) == IsInjective([i \in DOMAIN patterns |-> patterns[i].id])

LEMMA MoreUsedOrders ==
  ASSUME NEW O, NEW s, IsList(s), ToSet(s) \subseteq PatternsOf(O)
  PROVE  StrictOrder(DOMAIN s, {p \in (DOMAIN s) \X (DOMAIN s) :
                             \/ MoreUsed(s[p[1]], s[p[2]])
                             \/ ~MoreUsed(s[p[2]], s[p[1]]) /\ p[1] < p[2]})
<1>1. \A i \in DOMAIN s : s[i].frequency \in Nat /\ s[i].last \in Nat /\ i \in Int
  <2>1. \A i \in DOMAIN s : s[i] \in PatternsOf(O)
    BY DEF ToSet
  <2> QED BY <2>1, ListHas DEF PatternsOf
<1> DEFINE I == DOMAIN s
           R == {p \in I \X I : \/ MoreUsed(s[p[1]], s[p[2]])
                                \/ ~MoreUsed(s[p[2]], s[p[1]]) /\ p[1] < p[2]}
<1>2. \A i \in I : \A j \in I :
          <<i, j>> \in R <=> (MoreUsed(s[i], s[j]) \/ (~MoreUsed(s[j], s[i]) /\ i < j))
  OBVIOUS
<1> HIDE DEF I
<1>3. \A i \in I : <<i, i>> \notin R
  BY <1>1, <1>2 DEF MoreUsed, I
<1>4. \A i, j \in I : i # j => <<i, j>> \in R \/ <<j, i>> \in R
  BY <1>1, <1>2 DEF MoreUsed, I
<1>5. ASSUME NEW i \in I, NEW j \in I, NEW k \in I, <<i, j>> \in R, <<j, k>> \in R
      PROVE  <<i, k>> \in R
  BY <1>1, <1>2, <1>5 DEF MoreUsed, I
<1> HIDE DEF R
<1>6. StrictOrder(I, R)
  BY <1>3, <1>4, <1>5 DEF StrictOrder
<1> QED BY <1>6 DEF I, R

\* The sum of the frequencies, as a set of so many.
Units(patterns) == UNION {{i} \X (1..patterns[i].frequency) : i \in DOMAIN patterns}

Frequencies(s) == \A i \in DOMAIN s : s[i].frequency \in Nat

LEMMA UnitsFinite ==
  ASSUME NEW s, IsFiniteSet(DOMAIN s), Frequencies(s)
  PROVE  /\ IsFiniteSet(Units(s)) /\ Cardinality(Units(s)) \in Nat
         /\ Occurrences(s) = Cardinality(Units(s))
         /\ \A p : p \in Units(s) <=> \E i \in DOMAIN s : \E k \in 1..s[i].frequency : p = <<i, k>>
<1> DEFINE F == [i \in DOMAIN s |-> {i} \X (1..s[i].frequency)]
           S == {F[i] : i \in DOMAIN s}
<1>1. \A i \in DOMAIN s : IsFiniteSet(F[i])
  <2> SUFFICES ASSUME NEW i \in DOMAIN s PROVE IsFiniteSet({i} \X (1..s[i].frequency))
    OBVIOUS
  <2>1. s[i].frequency \in Nat
    BY DEF Frequencies
  <2>2. IsFiniteSet(1..s[i].frequency) /\ IsFiniteSet({i})
    BY <2>1, FromOneTo, FS_Singleton
  <2> QED BY <2>2, FS_Product
<1>2. F \in Surjection(DOMAIN s, S)
  <2>1. F \in [DOMAIN s -> S] /\ \A y \in S : \E i \in DOMAIN s : F[i] = y
    OBVIOUS
  <2> HIDE DEF F, S
  <2> QED BY <2>1 DEF Surjection
<1>3. IsFiniteSet(S)
  BY <1>2, FS_Surjection
<1>4. IsFiniteSet(UNION S)
  BY <1>1, <1>3, FS_UNION
<1>5. UNION S = Units(s)
  BY DEF Units
<1>6. IsFiniteSet(Units(s)) /\ Occurrences(s) = Cardinality(Units(s))
  BY <1>4, <1>5 DEF Occurrences, Units
<1>7. \A p : p \in Units(s) <=> \E i \in DOMAIN s : \E k \in 1..s[i].frequency : p = <<i, k>>
  BY DEF Units
<1> QED BY <1>6, <1>7, FS_CardinalityType

\* One pattern more: its frequency more.
LEMMA OccurrencesMore ==
  ASSUME NEW s, IsFiniteSet(DOMAIN s), Frequencies(s), NEW t, NEW e,
         e \notin DOMAIN s, DOMAIN t = DOMAIN s \cup {e}, t[e].frequency \in Nat,
         \A i \in DOMAIN s : t[i].frequency = s[i].frequency
  PROVE  Occurrences(t) = Occurrences(s) + t[e].frequency
<1> DEFINE N == {e} \X (1..t[e].frequency)
<1>1. IsFiniteSet(DOMAIN t) /\ Frequencies(t)
  BY FS_AddElement DEF Frequencies
<1>2. IsFiniteSet(N) /\ Cardinality(N) = t[e].frequency
  <2>1. IsFiniteSet(1..t[e].frequency) /\ Cardinality(1..t[e].frequency) = t[e].frequency
    BY FromOneTo
  <2>2. IsFiniteSet({e}) /\ Cardinality({e}) = 1
    BY FS_Singleton
  <2> DEFINE T == 1..t[e].frequency
  <2> HIDE DEF T
  <2>3. IsFiniteSet({e} \X T) /\ Cardinality({e} \X T) = Cardinality({e}) * Cardinality(T)
    BY <2>1, <2>2, FS_Product DEF T
  <2> QED BY <2>1, <2>2, <2>3 DEF T
<1>3. Units(t) = Units(s) \cup N
  <2>1. ASSUME NEW p PROVE p \in Units(t) <=> p \in Units(s) \cup N
    BY <1>1, UnitsFinite
  <2> QED BY <2>1
<1>4. Units(s) \cap N = {}
  BY UnitsFinite
<1> HIDE DEF N
<1>5. Cardinality(Units(t)) = Cardinality(Units(s)) + Cardinality(N) - Cardinality(Units(s) \cap N)
  BY <1>2, <1>3, UnitsFinite, FS_Union
<1>6. Cardinality(Units(s) \cap N) = 0
  BY <1>4, FS_EmptySet
<1>7. Occurrences(t) = Cardinality(Units(t)) /\ Occurrences(s) = Cardinality(Units(s))
      /\ Cardinality(Units(s)) \in Nat
  BY <1>1, UnitsFinite
<1> QED BY <1>2, <1>5, <1>6, <1>7

\* A frequency that grows: as much more.
LEMMA OccurrencesGrow ==
  ASSUME NEW s, IsFiniteSet(DOMAIN s), Frequencies(s), NEW t, NEW e \in DOMAIN s, NEW k \in Nat,
         DOMAIN t = DOMAIN s, t[e].frequency = s[e].frequency + k,
         \A i \in DOMAIN s \ {e} : t[i].frequency = s[i].frequency
  PROVE  Occurrences(t) = Occurrences(s) + k
<1> DEFINE R == DOMAIN s \ {e}
           r == [i \in R |-> s[i]]
<1>1. IsFiniteSet(R) /\ DOMAIN r = R /\ e \notin R /\ DOMAIN s = R \cup {e} /\ DOMAIN t = R \cup {e}
  BY FS_RemoveElement
<1>2. /\ \A i \in R : r[i].frequency = s[i].frequency /\ r[i].frequency = t[i].frequency
      /\ Frequencies(r) /\ s[e].frequency \in Nat /\ t[e].frequency \in Nat
  BY DEF Frequencies
<1> HIDE DEF r, R
<1>3. Occurrences(s) = Occurrences(r) + s[e].frequency
  BY <1>1, <1>2, OccurrencesMore
<1>4. Occurrences(t) = Occurrences(r) + t[e].frequency
  BY <1>1, <1>2, OccurrencesMore
<1>5. Occurrences(r) \in Nat
  BY <1>1, <1>2, UnitsFinite
<1> QED BY <1>2, <1>3, <1>4, <1>5

\* The order does not matter.
LEMMA OccurrencesPermuted ==
  ASSUME NEW s, IsFiniteSet(DOMAIN s), Frequencies(s), NEW t, NEW J, NEW f \in Bijection(J, DOMAIN s),
         t = [j \in J |-> s[f[j]]]
  PROVE  Occurrences(t) = Occurrences(s)
<1>1. f \in [J -> DOMAIN s] /\ (\A i, j \in J : f[i] = f[j] => i = j)
      /\ \A i \in DOMAIN s : \E j \in J : f[j] = i
  BY DEF Bijection, Injection, Surjection, IsInjective
<1>2. IsFiniteSet(J)
  BY FS_Injection DEF Bijection
<1>3. DOMAIN t = J /\ (\A j \in J : t[j].frequency = s[f[j]].frequency) /\ Frequencies(t)
  BY <1>1 DEF Frequencies
<1> DEFINE g == [p \in Units(t) |-> <<f[p[1]], p[2]>>]
<1>4. /\ \A p : p \in Units(t) <=> \E i \in J : \E k \in 1..s[f[i]].frequency : p = <<i, k>>
      /\ \A p : p \in Units(s) <=> \E i \in DOMAIN s : \E k \in 1..s[i].frequency : p = <<i, k>>
  <2>1. \A p : p \in Units(t) <=> \E i \in J : \E k \in 1..t[i].frequency : p = <<i, k>>
    BY <1>2, <1>3, UnitsFinite
  <2>2. \A p : p \in Units(s) <=> \E i \in DOMAIN s : \E k \in 1..s[i].frequency : p = <<i, k>>
    BY UnitsFinite
  <2> QED BY <1>3, <2>1, <2>2
<1>5. \A p \in Units(t) : g[p] \in Units(s)
  BY <1>1, <1>4
<1>6. \A p, q \in Units(t) : g[p] = g[q] => p = q
  BY <1>1, <1>4
<1>7. ASSUME NEW q \in Units(s) PROVE \E p \in Units(t) : g[p] = q
  <2>1. PICK i \in DOMAIN s : \E k \in 1..s[i].frequency : q = <<i, k>>
    BY <1>4
  <2>a. PICK k \in 1..s[i].frequency : q = <<i, k>>
    BY <2>1
  <2>2. PICK j \in J : f[j] = i
    BY <1>1
  <2>3. <<j, k>> \in Units(t)
    BY <1>4, <2>2
  <2>4. g[<<j, k>>] = q
    BY <2>a, <2>2, <2>3
  <2> QED BY <2>3, <2>4
<1>8. g \in [Units(t) -> Units(s)]
  BY <1>5
<1> HIDE DEF g
<1>9. g \in Bijection(Units(t), Units(s))
  BY <1>6, <1>7, <1>8 DEF Bijection, Injection, Surjection, IsInjective
<1>10. IsFiniteSet(Units(t)) /\ Occurrences(t) = Cardinality(Units(t)) /\ Occurrences(s) = Cardinality(Units(s))
  BY <1>2, <1>3, UnitsFinite
<1> QED BY <1>9, <1>10, FS_Bijection DEF ExistsBijection

\* There are no more patterns than occurrences.
LEMMA PatternsOccur ==
  ASSUME NEW s, IsList(s), \A i \in DOMAIN s : s[i].frequency \in Nat \ {0}
  PROVE  Len(s) <= Occurrences(s)
<1>1. IsFiniteSet(DOMAIN s) /\ Frequencies(s) /\ DOMAIN s = 1..Len(s) /\ Cardinality(DOMAIN s) = Len(s)
  BY ListHas DEF Frequencies
<1> DEFINE g == [i \in DOMAIN s |-> <<i, 1>>]
<1>2. \A i \in DOMAIN s : <<i, 1>> \in Units(s)
  <2>1. ASSUME NEW i \in DOMAIN s PROVE <<i, 1>> \in Units(s)
    <3>1. 1 \in 1..s[i].frequency
      OBVIOUS
    <3> QED BY <1>1, <3>1, UnitsFinite
  <2> QED BY <2>1
<1>3. g \in [DOMAIN s -> Units(s)] /\ \A i, j \in DOMAIN s : g[i] = g[j] => i = j
  BY <1>2
<1> HIDE DEF g
<1>4. g \in Injection(DOMAIN s, Units(s))
  BY <1>3 DEF Injection, IsInjective
<1>5. IsFiniteSet(Units(s)) /\ Occurrences(s) = Cardinality(Units(s))
  BY <1>1, UnitsFinite
<1> QED BY <1>1, <1>4, <1>5, FS_Injection

\* What a merged pattern is.
LEMMA MergedIs ==
  ASSUME NEW O, NEW q \in PatternsOf(O), NEW p \in PatternsOf(O)
  PROVE  /\ MergedInto(q, p) \in PatternsOf(O) /\ MergedInto(q, p).id = q.id
         /\ MergedInto(q, p).frequency = q.frequency + p.frequency
<1> DEFINE m == [id |-> q.id, kind |-> q.kind, words |-> q.words, tags |-> q.tags \cup p.tags,
                 frequency |-> q.frequency + p.frequency, last |-> Max({q.last, p.last})]
<1>1. Max({q.last, p.last}) \in Nat
  <2>1. q.last \in Nat /\ p.last \in Nat
    BY DEF PatternsOf
  <2>2. \E x \in {q.last, p.last} : \A y \in {q.last, p.last} : x >= y
    BY <2>1
  <2>3. Max({q.last, p.last}) \in {q.last, p.last}
    BY <2>2 DEF Max
  <2> QED BY <2>1, <2>3
<1>2. q.frequency + p.frequency \in Nat \ {0} /\ q.tags \cup p.tags \in SUBSET UNION {o.tags : o \in O}
  BY DEF PatternsOf
<1>3. m \in PatternsOf(O)
  BY <1>1, <1>2 DEF PatternsOf
<1>4. MergedInto(q, p) = m
  <2> DEFINE F == q.frequency + p.frequency
             G == q.tags \cup p.tags
             L == Max({q.last, p.last})
  <2>1. MergedInto(q, p) = [q EXCEPT !.frequency = F, !.tags = G, !.last = L]
    BY DEF MergedInto
  <2>2. q = [id |-> q.id, kind |-> q.kind, words |-> q.words, tags |-> q.tags,
             frequency |-> q.frequency, last |-> q.last]
    BY DEF PatternsOf
  <2> HIDE DEF F, G, L
  <2> DEFINE r == [q EXCEPT !.frequency = F, !.tags = G, !.last = L]
  <2>3. DOMAIN q = {"id", "kind", "words", "tags", "frequency", "last"}
    BY <2>2
  <2>4. r = [x \in DOMAIN q |-> IF x = "frequency" THEN F ELSE IF x = "tags" THEN G ELSE IF x = "last" THEN L ELSE q[x]]
    OBVIOUS
  <2>5. r = [id |-> q.id, kind |-> q.kind, words |-> q.words, tags |-> G, frequency |-> F, last |-> L]
    BY <2>3, <2>4
  <2> QED BY <2>1, <2>5 DEF F, G, L
<1> QED BY <1>3, <1>4

\* One step of the deduplication keeps the ids distinct, because what has the id
\* of an entry merges with it, and every occurrence.
LEMMA WithPatternIs ==
  ASSUME NEW O, NamedByContent(O), NEW kept \in Seq(PatternsOf(O)), NoIdTwice(kept),
         NEW p \in PatternsOf(O)
  PROVE  /\ WithPattern(kept, p) \in Seq(PatternsOf(O)) /\ NoIdTwice(WithPattern(kept, p))
         /\ Occurrences(WithPattern(kept, p)) = Occurrences(kept) + p.frequency
<1> DEFINE i == SelectInSeq(kept, LAMBDA e : Merges(e, p))
           I == {j \in 1..Len(kept) : Merges(kept[j], p)}
           t == WithPattern(kept, p)
<1>1. IsList(kept) /\ Len(kept) \in Nat /\ DOMAIN kept = 1..Len(kept) /\ IsFiniteSet(DOMAIN kept)
  BY ListIn, ListHas
<1>2. Frequencies(kept) /\ p.frequency \in Nat \ {0} /\ \A j \in 1..Len(kept) : kept[j].frequency \in Nat
  BY <1>1 DEF Frequencies, PatternsOf
<1>3. i = IF I # {} THEN Min(I) ELSE 0
  BY DEF SelectInSeq
<1>4. t = IF i = 0 THEN Append(kept, p) ELSE [kept EXCEPT ![i] = MergedInto(kept[i], p)]
  BY DEF WithPattern
<1>5. \A j, k \in 1..Len(kept) : kept[j].id = kept[k].id => j = k
  BY <1>1 DEF NoIdTwice, IsInjective
<1> HIDE DEF i, t
<1>6. CASE I = {}
  <2>1. t = Append(kept, p)
    BY <1>3, <1>4, <1>6
  <2>2. t \in Seq(PatternsOf(O)) /\ Len(t) = Len(kept) + 1 /\ t[Len(kept) + 1] = p
        /\ DOMAIN t = 1..(Len(kept) + 1) /\ \A j \in 1..Len(kept) : t[j] = kept[j]
    BY <1>1, <2>1, AppendProperties
  <2>3. ASSUME NEW j \in 1..Len(kept) PROVE kept[j].id # p.id
    <3>1. ~Merges(kept[j], p)
      BY <1>6
    <3>2. PICK o \in O : kept[j].id = o.id /\ kept[j].kind = o.kind /\ kept[j].words = o.words
      <4>1. kept[j] \in PatternsOf(O)
        OBVIOUS
      <4> QED BY <4>1, NamedAfter
    <3>3. PICK u \in O : p.id = u.id /\ p.kind = u.kind /\ p.words = u.words
      BY NamedAfter
    <3>4. kept[j].kind # p.kind \/ kept[j].words # p.words
      BY <3>1 DEF Merges
    <3> QED BY <3>2, <3>3, <3>4 DEF NamedByContent
  <2>4. \A j, k \in 1..(Len(kept) + 1) : t[j].id = t[k].id => j = k
    <3>1. \A j \in 1..(Len(kept) + 1) : j \in 1..Len(kept) \/ j = Len(kept) + 1
      BY <1>1
    <3> QED BY <1>5, <2>2, <2>3, <3>1
  <2>5. NoIdTwice(t)
    BY <2>2, <2>4 DEF NoIdTwice, IsInjective
  <2>6. Occurrences(t) = Occurrences(kept) + p.frequency
    <3>1. Len(kept) + 1 \notin DOMAIN kept /\ DOMAIN t = DOMAIN kept \cup {Len(kept) + 1}
      BY <1>1, <2>2
    <3>2. \A j \in DOMAIN kept : t[j].frequency = kept[j].frequency
      BY <1>1, <2>2
    <3> QED BY <1>1, <1>2, <2>2, <3>1, <3>2, OccurrencesMore
  <2> QED BY <2>2, <2>5, <2>6 DEF t
<1>7. CASE I # {}
  <2>1. i \in 1..Len(kept)
    BY <1>1, <1>3, <1>7, MinIs
  <2>2. t = [kept EXCEPT ![i] = MergedInto(kept[i], p)]
    BY <1>4, <2>1
  <2> DEFINE m == MergedInto(kept[i], p)
  <2>3. m \in PatternsOf(O) /\ m.id = kept[i].id /\ m.frequency = kept[i].frequency + p.frequency
    BY <2>1, MergedIs
  <2> HIDE DEF m
  <2>4. DOMAIN t = 1..Len(kept) /\ t \in Seq(PatternsOf(O)) /\ t[i] = m
        /\ \A j \in 1..Len(kept) \ {i} : t[j] = kept[j]
    BY <1>1, <2>1, <2>2, <2>3 DEF m
  <2>5. NoIdTwice(t)
    BY <1>5, <2>3, <2>4 DEF NoIdTwice, IsInjective
  <2>6. Occurrences(t) = Occurrences(kept) + p.frequency
    <3>1. \A j \in DOMAIN kept \ {i} : t[j].frequency = kept[j].frequency
      BY <1>1, <2>4
    <3>2. t[i].frequency = kept[i].frequency + p.frequency /\ DOMAIN t = DOMAIN kept /\ i \in DOMAIN kept
      BY <1>1, <2>1, <2>3, <2>4
    <3> QED BY <1>1, <1>2, <3>1, <3>2, OccurrencesGrow
  <2> QED BY <2>4, <2>5, <2>6 DEF t
<1> QED BY <1>6, <1>7

\* The lists of dedupe_patterns, one after each pattern.
LEMMA DedupedExists ==
  ASSUME NEW patterns, Len(patterns) \in Nat
  PROVE  \E f : /\ f = [n \in 0..Len(patterns) |->
                          IF n = 0 THEN <<>> ELSE WithPattern(f[n - 1], patterns[n])]
                /\ Deduped(patterns) = f[Len(patterns)]
<1> DEFINE Def(f, m) == f = [n \in 0..m |-> IF n = 0 THEN <<>> ELSE WithPattern(f[n - 1], patterns[n])]
           T == {m \in 0..Len(patterns) : \E f : Def(f, m)}
<1>1. 0 \in T
  <2>1. Def([n \in 0..0 |-> <<>>], 0)
    OBVIOUS
  <2> HIDE DEF Def
  <2>2. \E h : Def(h, 0)
    BY <2>1
  <2> QED BY <2>2
<1>2. ASSUME NEW m \in 1..Len(patterns), m - 1 \in T PROVE m \in T
  <2>1. PICK f : Def(f, m - 1)
    BY <1>2
  <2> DEFINE g == [n \in 0..m |-> IF n = m THEN WithPattern(f[m - 1], patterns[m]) ELSE f[n]]
  <2>2. Def(g, m)
    <3>1. ASSUME NEW n \in 0..m PROVE g[n] = IF n = 0 THEN <<>> ELSE WithPattern(g[n - 1], patterns[n])
      <4>1. CASE n = m
        BY <4>1
      <4>2. CASE n \in 0..(m - 1)
        <5>1. f[n] = IF n = 0 THEN <<>> ELSE WithPattern(f[n - 1], patterns[n])
          BY <2>1, <4>2
        <5> QED BY <4>2, <5>1
      <4> QED BY <4>1, <4>2
    <3> QED BY <3>1
  <2> HIDE DEF Def, g
  <2>3. \E h : Def(h, m)
    BY <2>2
  <2> QED BY <2>3
<1>3. \A m \in 1..Len(patterns) : m - 1 \in T => m \in T
  BY <1>2
<1> HIDE DEF T
<1>4. \A m \in 0..Len(patterns) : m \in T
  BY <1>1, <1>3, UpTo
<1>5. \E f : Def(f, Len(patterns))
  BY <1>4 DEF T
<1> DEFINE all == CHOOSE f : Def(f, Len(patterns))
<1>6. Def(all, Len(patterns))
  BY <1>5
<1>7. Deduped(patterns) = all[Len(patterns)]
  BY DEF Deduped
<1> QED BY <1>6, <1>7

LEMMA DedupedIs ==
  ASSUME NEW O, NamedByContent(O), NEW ps \in Seq(PatternsOf(O))
  PROVE  /\ Deduped(ps) \in Seq(PatternsOf(O)) /\ NoIdTwice(Deduped(ps))
         /\ Occurrences(Deduped(ps)) = Occurrences(ps)
<1> DEFINE P == PatternsOf(O)
           pre(n) == [i \in 1..n |-> ps[i]]
<1>1. IsList(ps) /\ Len(ps) \in Nat /\ ps = pre(Len(ps)) /\ \A i \in 1..Len(ps) : ps[i] \in P
  BY ListIn, ListHas
<1>2. PICK f : /\ f = [n \in 0..Len(ps) |->
                          IF n = 0 THEN <<>> ELSE WithPattern(f[n - 1], ps[n])]
               /\ Deduped(ps) = f[Len(ps)]
  BY <1>1, DedupedExists
<1> DEFINE Good(n) == f[n] \in Seq(P) /\ NoIdTwice(f[n]) /\ Occurrences(f[n]) = Occurrences(pre(n))
           T == {n \in 0..Len(ps) : Good(n)}
<1>3. 0 \in T
  <2>1. f[0] = <<>>
    BY <1>1, <1>2
  <2>2. pre(0) = <<>> /\ <<>> \in Seq(P) /\ DOMAIN <<>> = {}
    OBVIOUS
  <2>3. NoIdTwice(<<>>)
    BY <2>2 DEF NoIdTwice, IsInjective
  <2> HIDE DEF pre, P
  <2>4. Good(0)
    BY <2>1, <2>2, <2>3
  <2> HIDE DEF Good
  <2> QED BY <1>1, <2>4
<1>4. ASSUME NEW n \in 1..Len(ps), n - 1 \in T PROVE n \in T
  <2>1. f[n] = WithPattern(f[n - 1], ps[n])
    <3>1. n \in 0..Len(ps) /\ n # 0
      OBVIOUS
    <3> QED BY <1>2, <3>1
  <2>2. f[n - 1] \in Seq(P) /\ NoIdTwice(f[n - 1]) /\ Occurrences(f[n - 1]) = Occurrences(pre(n - 1))
    BY <1>4
  <2>3. ps[n] \in P
    BY <1>1
  <2>4. f[n] \in Seq(P) /\ NoIdTwice(f[n]) /\ Occurrences(f[n]) = Occurrences(pre(n - 1)) + ps[n].frequency
    BY <2>1, <2>2, <2>3, WithPatternIs
  <2>5. Occurrences(pre(n)) = Occurrences(pre(n - 1)) + ps[n].frequency
    <3> DEFINE s == pre(n - 1)
               t == pre(n)
    <3>1. DOMAIN s = 1..(n - 1) /\ DOMAIN t = 1..n /\ \A i \in 1..(n - 1) : i \in 1..Len(ps) /\ s[i] = ps[i] /\ t[i] = ps[i]
      BY <1>1
    <3>2. t[n] = ps[n] /\ n \notin DOMAIN s /\ DOMAIN t = DOMAIN s \cup {n}
      OBVIOUS
    <3>3. \A i \in 1..Len(ps) : ps[i].frequency \in Nat
      BY <1>1 DEF PatternsOf
    <3> HIDE DEF s, t
    <3>4. IsFiniteSet(DOMAIN s) /\ Frequencies(s)
      BY <3>1, <3>3, FromOneTo DEF Frequencies
    <3>5. t[n].frequency \in Nat /\ \A i \in DOMAIN s : t[i].frequency = s[i].frequency
      BY <3>1, <3>2, <3>3
    <3> HIDE DEF T, P, pre, Good
    <3>6. Occurrences(t) = Occurrences(s) + t[n].frequency
      BY <3>2, <3>4, <3>5, OccurrencesMore
    <3> QED BY <3>2, <3>6 DEF s, t
  <2> HIDE DEF pre
  <2> QED BY <2>4, <2>5
<1> HIDE DEF T
<1>5. \A n \in 1..Len(ps) : n - 1 \in T => n \in T
  BY <1>4
<1>6. \A n \in 0..Len(ps) : n \in T
  BY <1>1, <1>3, <1>5, UpTo
<1>7. Good(Len(ps))
  BY <1>1, <1>6 DEF T
<1> HIDE DEF pre
<1> QED BY <1>1, <1>2, <1>7

LEMMA SortedPatterns ==
  ASSUME NEW O, NEW s \in Seq(PatternsOf(O)), NoIdTwice(s)
  PROVE  /\ Sorted(s, MoreUsed) \in Seq(PatternsOf(O)) /\ NoIdTwice(Sorted(s, MoreUsed))
         /\ Occurrences(Sorted(s, MoreUsed)) = Occurrences(s)
         /\ Len(Sorted(s, MoreUsed)) = Len(s)
<1> DEFINE R == {p \in (DOMAIN s) \X (DOMAIN s) :
                             \/ MoreUsed(s[p[1]], s[p[2]])
                             \/ ~MoreUsed(s[p[2]], s[p[1]]) /\ p[1] < p[2]}
           t == InOrder(s, DOMAIN s, R)
           n == Len(s)
<1>1. Sorted(s, MoreUsed) = t
  BY DEF Sorted
<1>2. IsList(s) /\ ToSet(s) \subseteq PatternsOf(O)
  BY ListIn
<1>3. n \in Nat /\ DOMAIN s = 1..n /\ IsFiniteSet(DOMAIN s) /\ Cardinality(DOMAIN s) = n
      /\ \A i \in 1..n : s[i] \in PatternsOf(O)
  BY <1>2, ListHas
<1>4. StrictOrder(DOMAIN s, R)
  BY <1>2, MoreUsedOrders
<1> HIDE DEF R
<1>5. PICK f \in Bijection(1..n, DOMAIN s) : t = [i \in 1..n |-> s[f[i]]]
  <2>1. PICK f \in Bijection(1..Cardinality(DOMAIN s), DOMAIN s) :
            \A u : InOrder(u, DOMAIN s, R) = [i \in 1..Cardinality(DOMAIN s) |-> u[f[i]]]
    BY <1>3, <1>4, InOrderPermutes
  <2>2. f \in Bijection(1..n, DOMAIN s) /\ t = [i \in 1..n |-> s[f[i]]]
    BY <1>3, <2>1
  <2> HIDE DEF t, n
  <2> QED BY <2>2
<1> HIDE DEF t, n
<1>6. f \in [1..n -> 1..n] /\ \A i, j \in 1..n : f[i] = f[j] => i = j
  BY <1>3, <1>5 DEF Bijection, Injection, IsInjective
<1>7. \A i \in 1..n : t[i] = s[f[i]] /\ t[i] \in PatternsOf(O)
  BY <1>3, <1>5, <1>6
<1>8. t \in Seq(PatternsOf(O)) /\ Len(t) = n /\ DOMAIN t = 1..n
  BY <1>3, <1>5, <1>7
<1>9. NoIdTwice(t)
  <2>1. \A i, j \in 1..n : s[i].id = s[j].id => i = j
    BY <1>3 DEF NoIdTwice, IsInjective
  <2>2. ASSUME NEW i \in 1..n, NEW j \in 1..n, t[i].id = t[j].id PROVE i = j
    <3>1. t[i] = s[f[i]] /\ t[j] = s[f[j]]
      BY <1>7
    <3>2. f[i] \in 1..n /\ f[j] \in 1..n
      BY <1>6
    <3>3. f[i] = f[j]
      BY <2>1, <2>2, <3>1, <3>2
    <3> QED BY <1>6, <3>3
  <2> QED BY <1>8, <2>2 DEF NoIdTwice, IsInjective
<1>10. Frequencies(s)
  BY <1>3 DEF Frequencies, PatternsOf
<1>11. Occurrences(t) = Occurrences(s)
  BY <1>3, <1>5, <1>10, OccurrencesPermuted
<1> QED BY <1>1, <1>8, <1>9, <1>11 DEF n

\* The lists of patterns are trimmed to the maximum, and lose none as long as
\* there were no more occurrences than that.
LEMMA TrimmedIs ==
  ASSUME NEW O, NamedByContent(O), NEW ps \in Seq(PatternsOf(O))
  PROVE  /\ Trimmed(ps) \in Seq(PatternsOf(O)) /\ NoIdTwice(Trimmed(ps))
         /\ Occurrences(ps) <= MaxPatterns => Occurrences(Trimmed(ps)) = Occurrences(ps)
<1> DEFINE P == PatternsOf(O)
           last == Latest(ps, MaxPatterns)
           kept == Sorted(Deduped(last), MoreUsed)
           n == Min({MaxPatterns, Len(kept)})
<1>1. MaxPatterns \in Nat \ {0} /\ IsList(ps) /\ Len(ps) \in Nat /\ ToSet(ps) \subseteq P
  BY MemoryAssumption, ListIn, ListHas
<1>2. IsList(last) /\ ToSet(last) \subseteq ToSet(ps) /\ (Len(ps) <= MaxPatterns => last = ps)
  BY <1>1, LatestOf
<1>3. last \in Seq(P)
  BY <1>1, <1>2, ListOf
<1> HIDE DEF last
<1>4. kept \in Seq(P) /\ NoIdTwice(kept) /\ Occurrences(kept) = Occurrences(last)
  BY <1>3, DedupedIs, SortedPatterns
<1>5. Trimmed(ps) = SubSeq(kept, 1, n)
  BY DEF Trimmed, dedupe_patterns, last
<1> HIDE DEF kept
<1>6. IsList(kept) /\ Len(kept) \in Nat /\ DOMAIN kept = 1..Len(kept)
  BY <1>4, ListIn, ListHas
<1>7. (MaxPatterns <= Len(kept) => n = MaxPatterns) /\ (Len(kept) <= MaxPatterns => n = Len(kept))
  <2>1. \E m \in {MaxPatterns, Len(kept)} : \A i \in {MaxPatterns, Len(kept)} : m <= i
    BY <1>1, <1>6
  <2>2. n \in {MaxPatterns, Len(kept)} /\ \A i \in {MaxPatterns, Len(kept)} : n <= i
    BY <2>1 DEF Min
  <2> QED BY <1>1, <1>6, <2>2
<1> DEFINE t == SubSeq(kept, 1, n)
<1> HIDE DEF n
<1>8. n \in 0..Len(kept)
  BY <1>1, <1>6, <1>7
<1>9. t \in Seq(P) /\ Len(t) = n /\ \A i \in 1..n : t[i] = kept[i]
  BY <1>4, <1>6, <1>8, SubSeqProperties
<1>10. DOMAIN t = 1..n
  BY <1>9
<1>11. NoIdTwice(t)
  <2>1. \A i, j \in 1..Len(kept) : kept[i].id = kept[j].id => i = j
    BY <1>4, <1>6 DEF NoIdTwice, IsInjective
  <2>2. \A i \in 1..n : i \in 1..Len(kept)
    BY <1>8
  <2>3. \A i, j \in 1..n : t[i].id = t[j].id => i = j
    BY <1>9, <2>1, <2>2
  <2> QED BY <1>10, <2>3 DEF NoIdTwice, IsInjective
<1>12. ASSUME Occurrences(ps) <= MaxPatterns PROVE Occurrences(t) = Occurrences(ps)
  <2>1. \A s \in Seq(P) : \A i \in DOMAIN s : s[i].frequency \in Nat \ {0}
    BY DEF PatternsOf
  <2>2. \A s \in Seq(P) : Len(s) <= Occurrences(s) /\ Occurrences(s) \in Nat /\ Len(s) \in Nat
    <3> SUFFICES ASSUME NEW s \in Seq(P) PROVE Len(s) <= Occurrences(s) /\ Occurrences(s) \in Nat /\ Len(s) \in Nat
      OBVIOUS
    <3>1. IsList(s)
      BY ListIn
    <3>2. IsFiniteSet(DOMAIN s) /\ Frequencies(s)
      BY <2>1, <3>1, ListHas DEF Frequencies
    <3> QED BY <2>1, <3>1, <3>2, PatternsOccur, UnitsFinite
  <2> HIDE DEF P
  <2>3. Len(ps) <= MaxPatterns
    BY <1>1, <1>12, <2>2 DEF P
  <2>4. Occurrences(kept) = Occurrences(ps)
    BY <1>2, <1>4, <2>3
  <2>5. Len(kept) <= MaxPatterns
    BY <1>1, <1>4, <1>12, <2>2, <2>4
  <2>6. n = Len(kept)
    BY <1>1, <1>6, <1>7, <2>5
  <2>7. t = kept
    BY <1>4, <1>9, <2>6, SeqEqual
  <2> QED BY <2>4, <2>7
<1> QED BY <1>5, <1>9, <1>11, <1>12

\* The places find_similar_pattern holds for the best, one after each pattern.
LEMMA SimilarIsAPlace ==
  ASSUME NEW ps, Len(ps) \in Nat, NEW new
  PROVE  find_similar_pattern(ps, new) \in 0..Len(ps)
<1> DEFINE step(n, b) == IF (ps[n].kind = new.kind /\ Similar(ps[n], new)) /\ (b = 0 \/ Higher(ps[n], ps[b], new))
                         THEN n ELSE b
           Def(f, m) == f = [n \in 0..m |-> IF n = 0 THEN 0 ELSE step(n, f[n - 1])]
           T == {m \in 0..Len(ps) : \E f : Def(f, m)}
<1>1. 0 \in T
  <2>1. Def([n \in 0..0 |-> 0], 0)
    OBVIOUS
  <2> HIDE DEF Def
  <2>2. \E h : Def(h, 0)
    BY <2>1
  <2> QED BY <2>2
<1> HIDE DEF step
<1>2. ASSUME NEW m \in 1..Len(ps), m - 1 \in T PROVE m \in T
  <2>1. PICK f : Def(f, m - 1)
    BY <1>2
  <2> DEFINE g == [n \in 0..m |-> IF n = m THEN step(m, f[m - 1]) ELSE f[n]]
  <2>2. Def(g, m)
    <3>1. ASSUME NEW n \in 0..m PROVE g[n] = IF n = 0 THEN 0 ELSE step(n, g[n - 1])
      <4>1. CASE n = m
        BY <4>1
      <4>2. CASE n \in 0..(m - 1)
        <5>1. f[n] = IF n = 0 THEN 0 ELSE step(n, f[n - 1])
          BY <2>1, <4>2
        <5> QED BY <4>2, <5>1
      <4> QED BY <4>1, <4>2
    <3> QED BY <3>1
  <2> HIDE DEF Def, g
  <2>3. \E h : Def(h, m)
    BY <2>2
  <2> QED BY <2>3
<1>3. \A m \in 1..Len(ps) : m - 1 \in T => m \in T
  BY <1>2
<1> HIDE DEF T
<1>4. \A m \in 0..Len(ps) : m \in T
  BY <1>1, <1>3, UpTo
<1>5. \E f : Def(f, Len(ps))
  BY <1>4 DEF T
<1> DEFINE best == CHOOSE f : Def(f, Len(ps))
<1>6. Def(best, Len(ps))
  BY <1>5
<1>7. find_similar_pattern(ps, new) = best[Len(ps)]
  BY DEF find_similar_pattern, step
<1> HIDE DEF best
<1> DEFINE U == {m \in 0..Len(ps) : best[m] \in 0..Len(ps)}
<1>8. 0 \in U
  BY <1>6
<1>9. \A m \in 1..Len(ps) : m - 1 \in U => m \in U
  <2> SUFFICES ASSUME NEW m \in 1..Len(ps), m - 1 \in U PROVE best[m] \in 0..Len(ps)
    OBVIOUS
  <2>1. best[m] = step(m, best[m - 1])
    BY <1>6
  <2>2. step(m, best[m - 1]) \in {m, best[m - 1]}
    BY DEF step
  <2> QED BY <2>1, <2>2
<1> HIDE DEF U
<1>10. \A m \in 0..Len(ps) : m \in U
  BY <1>8, <1>9, UpTo
<1> QED BY <1>7, <1>10 DEF U

LEMMA RecordedIs ==
  ASSUME NEW O, NEW ps \in Seq(PatternsOf(O)), NEW new \in O, NEW now \in Nat
  PROVE  /\ Recorded(ps, new, now) \in Seq(PatternsOf(O))
         /\ Occurrences(Recorded(ps, new, now)) = Occurrences(ps) + 1
<1> DEFINE i == find_similar_pattern(ps, new)
           p == [id |-> new.id, kind |-> new.kind, tags |-> new.tags,
                 words |-> new.words, frequency |-> 1, last |-> now]
           t == Recorded(ps, new, now)
<1>1. IsList(ps) /\ Len(ps) \in Nat /\ DOMAIN ps = 1..Len(ps) /\ IsFiniteSet(DOMAIN ps)
      /\ \A j \in 1..Len(ps) : ps[j] \in PatternsOf(O)
  BY ListIn, ListHas
<1>2. i \in 0..Len(ps)
  BY <1>1, SimilarIsAPlace
<1>3. Frequencies(ps)
  BY <1>1 DEF Frequencies, PatternsOf
<1> HIDE DEF i
<1>4. CASE i = 0
  <2>1. t = Append(ps, p)
    BY <1>4 DEF Recorded, i
  <2>2. p \in PatternsOf(O) /\ p.frequency = 1
    <3>1. new.id \in {o.id : o \in O} /\ new.kind \in {o.kind : o \in O} /\ new.words \in {o.words : o \in O}
          /\ new.tags \in SUBSET UNION {o.tags : o \in O}
      OBVIOUS
    <3> QED BY <3>1 DEF PatternsOf
  <2> HIDE DEF p, t
  <2>3. t \in Seq(PatternsOf(O)) /\ DOMAIN t = 1..(Len(ps) + 1) /\ t[Len(ps) + 1] = p
        /\ \A j \in 1..Len(ps) : t[j] = ps[j]
    BY <1>1, <2>1, <2>2, AppendProperties
  <2>4. Len(ps) + 1 \notin DOMAIN ps /\ DOMAIN t = DOMAIN ps \cup {Len(ps) + 1}
    BY <1>1, <2>3
  <2>5. \A j \in DOMAIN ps : t[j].frequency = ps[j].frequency
    BY <1>1, <2>3
  <2>6. Occurrences(t) = Occurrences(ps) + 1
    BY <1>1, <1>3, <2>2, <2>3, <2>4, <2>5, OccurrencesMore
  <2> QED BY <2>3, <2>6 DEF t
<1>5. CASE i # 0
  <2>1. i \in 1..Len(ps)
    BY <1>1, <1>2, <1>5
  <2> DEFINE q == ps[i]
             F == q.frequency + 1
             r == [q EXCEPT !.frequency = F, !.last = now]
  <2>2. t = [ps EXCEPT ![i] = r]
    <3>1. t = [ps EXCEPT ![i].frequency = @ + 1, ![i].last = now]
      BY <1>5 DEF Recorded, i
    <3> QED BY <1>1, <2>1, <3>1
  <2>3. r \in PatternsOf(O) /\ r.frequency = q.frequency + 1
    <3>1. q \in PatternsOf(O) /\ q = [id |-> q.id, kind |-> q.kind, words |-> q.words, tags |-> q.tags,
             frequency |-> q.frequency, last |-> q.last] /\ F \in Nat \ {0}
      BY <1>1, <2>1 DEF PatternsOf
    <3> HIDE DEF F, q
    <3>2. DOMAIN q = {"id", "kind", "words", "tags", "frequency", "last"}
      BY <3>1
    <3>3. r = [x \in DOMAIN q |-> IF x = "frequency" THEN F ELSE IF x = "last" THEN now ELSE q[x]]
      OBVIOUS
    <3>4. r = [id |-> q.id, kind |-> q.kind, words |-> q.words, tags |-> q.tags, frequency |-> F, last |-> now]
      BY <3>2, <3>3
    <3> HIDE DEF r
    <3>5. r \in PatternsOf(O)
      BY <3>1, <3>4 DEF PatternsOf
    <3> QED BY <3>4, <3>5 DEF F
  <2> HIDE DEF r, t
  <2>4. t \in Seq(PatternsOf(O)) /\ DOMAIN t = 1..Len(ps) /\ t[i] = r
        /\ \A j \in 1..Len(ps) \ {i} : t[j] = ps[j]
    BY <1>1, <2>1, <2>2, <2>3
  <2>5. i \in DOMAIN ps /\ DOMAIN t = DOMAIN ps /\ t[i].frequency = ps[i].frequency + 1
        /\ \A j \in DOMAIN ps \ {i} : t[j].frequency = ps[j].frequency
    BY <1>1, <2>1, <2>3, <2>4
  <2>6. Occurrences(t) = Occurrences(ps) + 1
    BY <1>1, <1>3, <2>5, OccurrencesGrow
  <2> QED BY <2>4, <2>6 DEF t
<1> QED BY <1>4, <1>5

----------------------------------------------------------------------------
(* The memory as data: each operation keeps it well made. *)

Closed(d) ==
    Len(d.nodes) < MaxNodes => \A e \in ToSet(d.edges) : ToSet(e) \subseteq ToSet(d.nodes)

ToolSignals == [key : {u.tool : u \in {v \in Update : v.op = "tool"}}, success : Nat, failure : Nat]

NoKeyTwice(signals) == \A i, j \in DOMAIN signals : signals[i].key = signals[j].key => i = j

Reflections == [quality : {u.quality : u \in {v \in Update : v.op = "reflection"}}, time : Nat]

\* A memory as the operations make it, whatever was written over what; in between
\* the changes of one success an id may be there twice.
Recording(d) ==
    /\ DOMAIN d = DOMAIN default_memory
    /\ d.failure_patterns \in Seq(PatternsOf(Failure))
    /\ d.success_patterns \in Seq(PatternsOf(Change))
    /\ d.tool_signals \in Seq(ToolSignals) /\ NoKeyTwice(d.tool_signals)
    /\ d.meta_reflections \in Seq(Reflections)
    /\ IsList(d.nodes) /\ IsList(d.edges) /\ Closed(d)

DataOK(d) == Recording(d) /\ NoIdTwice(d.failure_patterns) /\ NoIdTwice(d.success_patterns)

\* Two memories that differ elsewhere only.
SameSignals(d, e) ==
    e.tool_signals = d.tool_signals /\ e.meta_reflections = d.meta_reflections
SamePatterns(d, e) ==
    e.failure_patterns = d.failure_patterns /\ e.success_patterns = d.success_patterns
SameFacts(d, e) ==
    e.facts = d.facts /\ e.preferences = d.preferences

LEMMA FieldsAre ==
  DOMAIN default_memory = {"facts", "preferences", "failure_patterns", "success_patterns",
     "task_outcomes", "test_signals", "tool_signals", "meta_reflections", "nodes", "edges", "decisions"}
BY DEF default_memory

LEMMA DefaultOK == DataOK(default_memory)
<1>1. /\ default_memory.failure_patterns = <<>> /\ default_memory.success_patterns = <<>>
      /\ default_memory.tool_signals = <<>> /\ default_memory.meta_reflections = <<>>
      /\ default_memory.nodes = <<>> /\ default_memory.edges = <<>>
  BY DEF default_memory
<1>2. NoIdTwice(<<>>) /\ NoKeyTwice(<<>>)
  BY DEF NoIdTwice, NoKeyTwice, IsInjective
<1>3. IsList(<<>>) /\ ToSet(<<>>) = {}
  BY DEF IsList, ToSet
<1>4. Closed(default_memory)
  BY <1>1, <1>3 DEF Closed
<1> QED BY <1>1, <1>2, <1>3, <1>4 DEF DataOK, Recording

LEMMA EdgesAre ==
  ASSUME NEW path, IsList(path)
  PROVE  IsList(EdgesOf(path)) /\ \A e \in ToSet(EdgesOf(path)) : ToSet(e) \subseteq ToSet(path)
<1> DEFINE n == Len(path)
           t == EdgesOf(path)
<1>1. n \in Nat /\ ToSet(path) = {path[i] : i \in 1..n}
  BY ListHas
<1> HIDE DEF n
<1>2. t = [i \in 1..(n - 1) |-> <<path[i], path[i + 1]>>]
  BY DEF EdgesOf, n
<1> HIDE DEF t
<1>3. IsList(t)
  <2>1. CASE n = 0
    <3>1. t = [i \in 1..0 |-> t[i]]
      BY <1>2, <2>1
    <3> QED BY <3>1, ListIs
  <2>2. CASE n # 0
    <3>1. n - 1 \in Nat /\ t = [i \in 1..(n - 1) |-> t[i]]
      BY <1>1, <1>2, <2>2
    <3> QED BY <3>1, ListIs
  <2> QED BY <2>1, <2>2
<1>4. ASSUME NEW e \in ToSet(t) PROVE ToSet(e) \subseteq ToSet(path)
  <2>1. PICK i \in 1..(n - 1) : e = <<path[i], path[i + 1]>>
    BY <1>2 DEF ToSet
  <2>2. ToSet(e) = {path[i], path[i + 1]}
    <3>1. DOMAIN e = {1, 2} /\ e[1] = path[i] /\ e[2] = path[i + 1]
      BY <2>1
    <3> QED BY <3>1 DEF ToSet
  <2>3. i \in 1..n /\ i + 1 \in 1..n
    BY <1>1
  <2> QED BY <1>1, <2>2, <2>3
<1> QED BY <1>3, <1>4 DEF t

\* A path is entered with all its nodes.
LEMMA LinkedIs ==
  ASSUME NEW d, Recording(d), NEW path, IsList(path)
  PROVE  /\ Recording(Linked(d, path)) /\ SameSignals(d, Linked(d, path))
         /\ SamePatterns(d, Linked(d, path)) /\ SameFacts(d, Linked(d, path))
<1> DEFINE e == Linked(d, path)
           N == Upserted(d.nodes, path)
           E == Upserted(d.edges, EdgesOf(path))
<1>1. e = [d EXCEPT !.nodes = N, !.edges = E]
  BY DEF Linked
<1>2. DOMAIN d = DOMAIN default_memory
  BY DEF Recording
<1> HIDE DEF e, N, E
<1>3. DOMAIN e = DOMAIN default_memory /\ e.nodes = N /\ e.edges = E
      /\ SameSignals(d, e) /\ SamePatterns(d, e) /\ SameFacts(d, e)
  BY <1>1, <1>2, FieldsAre DEF SameSignals, SamePatterns, SameFacts
<1>4. IsList(d.nodes) /\ IsList(d.edges) /\ Closed(d)
  BY DEF Recording
<1>5. IsList(N) /\ ToSet(N) = ToSet(d.nodes) \cup ToSet(path) /\ Len(d.nodes) <= Len(N)
      /\ Len(N) \in Nat /\ Len(d.nodes) \in Nat
  BY <1>4, UpsertedTo, ListHas DEF N
<1>6. IsList(E) /\ ToSet(E) = ToSet(d.edges) \cup ToSet(EdgesOf(path))
      /\ \A p \in ToSet(EdgesOf(path)) : ToSet(p) \subseteq ToSet(path)
  BY <1>4, UpsertedTo, EdgesAre DEF E
<1>7. MaxNodes \in Nat
  BY MemoryAssumption
<1>8. Closed(e)
  <2> SUFFICES ASSUME Len(N) < MaxNodes, NEW p \in ToSet(E) PROVE ToSet(p) \subseteq ToSet(N)
    BY <1>3 DEF Closed
  <2>1. Len(d.nodes) < MaxNodes
    BY <1>5, <1>7
  <2>2. CASE p \in ToSet(d.edges)
    BY <1>4, <1>5, <2>1, <2>2 DEF Closed
  <2>3. CASE p \in ToSet(EdgesOf(path))
    BY <1>5, <1>6, <2>3
  <2> QED BY <1>6, <2>2, <2>3
<1> QED BY <1>3, <1>5, <1>6, <1>8 DEF Recording, SameSignals, SamePatterns, e

\* The lists of nodes and of edges are cut off each by itself.
LEMMA CutIs ==
  ASSUME NEW d, Recording(d)
  PROVE  /\ Recording(Cut(d)) /\ SameSignals(d, Cut(d)) /\ SamePatterns(d, Cut(d)) /\ SameFacts(d, Cut(d))
<1> DEFINE e == Cut(d)
           N == Latest(d.nodes, MaxNodes)
           E == Latest(d.edges, MaxEdges)
<1>1. e = [d EXCEPT !.nodes = N, !.edges = E]
  BY DEF Cut
<1>2. DOMAIN d = DOMAIN default_memory
  BY DEF Recording
<1> HIDE DEF e, N, E
<1>3. DOMAIN e = DOMAIN default_memory /\ e.nodes = N /\ e.edges = E
      /\ SameSignals(d, e) /\ SamePatterns(d, e) /\ SameFacts(d, e)
  BY <1>1, <1>2, FieldsAre DEF SameSignals, SamePatterns, SameFacts
<1>4. IsList(d.nodes) /\ IsList(d.edges) /\ Closed(d) /\ MaxNodes \in Nat /\ MaxEdges \in Nat
  BY MemoryAssumption DEF Recording
<1>5. IsList(N) /\ IsList(E) /\ (Len(N) < MaxNodes => N = d.nodes) /\ ToSet(E) \subseteq ToSet(d.edges)
  BY <1>4, LatestOf DEF N, E
<1>6. Closed(e)
  <2> SUFFICES ASSUME Len(N) < MaxNodes, NEW p \in ToSet(E) PROVE ToSet(p) \subseteq ToSet(N)
    BY <1>3 DEF Closed
  <2> QED BY <1>4, <1>5 DEF Closed
<1> QED BY <1>3, <1>5, <1>6 DEF Recording, SameSignals, SamePatterns, e

LEMMA TripleIsList ==
  ASSUME NEW a, NEW b, NEW c
  PROVE  IsList(<<a, b, c>>) /\ IsList(<<a, b>>)
<1>1. <<a, b, c>> \in Seq({a, b, c}) /\ <<a, b>> \in Seq({a, b})
  OBVIOUS
<1> QED BY <1>1, ListIn

LEMMA FailureRecorded ==
  ASSUME NEW d, DataOK(d), NEW f \in Failure, NEW now \in Nat
  PROVE  LET e == record_failure_pattern(d, f, now)
         IN  /\ DataOK(e) /\ SameSignals(d, e) /\ SameFacts(d, e)
             /\ Occurrences(d.failure_patterns) + 1 <= MaxPatterns =>
                    Occurrences(e.failure_patterns) = Occurrences(d.failure_patterns) + 1
<1> DEFINE path == <<<<"task", f.task>>, <<"failure", <<f.kind, f.error>>>>,
                     <<"failure_pattern", PatternOf(d.failure_patterns, f)>>>>
           linked == Linked(d, path)
           P == Trimmed(Recorded(linked.failure_patterns, f, now))
           with == [linked EXCEPT !.failure_patterns = P]
           e == record_failure_pattern(d, f, now)
<1>1. e = Cut(with)
  BY DEF record_failure_pattern, record_semantic_failure_link
<1>2. IsList(path)
  BY TripleIsList
<1> HIDE DEF path
<1>3. Recording(linked) /\ SameSignals(d, linked) /\ SamePatterns(d, linked) /\ SameFacts(d, linked)
  BY <1>2, LinkedIs DEF DataOK
<1> HIDE DEF linked
<1>4. Recorded(linked.failure_patterns, f, now) \in Seq(PatternsOf(Failure))
      /\ Occurrences(Recorded(linked.failure_patterns, f, now)) = Occurrences(d.failure_patterns) + 1
  <2>1. linked.failure_patterns = d.failure_patterns /\ d.failure_patterns \in Seq(PatternsOf(Failure))
    BY <1>3 DEF DataOK, Recording, SamePatterns
  <2> DEFINE ps == d.failure_patterns
  <2>2. ps \in Seq(PatternsOf(Failure))
    BY <2>1
  <2> HIDE DEF ps
  <2>3. Recorded(ps, f, now) \in Seq(PatternsOf(Failure)) /\ Occurrences(Recorded(ps, f, now)) = Occurrences(ps) + 1
    BY <2>2, RecordedIs
  <2> QED BY <2>1, <2>3 DEF ps
<1>5. /\ P \in Seq(PatternsOf(Failure)) /\ NoIdTwice(P)
      /\ Occurrences(d.failure_patterns) + 1 <= MaxPatterns => Occurrences(P) = Occurrences(d.failure_patterns) + 1
  BY <1>4, TrimmedIs, UpdateAssumption
<1> HIDE DEF P
<1>6. /\ DOMAIN with = DOMAIN default_memory /\ with.failure_patterns = P
      /\ with.success_patterns = linked.success_patterns /\ with.nodes = linked.nodes
      /\ with.edges = linked.edges /\ SameSignals(linked, with) /\ SameFacts(linked, with)
  <2>1. DOMAIN linked = DOMAIN default_memory
    BY <1>3 DEF Recording
  <2> QED BY <2>1, FieldsAre DEF SameSignals, SameFacts
<1> HIDE DEF with, e
<1>7. Recording(with)
  <2>1. with.failure_patterns \in Seq(PatternsOf(Failure))
    BY <1>5, <1>6
  <2>2. with.success_patterns \in Seq(PatternsOf(Change))
    BY <1>3, <1>6 DEF Recording
  <2>3. /\ with.tool_signals \in Seq(ToolSignals) /\ NoKeyTwice(with.tool_signals)
        /\ with.meta_reflections \in Seq(Reflections)
    BY <1>3, <1>6 DEF Recording, SameSignals
  <2>4. IsList(with.nodes) /\ IsList(with.edges) /\ Closed(with)
    BY <1>3, <1>6 DEF Recording, Closed
  <2> QED BY <1>6, <2>1, <2>2, <2>3, <2>4 DEF Recording
<1>8. Recording(e) /\ SameSignals(with, e) /\ SamePatterns(with, e) /\ SameFacts(with, e)
  BY <1>1, <1>7, CutIs
<1>10. NoIdTwice(e.failure_patterns) /\ NoIdTwice(e.success_patterns)
  BY <1>3, <1>5, <1>6, <1>8 DEF DataOK, SamePatterns
<1>9. SameSignals(d, e) /\ SameFacts(d, e) /\ e.failure_patterns = P
  BY <1>3, <1>6, <1>8 DEF SameSignals, SameFacts, SamePatterns
<1> QED BY <1>5, <1>8, <1>9, <1>10 DEF e, DataOK

LEMMA ChangeRecorded ==
  ASSUME NEW d, Recording(d), NEW c \in Change, NEW now \in Nat
  PROVE  LET e == WithChange(d, c, now)
         IN  /\ Recording(e) /\ SameSignals(d, e) /\ SameFacts(d, e)
             /\ e.failure_patterns = d.failure_patterns
<1> DEFINE path == <<<<"task", c.task>>, <<"file", c.file>>,
                     <<"success_pattern", PatternOf(d.success_patterns, c)>>>>
           ps == d.success_patterns
           P == Recorded(ps, c, now)
           with == [d EXCEPT !.success_patterns = P]
           e == WithChange(d, c, now)
<1>1. e = Linked(with, path)
  BY DEF WithChange, record_semantic_success_link
<1>2. IsList(path)
  BY TripleIsList
<1> HIDE DEF path
<1>3. ps \in Seq(PatternsOf(Change))
  BY DEF Recording
<1> HIDE DEF ps
<1>4. P \in Seq(PatternsOf(Change))
  BY <1>3, RecordedIs
<1> HIDE DEF P
<1>5. /\ DOMAIN with = DOMAIN default_memory /\ with.success_patterns = P
      /\ with.failure_patterns = d.failure_patterns /\ with.nodes = d.nodes
      /\ with.edges = d.edges /\ SameSignals(d, with) /\ SameFacts(d, with)
  <2>1. DOMAIN d = DOMAIN default_memory
    BY DEF Recording
  <2> QED BY <2>1, FieldsAre DEF SameSignals, SameFacts
<1> HIDE DEF with, e
<1>6. Recording(with)
  BY <1>4, <1>5 DEF Recording, Closed, SameSignals
<1>7. Recording(e) /\ SameSignals(with, e) /\ SamePatterns(with, e) /\ SameFacts(with, e)
  BY <1>1, <1>2, <1>6, LinkedIs
<1> QED BY <1>5, <1>7 DEF SameSignals, SamePatterns, SameFacts, e

\* f[n] is the memory after n of the changes of one success.
AfterChanges(f, d, changes, now) ==
    f[0] = d /\ \A n \in 1..Len(changes) : f[n] = WithChange(f[n - 1], changes[n], now)

LEMMA ChangesExist ==
  ASSUME NEW d, NEW changes, Len(changes) \in Nat, NEW now
  PROVE  \E f : AfterChanges(f, d, changes, now) /\ WithChanges(d, changes, now) = f[Len(changes)]
<1> DEFINE Def(f, m) == f = [n \in 0..m |-> IF n = 0 THEN d ELSE WithChange(f[n - 1], changes[n], now)]
           T == {m \in 0..Len(changes) : \E f : Def(f, m)}
<1>1. 0 \in T
  <2>1. Def([n \in 0..0 |-> d], 0)
    OBVIOUS
  <2> HIDE DEF Def
  <2>2. \E h : Def(h, 0)
    BY <2>1
  <2> QED BY <2>2
<1>2. ASSUME NEW m \in 1..Len(changes), m - 1 \in T PROVE m \in T
  <2>1. PICK f : Def(f, m - 1)
    BY <1>2
  <2> DEFINE g == [n \in 0..m |-> IF n = m THEN WithChange(f[m - 1], changes[m], now) ELSE f[n]]
  <2>2. Def(g, m)
    <3>1. ASSUME NEW n \in 0..m PROVE g[n] = IF n = 0 THEN d ELSE WithChange(g[n - 1], changes[n], now)
      <4>1. CASE n = m
        BY <4>1
      <4>2. CASE n \in 0..(m - 1)
        <5>1. f[n] = IF n = 0 THEN d ELSE WithChange(f[n - 1], changes[n], now)
          BY <2>1, <4>2
        <5> QED BY <4>2, <5>1
      <4> QED BY <4>1, <4>2
    <3> QED BY <3>1
  <2> HIDE DEF Def, g
  <2>3. \E h : Def(h, m)
    BY <2>2
  <2> QED BY <2>3
<1>3. \A m \in 1..Len(changes) : m - 1 \in T => m \in T
  BY <1>2
<1> HIDE DEF T
<1>4. \A m \in 0..Len(changes) : m \in T
  BY <1>1, <1>3, UpTo
<1>5. \E f : Def(f, Len(changes))
  BY <1>4 DEF T
<1> DEFINE after == CHOOSE f : Def(f, Len(changes))
<1>6. Def(after, Len(changes))
  BY <1>5
<1>7. WithChanges(d, changes, now) = after[Len(changes)]
  BY DEF WithChanges
<1> HIDE DEF after
<1>8. after[0] = d
  BY <1>6
<1>9. ASSUME NEW n \in 1..Len(changes) PROVE after[n] = WithChange(after[n - 1], changes[n], now)
  <2>1. n \in 0..Len(changes) /\ n # 0
    OBVIOUS
  <2> QED BY <1>6, <2>1
<1>10. AfterChanges(after, d, changes, now)
  BY <1>8, <1>9 DEF AfterChanges
<1> QED BY <1>7, <1>10

LEMMA SuccessRecorded ==
  ASSUME NEW d, DataOK(d), NEW changes \in Seq(Change), NEW now \in Nat
  PROVE  LET e == record_success_patterns_from_changes(d, changes, now)
         IN  /\ DataOK(e) /\ SameSignals(d, e) /\ SameFacts(d, e)
             /\ e.failure_patterns = d.failure_patterns
<1> DEFINE N == Len(changes)
           Kept(m) == /\ Recording(m) /\ SameSignals(d, m) /\ SameFacts(d, m)
                      /\ m.failure_patterns = d.failure_patterns
           e == record_success_patterns_from_changes(d, changes, now)
<1>1. N \in Nat /\ \A i \in 1..N : changes[i] \in Change
  OBVIOUS
<1>a. Len(changes) \in Nat
  OBVIOUS
<1> HIDE DEF N, e, Kept
<1>2. PICK f : AfterChanges(f, d, changes, now) /\ WithChanges(d, changes, now) = f[Len(changes)]
  BY <1>a, ChangesExist
<1> USE DEF Kept
<1> DEFINE T == {n \in 0..N : Kept(f[n])}
<1>3. 0 \in T
  <2>1. f[0] = d /\ 0 \in 0..N
    BY <1>1, <1>2 DEF AfterChanges
  <2>2. Kept(d)
    BY DEF DataOK, SameSignals, SameFacts
  <2> QED BY <2>1, <2>2
<1>4. ASSUME NEW n \in 1..N, n - 1 \in T PROVE n \in T
  <2>1. f[n] = WithChange(f[n - 1], changes[n], now) /\ n \in 0..N
    BY <1>1, <1>2 DEF N, AfterChanges
  <2>2. Kept(f[n - 1])
    BY <1>4
  <2> DEFINE m == f[n - 1]
             k == f[n]
  <2> HIDE DEF m, k
  <2>3. Recording(k) /\ SameSignals(m, k) /\ SameFacts(m, k) /\ k.failure_patterns = m.failure_patterns
    <3>1. Recording(m) /\ changes[n] \in Change /\ k = WithChange(m, changes[n], now)
      BY <1>1, <2>1, <2>2 DEF m, k
    <3> QED BY <3>1, ChangeRecorded
  <2>4. Kept(k)
    BY <2>2, <2>3 DEF SameSignals, SameFacts, m
  <2> QED BY <2>1, <2>4 DEF k
<1>5. \A n \in 1..N : n - 1 \in T => n \in T
  BY <1>4
<1> HIDE DEF T
<1>6. \A n \in 0..N : n \in T
  BY <1>1, <1>3, <1>5, UpTo
<1> DEFINE m == f[N]
           P == Trimmed(m.success_patterns)
           with == [m EXCEPT !.success_patterns = P]
<1>7. Kept(m)
  BY <1>1, <1>6 DEF T
<1>8. e = Cut(with)
  BY <1>2 DEF N, e, record_success_patterns_from_changes
<1> HIDE DEF m
<1>9. P \in Seq(PatternsOf(Change)) /\ NoIdTwice(P)
  BY <1>7, TrimmedIs, UpdateAssumption DEF Recording
<1> HIDE DEF P
<1>10. /\ DOMAIN with = DOMAIN default_memory /\ with.success_patterns = P
       /\ with.failure_patterns = m.failure_patterns /\ with.nodes = m.nodes
       /\ with.edges = m.edges /\ SameSignals(m, with) /\ SameFacts(m, with)
  <2>1. DOMAIN m = DOMAIN default_memory
    BY <1>7 DEF Recording
  <2> QED BY <2>1, FieldsAre DEF SameSignals, SameFacts
<1> HIDE DEF with
<1>11. Recording(with)
  BY <1>7, <1>9, <1>10 DEF Recording, Closed, SameSignals
<1>12. Recording(e) /\ SameSignals(with, e) /\ SamePatterns(with, e) /\ SameFacts(with, e)
  BY <1>8, <1>11, CutIs
<1>13. SameSignals(d, e) /\ SameFacts(d, e) /\ e.failure_patterns = d.failure_patterns
       /\ e.success_patterns = P
  BY <1>7, <1>10, <1>12 DEF SameSignals, SamePatterns, SameFacts
<1>14. NoIdTwice(d.failure_patterns)
  BY DEF DataOK
<1> QED BY <1>9, <1>12, <1>13, <1>14 DEF DataOK, e

LEMMA OutcomeRecorded ==
  ASSUME NEW d, DataOK(d), NEW task, NEW success
  PROVE  LET e == record_task_outcome(d, task, success)
         IN  DataOK(e) /\ SameSignals(d, e) /\ SameFacts(d, e) /\ SamePatterns(d, e)
<1> DEFINE outcome == IF success THEN "success" ELSE "failure"
           path == <<<<"task", task>>, <<"outcome", outcome>>>>
           linked == Linked(d, path)
           O == Latest(Append(linked.task_outcomes, <<task, outcome>>), MaxEntries)
           with == [linked EXCEPT !.task_outcomes = O]
           e == record_task_outcome(d, task, success)
<1>1. e = Cut(with)
  BY DEF record_task_outcome
<1>2. IsList(path)
  BY TripleIsList
<1> HIDE DEF path, outcome
<1>3. Recording(linked) /\ SameSignals(d, linked) /\ SamePatterns(d, linked) /\ SameFacts(d, linked)
  BY <1>2, LinkedIs DEF DataOK
<1> HIDE DEF linked, O
<1>4. /\ DOMAIN with = DOMAIN default_memory
      /\ SamePatterns(linked, with) /\ with.nodes = linked.nodes
      /\ with.edges = linked.edges /\ SameSignals(linked, with) /\ SameFacts(linked, with)
  <2>1. DOMAIN linked = DOMAIN default_memory
    BY <1>3 DEF Recording
  <2> QED BY <2>1, FieldsAre DEF SameSignals, SameFacts, SamePatterns
<1> HIDE DEF with, e
<1>5. Recording(with)
  BY <1>3, <1>4 DEF Recording, Closed, SameSignals, SamePatterns
<1>6. Recording(e) /\ SameSignals(with, e) /\ SamePatterns(with, e) /\ SameFacts(with, e)
  BY <1>1, <1>5, CutIs
<1>7. SameSignals(d, e) /\ SameFacts(d, e) /\ SamePatterns(d, e)
  BY <1>3, <1>4, <1>6 DEF SameSignals, SamePatterns, SameFacts
<1>8. NoIdTwice(d.failure_patterns) /\ NoIdTwice(d.success_patterns)
  BY DEF DataOK
<1> QED BY <1>6, <1>7, <1>8 DEF DataOK, SamePatterns, e

\* The latest of a list without repetition.
LEMMA LatestKeys ==
  ASSUME NEW s, IsList(s), NoKeyTwice(s), NEW n \in Nat
  PROVE  NoKeyTwice(Latest(s, n))
<1> DEFINE k == Max({1, Len(s) - n + 1})
           t == Latest(s, n)
<1>1. Len(s) \in Nat /\ s \in Seq(ToSet(s)) /\ DOMAIN s = 1..Len(s)
  BY ListHas DEF IsList
<1>2. k \in 1..(Len(s) + 1)
  <2>1. \E m \in {1, Len(s) - n + 1} : \A i \in {1, Len(s) - n + 1} : m >= i
    BY <1>1
  <2>2. k \in {1, Len(s) - n + 1} /\ \A i \in {1, Len(s) - n + 1} : k >= i
    BY <2>1 DEF Max
  <2> QED BY <1>1, <2>2
<1>3. t = SubSeq(s, k, Len(s))
  BY DEF Latest
<1> HIDE DEF k, t
<1>4. t \in Seq(ToSet(s)) /\ Len(t) = Len(s) - k + 1 /\ \A i \in 1..(Len(s) - k + 1) : t[i] = s[k + i - 1]
  BY <1>1, <1>2, <1>3, SubSeqProperties
<1>5. DOMAIN t = 1..(Len(s) - k + 1)
  BY <1>4
<1>6. ASSUME NEW i \in DOMAIN t, NEW j \in DOMAIN t, t[i].key = t[j].key PROVE i = j
  <2>1. k + i - 1 \in DOMAIN s /\ k + j - 1 \in DOMAIN s
    BY <1>1, <1>2, <1>5
  <2>2. k + i - 1 = k + j - 1
    BY <1>4, <1>5, <1>6, <2>1 DEF NoKeyTwice
  <2> QED BY <1>2, <1>5, <2>2
<1> QED BY <1>6 DEF NoKeyTwice, t

Tools == {u.tool : u \in {v \in Update : v.op = "tool"}}

\* A signal more, or one that counts up, in place of the one before.
LEMMA ToolCounted ==
  ASSUME NEW d, DataOK(d), NEW tool \in Tools, NEW success \in BOOLEAN
  PROVE  LET e    == record_tool_signal(d, tool, success)
             good == IF success THEN 1 ELSE 0
         IN  /\ DataOK(e) /\ SamePatterns(d, e) /\ SameFacts(d, e)
             /\ e.meta_reflections = d.meta_reflections
             /\ \E t : /\ IsList(t) /\ NoKeyTwice(t) /\ e.tool_signals = Latest(t, MaxSignals)
                       /\ \/ /\ \A s \in ToSet(d.tool_signals) : s.key # tool
                             /\ ToSet(t) = ToSet(d.tool_signals) \cup
                                               {[key |-> tool, success |-> good, failure |-> 1 - good]}
                          \/ \E s \in ToSet(d.tool_signals) :
                                 /\ s.key = tool
                                 /\ ToSet(t) = (ToSet(d.tool_signals) \ {s}) \cup
                                         {[key |-> tool, success |-> s.success + good,
                                           failure |-> s.failure + 1 - good]}
<1> DEFINE s == d.tool_signals
           good == IF success THEN 1 ELSE 0
           I == {j \in 1..Len(s) : s[j].key = tool}
           i == IndexOf(s, tool)
           e == record_tool_signal(d, tool, success)
           t == Counted(s, tool, good)
           E == Latest(t, MaxSignals)
<1>1. e = [d EXCEPT !.tool_signals = E]
  BY DEF record_tool_signal
<1>2. good \in {0, 1}
  OBVIOUS
<1>3. i = IF I # {} THEN Min(I) ELSE 0
  BY DEF IndexOf, SelectInSeq
<1>4. DOMAIN d = DOMAIN default_memory /\ s \in Seq(ToolSignals) /\ NoKeyTwice(s)
  BY DEF DataOK, Recording
<1> HIDE DEF good, i, t, s
<1>5. IsList(s) /\ Len(s) \in Nat /\ DOMAIN s = 1..Len(s) /\ ToSet(s) = {s[j] : j \in 1..Len(s)}
      /\ \A j \in 1..Len(s) : s[j] \in ToolSignals
  BY <1>4, ListIn, ListHas
<1>6. \A j, k \in 1..Len(s) : s[j].key = s[k].key => j = k
  BY <1>4, <1>5 DEF NoKeyTwice
<1> DEFINE OneCounted ==
               \/ /\ \A x \in ToSet(s) : x.key # tool
                  /\ ToSet(t) = ToSet(s) \cup {[key |-> tool, success |-> good, failure |-> 1 - good]}
               \/ \E x \in ToSet(s) :
                      /\ x.key = tool
                      /\ ToSet(t) = (ToSet(s) \ {x}) \cup
                            {[key |-> tool, success |-> x.success + good, failure |-> x.failure + 1 - good]}
<1>7. t \in Seq(ToolSignals) /\ NoKeyTwice(t) /\ OneCounted
  <2>1. CASE I = {}
    <3> DEFINE r == [key |-> tool, success |-> good, failure |-> 1 - good]
    <3>1. t = Append(s, r)
      BY <1>3, <2>1 DEF t, Counted, i
    <3>2. r \in ToolSignals /\ r.key = tool
      BY <1>2 DEF ToolSignals, Tools
    <3> HIDE DEF r
    <3>3. t \in Seq(ToolSignals) /\ Len(t) = Len(s) + 1 /\ t[Len(s) + 1] = r /\ DOMAIN t = 1..(Len(s) + 1)
          /\ \A j \in 1..Len(s) : t[j] = s[j]
      BY <1>4, <1>5, <3>1, <3>2, AppendProperties
    <3>4. \A j \in 1..Len(s) : s[j].key # tool
      BY <2>1
    <3>5. NoKeyTwice(t)
      <4>1. \A j \in 1..(Len(s) + 1) : j \in 1..Len(s) \/ j = Len(s) + 1
        BY <1>5
      <4> QED BY <1>6, <3>2, <3>3, <3>4, <4>1 DEF NoKeyTwice
    <3>6. ToSet(t) = ToSet(s) \cup {r}
      BY <1>5, <3>1, Appended
    <3>7. \A x \in ToSet(s) : x.key # tool
      BY <1>5, <3>4
    <3> QED BY <3>3, <3>5, <3>6, <3>7 DEF r
  <2>2. CASE I # {}
    <3>1. i \in 1..Len(s) /\ s[i].key = tool /\ i # 0
      <4>1. I \subseteq Nat
        BY <1>5
      <4> HIDE DEF I
      <4>2. Min(I) \in I
        BY <2>2, <4>1, MinIs
      <4> QED BY <1>3, <1>5, <2>2, <4>2 DEF I
    <3> DEFINE q == s[i]
               r == [key |-> tool, success |-> q.success + good, failure |-> q.failure + 1 - good]
    <3>2. q \in ToolSignals /\ q.key = tool
      BY <1>5, <3>1
    <3>3. r \in ToolSignals /\ r.key = tool
      BY <1>2, <3>2 DEF ToolSignals, Tools
    <3>4. [q EXCEPT !.success = q.success + good, !.failure = q.failure + 1 - good] = r
      <4> DEFINE F == q.success + good
                 G == q.failure + 1 - good
      <4>1. q = [key |-> q.key, success |-> q.success, failure |-> q.failure]
        BY <3>2 DEF ToolSignals
      <4> HIDE DEF F, G
      <4>2. DOMAIN q = {"key", "success", "failure"}
        BY <4>1
      <4> DEFINE z == [q EXCEPT !.success = F, !.failure = G]
      <4>3. z = [x \in DOMAIN q |-> IF x = "success" THEN F ELSE IF x = "failure" THEN G ELSE q[x]]
        OBVIOUS
      <4>4. z = [key |-> q.key, success |-> F, failure |-> G]
        BY <4>2, <4>3
      <4> QED BY <3>2, <4>4 DEF F, G
    <3>5. t = [s EXCEPT ![i] = [q EXCEPT !.success = q.success + good, !.failure = q.failure + 1 - good]]
      <4>1. t = [s EXCEPT ![i].success = @ + good, ![i].failure = @ + 1 - good]
        BY <3>1 DEF t, Counted, i
      <4> QED BY <1>5, <3>1, <4>1
    <3>6. t = [s EXCEPT ![i] = r]
      BY <3>4, <3>5
    <3> HIDE DEF r
    <3>7. DOMAIN t = 1..Len(s) /\ t \in Seq(ToolSignals) /\ t[i] = r
          /\ \A j \in 1..Len(s) \ {i} : t[j] = s[j]
      BY <1>4, <1>5, <3>1, <3>3, <3>6
    <3>8. NoKeyTwice(t)
      BY <1>6, <3>2, <3>3, <3>7 DEF NoKeyTwice
    <3>9. ToSet(t) = (ToSet(s) \ {q}) \cup {r}
      <4>1. ToSet(t) = {t[j] : j \in 1..Len(s)}
        BY <3>7 DEF ToSet
      <4>2. \A j \in 1..Len(s) \ {i} : s[j] # q
        BY <1>6, <3>1
      <4> HIDE DEF q
      <4>3. ASSUME NEW x PROVE x \in ToSet(t) <=> x \in (ToSet(s) \ {q}) \cup {r}
        <5>1. CASE x = r
          BY <3>1, <3>7, <4>1, <5>1
        <5>2. CASE x # r
          <6>1. x \in ToSet(t) <=> \E j \in 1..Len(s) \ {i} : x = s[j]
            BY <3>7, <4>1, <5>2
          <6>2. x \in ToSet(s) \ {q} <=> \E j \in 1..Len(s) \ {i} : x = s[j]
            BY <1>5, <4>2 DEF q
          <6> QED BY <5>2, <6>1, <6>2
        <5> QED BY <5>1, <5>2
      <4> QED BY <4>3
    <3>10. q \in ToSet(s)
      BY <1>5, <3>1
    <3>11. OneCounted
      BY <3>2, <3>9, <3>10 DEF r
    <3> QED BY <3>7, <3>8, <3>11
  <2> QED BY <2>1, <2>2
<1> HIDE DEF OneCounted
<1>8. IsList(t) /\ DOMAIN t = 1..Len(t) /\ Len(t) \in Nat /\ ToSet(t) \subseteq ToolSignals
  BY <1>7, ListIn, ListHas
<1>9. IsList(E) /\ ToSet(E) \subseteq ToSet(t)
  BY <1>8, LatestOf, MemoryAssumption
<1>10. E \in Seq(ToolSignals)
  BY <1>8, <1>9, ListOf
<1>11. NoKeyTwice(E)
  BY <1>7, <1>8, LatestKeys, MemoryAssumption
<1> HIDE DEF E, e
<1>12. /\ DOMAIN e = DOMAIN default_memory /\ e.tool_signals = E /\ SamePatterns(d, e) /\ SameFacts(d, e)
       /\ e.meta_reflections = d.meta_reflections /\ e.nodes = d.nodes /\ e.edges = d.edges
  BY <1>1, <1>4, FieldsAre DEF SamePatterns, SameFacts
<1>13. DataOK(e)
  BY <1>10, <1>11, <1>12 DEF DataOK, Recording, Closed, SamePatterns
<1>14. \E u : IsList(u) /\ NoKeyTwice(u) /\ e.tool_signals = Latest(u, MaxSignals)
                  /\ \/ /\ \A x \in ToSet(s) : x.key # tool
                        /\ ToSet(u) = ToSet(s) \cup {[key |-> tool, success |-> good, failure |-> 1 - good]}
                     \/ \E x \in ToSet(s) :
                      /\ x.key = tool
                      /\ ToSet(u) = (ToSet(s) \ {x}) \cup
                            {[key |-> tool, success |-> x.success + good, failure |-> x.failure + 1 - good]}
  BY <1>7, <1>8, <1>12 DEF OneCounted, E
<1> QED BY <1>12, <1>13, <1>14 DEF e, s, good

HighPlaces(s) == {i \in DOMAIN s : s[i].quality \in High}

LEMMA ClassIs ==
  ASSUME NEW s \in Seq(Reflections), NEW qs, NEW n \in Nat
  PROVE  LET t == OfClass(s, qs, n)
             I == {i \in DOMAIN s : s[i].quality \in qs}
         IN  /\ t \in Seq(Reflections) /\ \A i \in DOMAIN t : t[i].quality \in qs
             /\ Cardinality(I) <= n => Len(t) = Cardinality(I)
<1> DEFINE I == {i \in DOMAIN s : s[i].quality \in qs}
           R == {p \in I \X I : p[1] < p[2]}
           u == InOrder(s, I, R)
           t == OfClass(s, qs, n)
<1>1. t = Latest(u, n)
  BY DEF OfClass, Selected
<1>2. IsList(s) /\ DOMAIN s = 1..Len(s) /\ Len(s) \in Nat /\ \A i \in DOMAIN s : s[i] \in Reflections
  BY ListIn, ListHas
<1>3. IsFiniteSet(I) /\ I \subseteq Int /\ I \subseteq DOMAIN s /\ \A i \in I : s[i].quality \in qs
  <2>1. I \subseteq DOMAIN s /\ IsFiniteSet(DOMAIN s)
    BY <1>2, ListHas
  <2> QED BY <1>2, <2>1, FS_Subset
<1>4. StrictOrder(I, R)
  BY <1>3, ByPlace
<1> HIDE DEF I, R, t
<1>5. IsList(u) /\ Len(u) = Cardinality(I) /\ ToSet(u) = {s[i] : i \in I}
  BY <1>3, <1>4, InOrderLists
<1> HIDE DEF u
<1>6. IsList(t) /\ ToSet(t) \subseteq ToSet(u) /\ (Len(u) <= n => t = u)
  BY <1>1, <1>5, LatestOf
<1>7. \A x \in ToSet(t) : x \in Reflections /\ x.quality \in qs
  BY <1>2, <1>3, <1>5, <1>6
<1>8. t \in Seq(Reflections)
  BY <1>6, <1>7, ListOf
<1>9. \A i \in DOMAIN t : t[i].quality \in qs
  BY <1>7 DEF ToSet
<1> QED BY <1>5, <1>6, <1>8, <1>9 DEF I, t

LEMMA EarlierOrders ==
  ASSUME NEW s \in Seq(Reflections)
  PROVE  StrictOrder(DOMAIN s, {p \in (DOMAIN s) \X (DOMAIN s) :
                             \/ Earlier(s[p[1]], s[p[2]])
                             \/ ~Earlier(s[p[2]], s[p[1]]) /\ p[1] < p[2]})
<1>1. \A i \in DOMAIN s : s[i].time \in Nat /\ i \in Int
  <2>1. IsList(s) /\ DOMAIN s = 1..Len(s) /\ Len(s) \in Nat
    BY ListIn, ListHas
  <2>2. \A i \in DOMAIN s : s[i] \in Reflections /\ i \in Int
    BY <2>1
  <2> QED BY <2>2 DEF Reflections
<1> DEFINE I == DOMAIN s
           R == {p \in I \X I : \/ Earlier(s[p[1]], s[p[2]])
                                \/ ~Earlier(s[p[2]], s[p[1]]) /\ p[1] < p[2]}
<1>2. \A i \in I : \A j \in I :
          <<i, j>> \in R <=> (Earlier(s[i], s[j]) \/ (~Earlier(s[j], s[i]) /\ i < j))
  OBVIOUS
<1> HIDE DEF I
<1>3. \A i \in I : <<i, i>> \notin R
  BY <1>1, <1>2 DEF Earlier, I
<1>4. \A i, j \in I : i # j => <<i, j>> \in R \/ <<j, i>> \in R
  BY <1>1, <1>2 DEF Earlier, I
<1>5. ASSUME NEW i \in I, NEW j \in I, NEW k \in I, <<i, j>> \in R, <<j, k>> \in R
      PROVE  <<i, k>> \in R
  BY <1>1, <1>2, <1>5 DEF Earlier, I
<1> HIDE DEF R
<1>6. StrictOrder(I, R)
  BY <1>3, <1>4, <1>5 DEF StrictOrder
<1> QED BY <1>6 DEF I, R

\* What three lists make one after the other.
LEMMA ThreeJoined ==
  ASSUME NEW S, NEW a \in Seq(S), NEW b \in Seq(S), NEW c \in Seq(S)
  PROVE  LET all == a \o b \o c
         IN  /\ all \in Seq(S) /\ Len(all) = Len(a) + Len(b) + Len(c)
             /\ \A i \in 1..Len(a) : all[i] = a[i]
             /\ \A i \in (Len(a) + 1)..(Len(a) + Len(b)) : all[i] = b[i - Len(a)]
             /\ \A i \in (Len(a) + Len(b) + 1)..Len(all) : all[i] = c[i - Len(a) - Len(b)]
             /\ Len(a) \in Nat /\ Len(b) \in Nat /\ Len(c) \in Nat
<1> DEFINE ab == a \o b
           all == ab \o c
           x == Len(a)
           y == Len(b)
           z == Len(c)
<1>1. ab \in Seq(S) /\ Len(ab) = x + y
      /\ \A i \in 1..(x + y) : ab[i] = IF i <= x THEN a[i] ELSE b[i - x]
  BY ConcatProperties
<1> HIDE DEF ab
<1>2. all \in Seq(S) /\ Len(all) = Len(ab) + z
      /\ \A i \in 1..(Len(ab) + z) : all[i] = IF i <= Len(ab) THEN ab[i] ELSE c[i - Len(ab)]
  <2>1. ab \in Seq(S)
    BY <1>1
  <2> QED BY <2>1, ConcatProperties
<1>3. x \in Nat /\ y \in Nat /\ z \in Nat
  OBVIOUS
<1> HIDE DEF all, x, y, z
<1>4. \A i \in 1..(x + y + z) : all[i] = IF i <= x + y THEN ab[i] ELSE c[i - (x + y)]
  BY <1>1, <1>2
<1>5. ASSUME NEW i \in 1..x PROVE all[i] = a[i]
  <2>1. i \in 1..(x + y) /\ i \in 1..(x + y + z) /\ i <= x /\ i <= x + y
    BY <1>3
  <2> QED BY <1>1, <1>4, <2>1
<1>6. ASSUME NEW i \in (x + 1)..(x + y) PROVE all[i] = b[i - x]
  <2>1. i \in 1..(x + y) /\ i \in 1..(x + y + z) /\ ~(i <= x) /\ i <= x + y
    BY <1>3
  <2> QED BY <1>1, <1>4, <2>1
<1>7. ASSUME NEW i \in (x + y + 1)..(x + y + z) PROVE all[i] = c[i - x - y]
  <2>1. i \in 1..(x + y + z) /\ ~(i <= x + y) /\ i - (x + y) = i - x - y
    BY <1>3
  <2> QED BY <1>4, <2>1
<1>8. Len(all) = x + y + z
  BY <1>1, <1>2, <1>3
<1>9. all = a \o b \o c
  BY DEF all, ab
<1> QED BY <1>2, <1>3, <1>5, <1>6, <1>7, <1>8, <1>9 DEF x, y, z

\* The compaction only permutes the reflections of high quality, as long as there
\* are no more of them than are kept.
LEMMA CompactedIs ==
  ASSUME NEW s \in Seq(Reflections)
  PROVE  LET t == compact_meta_reflections(s)
         IN  /\ t \in Seq(Reflections)
             /\ Cardinality(HighPlaces(s)) <= KeepOf.high =>
                    Cardinality(HighPlaces(t)) = Cardinality(HighPlaces(s))
<1> DEFINE h == OfClass(s, High, KeepOf.high)
           m == OfClass(s, Medium, KeepOf.medium)
           l == OfClass(s, Low, KeepOf.low)
           all == h \o m \o l
           R == {p \in (DOMAIN all) \X (DOMAIN all) :
                             \/ Earlier(all[p[1]], all[p[2]])
                             \/ ~Earlier(all[p[2]], all[p[1]]) /\ p[1] < p[2]}
           t == compact_meta_reflections(s)
           n == Len(all)
<1>1. t = InOrder(all, DOMAIN all, R)
  BY DEF compact_meta_reflections, Sorted
<1>2. KeepOf.high \in Nat /\ KeepOf.medium \in Nat /\ KeepOf.low \in Nat
  BY MemoryAssumption
<1>3. /\ h \in Seq(Reflections) /\ m \in Seq(Reflections) /\ l \in Seq(Reflections)
      /\ \A i \in DOMAIN h : h[i].quality \in High
      /\ \A i \in DOMAIN m : m[i].quality \in Medium
      /\ \A i \in DOMAIN l : l[i].quality \in Low
      /\ Cardinality(HighPlaces(s)) <= KeepOf.high => Len(h) = Cardinality(HighPlaces(s))
  <2>1. /\ h \in Seq(Reflections) /\ \A i \in DOMAIN h : h[i].quality \in High
        /\ Cardinality(HighPlaces(s)) <= KeepOf.high => Len(h) = Cardinality(HighPlaces(s))
    <3> DEFINE I == {i \in DOMAIN s : s[i].quality \in High}
    <3>1. h \in Seq(Reflections) /\ \A i \in DOMAIN h : h[i].quality \in High
      BY <1>2, ClassIs
    <3>2. Cardinality(I) <= KeepOf.high => Len(h) = Cardinality(I)
      BY <1>2, ClassIs
    <3>3. I = HighPlaces(s)
      BY DEF HighPlaces
    <3> HIDE DEF I, h
    <3> QED BY <3>1, <3>2, <3>3
  <2>2. m \in Seq(Reflections) /\ \A i \in DOMAIN m : m[i].quality \in Medium
    BY <1>2, ClassIs
  <2>3. l \in Seq(Reflections) /\ \A i \in DOMAIN l : l[i].quality \in Low
    BY <1>2, ClassIs
  <2> HIDE DEF h, m, l
  <2> QED BY <2>1, <2>2, <2>3
<1> HIDE DEF h, m, l, t
<1>4. /\ all \in Seq(Reflections) /\ n = Len(h) + Len(m) + Len(l)
      /\ \A i \in 1..Len(h) : all[i] = h[i]
      /\ \A i \in (Len(h) + 1)..(Len(h) + Len(m)) : all[i] = m[i - Len(h)]
      /\ \A i \in (Len(h) + Len(m) + 1)..n : all[i] = l[i - Len(h) - Len(m)]
      /\ Len(h) \in Nat /\ Len(m) \in Nat /\ Len(l) \in Nat
  <2>1. h \in Seq(Reflections) /\ m \in Seq(Reflections) /\ l \in Seq(Reflections)
    BY <1>3
  <2> QED BY <2>1, ThreeJoined
<1> HIDE DEF all
<1>5. IsList(all) /\ n \in Nat /\ DOMAIN all = 1..n /\ IsFiniteSet(DOMAIN all) /\ Cardinality(DOMAIN all) = n
      /\ \A i \in 1..n : all[i] \in Reflections
  <2>1. all \in Seq(Reflections)
    BY <1>4
  <2>2. IsList(all)
    BY <2>1, ListIn
  <2>3. n \in Nat /\ DOMAIN all = 1..n /\ IsFiniteSet(DOMAIN all) /\ Cardinality(DOMAIN all) = n
    BY <2>2, ListHas
  <2>4. \A i \in 1..n : all[i] \in Reflections
    BY <2>1
  <2> QED BY <2>2, <2>3, <2>4
<1>6. StrictOrder(DOMAIN all, R)
  BY <1>4, EarlierOrders
<1> HIDE DEF R
<1>7. PICK f \in Bijection(1..n, 1..n) : t = [i \in 1..n |-> all[f[i]]]
  <2>1. PICK f \in Bijection(1..Cardinality(DOMAIN all), DOMAIN all) :
            \A u : InOrder(u, DOMAIN all, R) = [i \in 1..Cardinality(DOMAIN all) |-> u[f[i]]]
    BY <1>5, <1>6, InOrderPermutes
  <2>2. f \in Bijection(1..n, 1..n) /\ t = [i \in 1..n |-> all[f[i]]]
    BY <1>1, <1>5, <2>1
  <2> HIDE DEF n
  <2> QED BY <2>2
<1> HIDE DEF n
<1>8. f \in [1..n -> 1..n] /\ (\A i, j \in 1..n : f[i] = f[j] => i = j) /\ \A i \in 1..n : \E j \in 1..n : f[j] = i
  BY <1>7 DEF Bijection, Injection, Surjection, IsInjective
<1>9. DOMAIN t = 1..n /\ t \in Seq(Reflections) /\ \A i \in 1..n : t[i] = all[f[i]]
  BY <1>5, <1>7, <1>8
<1>10. HighPlaces(all) = 1..Len(h)
  <2>1. \A q \in Medium \cup Low : q \notin High
    BY MemoryAssumption DEF Medium, Low, High
  <2>2. ASSUME NEW i \in 1..n PROVE all[i].quality \in High <=> i \in 1..Len(h)
    <3>1. CASE i \in 1..Len(h)
      <4>1. i \in DOMAIN h /\ all[i] = h[i]
        BY <1>3, <1>4, <3>1
      <4> QED BY <1>3, <3>1, <4>1
    <3>2. CASE i \in (Len(h) + 1)..(Len(h) + Len(m))
      <4>1. i - Len(h) \in DOMAIN m
        BY <1>3, <1>4, <3>2
      <4>2. all[i] = m[i - Len(h)]
        BY <1>4, <3>2
      <4>3. all[i].quality \in Medium
        BY <1>3, <4>1, <4>2
      <4> QED BY <1>4, <2>1, <3>2, <4>3
    <3>3. CASE i \in (Len(h) + Len(m) + 1)..n
      <4>1. i - Len(h) - Len(m) \in DOMAIN l
        BY <1>3, <1>4, <3>3 DEF n
      <4>2. all[i] = l[i - Len(h) - Len(m)]
        BY <1>4, <3>3 DEF n
      <4>3. all[i].quality \in Low
        BY <1>3, <4>1, <4>2
      <4> QED BY <1>4, <2>1, <3>3, <4>3
    <3> QED BY <1>4, <1>5, <3>1, <3>2, <3>3
  <2>3. 1..Len(h) \subseteq 1..n
    BY <1>4 DEF n
  <2> QED BY <1>5, <2>2, <2>3 DEF HighPlaces
<1>11. Cardinality(HighPlaces(all)) = Len(h) /\ IsFiniteSet(HighPlaces(all))
  BY <1>4, <1>10, FromOneTo
<1>12. Cardinality(HighPlaces(t)) = Cardinality(HighPlaces(all))
  <2> DEFINE J == HighPlaces(t)
             K == HighPlaces(all)
             g == [j \in J |-> f[j]]
  <2>1. J = {j \in 1..n : all[f[j]].quality \in High} /\ K = {i \in 1..n : all[i].quality \in High}
    BY <1>5, <1>9 DEF HighPlaces
  <2> HIDE DEF J, K
  <2>2. g \in [J -> K] /\ (\A i, j \in J : g[i] = g[j] => i = j) /\ \A i \in K : \E j \in J : g[j] = i
    BY <1>8, <2>1
  <2> HIDE DEF g
  <2>3. g \in Bijection(J, K)
    BY <2>2 DEF Bijection, Injection, Surjection, IsInjective
  <2>4. IsFiniteSet(J)
    <3>1. IsFiniteSet(1..n) /\ J \subseteq 1..n
      BY <1>5, <2>1, FromOneTo
    <3> QED BY <3>1, FS_Subset
  <2> QED BY <2>3, <2>4, FS_Bijection DEF ExistsBijection, J, K
<1> QED BY <1>3, <1>9, <1>11, <1>12 DEF t

Qualities == {u.quality : u \in {v \in Update : v.op = "reflection"}}

LEMMA ReflectionRecorded ==
  ASSUME NEW d, DataOK(d), NEW quality \in Qualities, NEW now \in Nat
  PROVE  LET e    == record_meta_reflection(d, quality, now)
             more == Cardinality(HighPlaces(d.meta_reflections)) + (IF quality \in High THEN 1 ELSE 0)
         IN  /\ DataOK(e) /\ SamePatterns(d, e) /\ SameFacts(d, e) /\ e.tool_signals = d.tool_signals
             /\ more <= KeepOf.high => Cardinality(HighPlaces(e.meta_reflections)) = more
<1> DEFINE s == d.meta_reflections
           r == [quality |-> quality, time |-> now]
           t == Append(s, r)
           c == compact_meta_reflections(t)
           e == record_meta_reflection(d, quality, now)
           more == Cardinality(HighPlaces(s)) + (IF quality \in High THEN 1 ELSE 0)
<1>1. e = [d EXCEPT !.meta_reflections = c]
  BY DEF record_meta_reflection
<1>2. DOMAIN d = DOMAIN default_memory /\ s \in Seq(Reflections)
  BY DEF DataOK, Recording
<1>3. r \in Reflections /\ r.quality = quality
  BY DEF Reflections, Qualities
<1> HIDE DEF s, r, t, c, e
<1>4. IsList(s) /\ DOMAIN s = 1..Len(s) /\ Len(s) \in Nat /\ IsFiniteSet(DOMAIN s)
  BY <1>2, ListIn, ListHas
<1>5. t \in Seq(Reflections) /\ Len(t) = Len(s) + 1 /\ t[Len(s) + 1] = r /\ DOMAIN t = 1..(Len(s) + 1)
      /\ \A i \in 1..Len(s) : t[i] = s[i]
  BY <1>2, <1>3, <1>4, AppendProperties DEF t
<1>6. IsFiniteSet(HighPlaces(s)) /\ Cardinality(HighPlaces(s)) \in Nat /\ Len(s) + 1 \notin HighPlaces(s)
  <2>1. HighPlaces(s) \subseteq DOMAIN s
    BY DEF HighPlaces
  <2>2. IsFiniteSet(HighPlaces(s))
    BY <1>4, <2>1, FS_Subset
  <2> QED BY <1>4, <2>1, <2>2, FS_CardinalityType
<1>7. Cardinality(HighPlaces(t)) = more
  <2>1. CASE quality \in High
    <3>1. HighPlaces(t) = HighPlaces(s) \cup {Len(s) + 1}
      BY <1>3, <1>4, <1>5, <2>1 DEF HighPlaces
    <3> QED BY <1>6, <2>1, <3>1, FS_AddElement
  <2>2. CASE quality \notin High
    <3>1. HighPlaces(t) = HighPlaces(s)
      BY <1>3, <1>4, <1>5, <2>2 DEF HighPlaces
    <3> QED BY <1>6, <2>2, <3>1
  <2> QED BY <2>1, <2>2
<1> HIDE DEF more
<1>8. c \in Seq(Reflections) /\ (more <= KeepOf.high => Cardinality(HighPlaces(c)) = more)
  <2>1. c \in Seq(Reflections)
    BY <1>5, CompactedIs DEF c
  <2>2. Cardinality(HighPlaces(t)) <= KeepOf.high => Cardinality(HighPlaces(c)) = Cardinality(HighPlaces(t))
    BY <1>5, CompactedIs DEF c
  <2> QED BY <1>7, <2>1, <2>2
<1>9. /\ DOMAIN e = DOMAIN default_memory /\ e.meta_reflections = c /\ SamePatterns(d, e) /\ SameFacts(d, e)
      /\ e.tool_signals = d.tool_signals /\ e.nodes = d.nodes /\ e.edges = d.edges
  BY <1>1, <1>2, FieldsAre DEF SamePatterns, SameFacts
<1>10. DataOK(e)
  BY <1>8, <1>9 DEF DataOK, Recording, Closed, SamePatterns
<1> QED BY <1>8, <1>9, <1>10 DEF e, more, s

\* A memory that differs elsewhere only is well made too.
LEMMA ElsewhereOnly ==
  ASSUME NEW d, DataOK(d), NEW e, DOMAIN e = DOMAIN default_memory, SameSignals(d, e), SamePatterns(d, e),
         e.nodes = d.nodes, e.edges = d.edges
  PROVE  DataOK(e)
BY DEF DataOK, Recording, Closed, SameSignals, SamePatterns

\* The other operations leave alone what the properties are about, but for the
\* facts and the preferences.
LEMMA TestRecorded ==
  ASSUME NEW d, DataOK(d), NEW a
  PROVE  LET e == record_test_signal(d, a) IN
          DataOK(e) /\ SameSignals(d, e) /\ SamePatterns(d, e) /\ SameFacts(d, e)
<1> DEFINE S == Latest(Seen(d.test_signals, a), MaxSignals)
           e == record_test_signal(d, a)
<1>1. DOMAIN d = DOMAIN default_memory
  BY DEF DataOK, Recording
<1>2. e = [d EXCEPT !.test_signals = S]
  BY DEF record_test_signal
<1> HIDE DEF S, e
<1>3. /\ DOMAIN e = DOMAIN default_memory /\ SameSignals(d, e) /\ SamePatterns(d, e) /\ SameFacts(d, e)
      /\ e.nodes = d.nodes /\ e.edges = d.edges
  BY <1>1, <1>2, FieldsAre DEF SameSignals, SamePatterns, SameFacts
<1> QED BY ElsewhereOnly, <1>3 DEF e

LEMMA DecisionRecorded ==
  ASSUME NEW d, DataOK(d), NEW a
  PROVE  LET e == remember_decision(d, a) IN
          DataOK(e) /\ SameSignals(d, e) /\ SamePatterns(d, e) /\ SameFacts(d, e)
<1> DEFINE S == Latest(Append(d.decisions, a), MaxEntries)
           e == remember_decision(d, a)
<1>1. DOMAIN d = DOMAIN default_memory
  BY DEF DataOK, Recording
<1>2. e = [d EXCEPT !.decisions = S]
  BY DEF remember_decision
<1> HIDE DEF S, e
<1>3. /\ DOMAIN e = DOMAIN default_memory /\ SameSignals(d, e) /\ SamePatterns(d, e) /\ SameFacts(d, e)
      /\ e.nodes = d.nodes /\ e.edges = d.edges
  BY <1>1, <1>2, FieldsAre DEF SameSignals, SamePatterns, SameFacts
<1> QED BY ElsewhereOnly, <1>3 DEF e

LEMMA FactAdded ==
  ASSUME NEW d, DataOK(d), NEW a
  PROVE  LET e == add_fact(d, a) IN
          /\ DataOK(e) /\ SameSignals(d, e) /\ SamePatterns(d, e)
          /\ e.facts = d.facts \cup {a} /\ e.preferences = d.preferences
<1> DEFINE S == d.facts \cup {a}
           e == add_fact(d, a)
<1>1. DOMAIN d = DOMAIN default_memory
  BY DEF DataOK, Recording
<1>2. e = [d EXCEPT !.facts = S]
  BY DEF add_fact
<1> HIDE DEF S, e
<1>3. /\ DOMAIN e = DOMAIN default_memory /\ SameSignals(d, e) /\ SamePatterns(d, e)
      /\ e.facts = S /\ e.preferences = d.preferences
      /\ e.nodes = d.nodes /\ e.edges = d.edges
  BY <1>1, <1>2, FieldsAre DEF SameSignals, SamePatterns
<1> QED BY ElsewhereOnly, <1>3 DEF e, S

LEMMA PreferenceUpdated ==
  ASSUME NEW d, DataOK(d), NEW a, NEW b
  PROVE  LET e == update_preference(d, a, b) IN
          /\ DataOK(e) /\ SameSignals(d, e) /\ SamePatterns(d, e) /\ e.facts = d.facts
          /\ e.preferences = {p \in d.preferences : p[1] # a} \cup {<<a, b>>}
<1> DEFINE S == {p \in d.preferences : p[1] # a} \cup {<<a, b>>}
           e == update_preference(d, a, b)
<1>1. DOMAIN d = DOMAIN default_memory
  BY DEF DataOK, Recording
<1>2. e = [d EXCEPT !.preferences = S]
  BY DEF update_preference
<1> HIDE DEF S, e
<1>3. /\ DOMAIN e = DOMAIN default_memory /\ SameSignals(d, e) /\ SamePatterns(d, e)
      /\ e.facts = d.facts /\ e.preferences = S
      /\ e.nodes = d.nodes /\ e.edges = d.edges
  BY <1>1, <1>2, FieldsAre DEF SameSignals, SamePatterns
<1> QED BY ElsewhereOnly, <1>3 DEF e, S

Ops == {"failure", "success", "test", "tool", "reflection", "outcome", "fact", "preference", "decision"}

LEMMA AppliedIs ==
  ASSUME NEW d, NEW u, NEW now
  PROVE  /\ u.op = "failure" => Applied(d, u, now) = record_failure_pattern(d, u.about, now)
         /\ u.op = "success" => Applied(d, u, now) = record_success_patterns_from_changes(d, u.changes, now)
         /\ u.op = "test" => Applied(d, u, now) = record_test_signal(d, u.key)
         /\ u.op = "tool" => Applied(d, u, now) = record_tool_signal(d, u.tool, u.success)
         /\ u.op = "reflection" => Applied(d, u, now) = record_meta_reflection(d, u.quality, now)
         /\ u.op = "outcome" => Applied(d, u, now) = record_task_outcome(d, u.task, u.success)
         /\ u.op = "fact" => Applied(d, u, now) = add_fact(d, u.fact)
         /\ u.op = "preference" => Applied(d, u, now) = update_preference(d, u.key, u.value)
         /\ u.op = "decision" => Applied(d, u, now) = remember_decision(d, u.task)
         /\ u.op \notin Ops => Applied(d, u, now) = d
BY DEF Applied, Ops

LEMMA AppliedOK ==
  ASSUME NEW d, DataOK(d), NEW u \in Update, NEW now \in Nat
  PROVE  DataOK(Applied(d, u, now))
<1>1. CASE u.op = "failure"
  <2>1. u.about \in Failure
    BY <1>1 DEF Failure
  <2> QED BY <1>1, <2>1, AppliedIs, FailureRecorded
<1>2. CASE u.op = "success"
  <2>1. u.changes \in Seq(Change)
    BY <1>2, UpdateAssumption
  <2> QED BY <1>2, <2>1, AppliedIs, SuccessRecorded
<1>3. CASE u.op = "test"
  <2>1. DataOK(record_test_signal(d, u.key))
    BY TestRecorded
  <2> QED BY <1>3, <2>1, AppliedIs
<1>4. CASE u.op = "tool"
  <2>1. u.tool \in Tools /\ u.success \in BOOLEAN
    BY <1>4, UpdateAssumption DEF Tools
  <2>2. DataOK(record_tool_signal(d, u.tool, u.success))
    BY <2>1, ToolCounted
  <2> QED BY <1>4, <2>2, AppliedIs
<1>5. CASE u.op = "reflection"
  <2>1. u.quality \in Qualities
    BY <1>5 DEF Qualities
  <2>2. DataOK(record_meta_reflection(d, u.quality, now))
    BY <2>1, ReflectionRecorded
  <2> QED BY <1>5, <2>2, AppliedIs
<1>6. CASE u.op = "outcome"
  BY <1>6, AppliedIs, OutcomeRecorded
<1>7. CASE u.op \in {"fact", "preference", "decision"}
  <2>1. /\ DataOK(add_fact(d, u.fact)) /\ DataOK(update_preference(d, u.key, u.value))
        /\ DataOK(remember_decision(d, u.task))
    BY FactAdded, PreferenceUpdated, DecisionRecorded
  <2> QED BY <1>7, <2>1, AppliedIs
<1>8. CASE u.op \notin Ops
  BY <1>8, AppliedIs
<1> QED BY <1>1, <1>2, <1>3, <1>4, <1>5, <1>6, <1>7, <1>8 DEF Ops

\* What an update leaves alone.
LEMMA AppliedLeaves ==
  ASSUME NEW d, DataOK(d), NEW u \in Update, NEW now \in Nat
  PROVE  LET e == Applied(d, u, now)
         IN  /\ u.op # "fact" => e.facts = d.facts
             /\ u.op # "preference" => e.preferences = d.preferences
             /\ u.op # "tool" => e.tool_signals = d.tool_signals
             /\ u.op # "failure" => e.failure_patterns = d.failure_patterns
             /\ u.op # "reflection" => e.meta_reflections = d.meta_reflections
<1> DEFINE e == Applied(d, u, now)
<1> HIDE DEF e
<1>1. CASE u.op = "failure"
  <2>1. u.about \in Failure
    BY <1>1 DEF Failure
  <2>2. SameSignals(d, e) /\ SameFacts(d, e)
    BY <1>1, <2>1, AppliedIs, FailureRecorded DEF e
  <2> QED BY <1>1, <2>2 DEF SameSignals, SameFacts, e
<1>2. CASE u.op = "success"
  <2>1. u.changes \in Seq(Change)
    BY <1>2, UpdateAssumption
  <2>2. SameSignals(d, e) /\ SameFacts(d, e) /\ e.failure_patterns = d.failure_patterns
    BY <1>2, <2>1, AppliedIs, SuccessRecorded DEF e
  <2> QED BY <1>2, <2>2 DEF SameSignals, SameFacts, e
<1>3. CASE u.op = "test"
  <2>1. LET x == record_test_signal(d, u.key) IN SameSignals(d, x) /\ SamePatterns(d, x) /\ SameFacts(d, x)
    BY TestRecorded
  <2>2. e = record_test_signal(d, u.key)
    BY <1>3, AppliedIs DEF e
  <2> QED BY <1>3, <2>1, <2>2 DEF SameSignals, SamePatterns, SameFacts, e
<1>4. CASE u.op = "tool"
  <2>1. u.tool \in Tools /\ u.success \in BOOLEAN
    BY <1>4, UpdateAssumption DEF Tools
  <2>2. LET x == record_tool_signal(d, u.tool, u.success)
        IN  SamePatterns(d, x) /\ SameFacts(d, x) /\ x.meta_reflections = d.meta_reflections
    BY <2>1, ToolCounted
  <2>3. e = record_tool_signal(d, u.tool, u.success)
    BY <1>4, AppliedIs DEF e
  <2> QED BY <1>4, <2>2, <2>3 DEF SamePatterns, SameFacts, e
<1>5. CASE u.op = "reflection"
  <2>1. u.quality \in Qualities
    BY <1>5 DEF Qualities
  <2>2. LET x == record_meta_reflection(d, u.quality, now)
        IN  SamePatterns(d, x) /\ SameFacts(d, x) /\ x.tool_signals = d.tool_signals
    BY <2>1, ReflectionRecorded
  <2>3. e = record_meta_reflection(d, u.quality, now)
    BY <1>5, AppliedIs DEF e
  <2> QED BY <1>5, <2>2, <2>3 DEF SamePatterns, SameFacts, e
<1>6. CASE u.op = "outcome"
  <2>1. SameSignals(d, e) /\ SamePatterns(d, e) /\ SameFacts(d, e)
    BY <1>6, AppliedIs, OutcomeRecorded DEF e
  <2> QED BY <1>6, <2>1 DEF SameSignals, SamePatterns, SameFacts, e
<1>7. CASE u.op = "fact"
  <2>1. LET x == add_fact(d, u.fact)
        IN  SameSignals(d, x) /\ SamePatterns(d, x) /\ x.preferences = d.preferences
    BY FactAdded
  <2>2. e = add_fact(d, u.fact)
    BY <1>7, AppliedIs DEF e
  <2> QED BY <1>7, <2>1, <2>2 DEF SameSignals, SamePatterns, e
<1>8. CASE u.op = "preference"
  <2>1. LET x == update_preference(d, u.key, u.value)
        IN  SameSignals(d, x) /\ SamePatterns(d, x) /\ x.facts = d.facts
    BY PreferenceUpdated
  <2>2. e = update_preference(d, u.key, u.value)
    BY <1>8, AppliedIs DEF e
  <2> QED BY <1>8, <2>1, <2>2 DEF SameSignals, SamePatterns, e
<1>9. CASE u.op = "decision"
  <2>1. LET x == remember_decision(d, u.task) IN SameSignals(d, x) /\ SamePatterns(d, x) /\ SameFacts(d, x)
    BY DecisionRecorded
  <2>2. e = remember_decision(d, u.task)
    BY <1>9, AppliedIs DEF e
  <2> QED BY <1>9, <2>1, <2>2 DEF SameSignals, SamePatterns, SameFacts, e
<1>10. CASE u.op \notin Ops
  BY <1>10, AppliedIs
<1> QED BY <1>1, <1>2, <1>3, <1>4, <1>5, <1>6, <1>7, <1>8, <1>9, <1>10 DEF Ops

----------------------------------------------------------------------------
(* What the memory d has kept of the updates s.                             *)

CountIn(s, U) == Cardinality({i \in DOMAIN s : s[i] \in U})

ToolsIn(s) == {u.tool : u \in {v \in ToSet(s) : v.op = "tool"}}

Tally(s, tool) == [key |-> tool, success |-> CountIn(s, RunsOf(tool, TRUE)),
                   failure |-> CountIn(s, RunsOf(tool, FALSE))]

FactsKept(d, s) == \A i \in DOMAIN s : s[i].op = "fact" => s[i].fact \in d.facts

PreferencesKept(d, s) ==
    \A i \in DOMAIN s :
        s[i].op = "preference" /\
        (\A j \in DOMAIN s : j > i => ~(s[j].op = "preference" /\ s[j].key = s[i].key)) =>
            <<s[i].key, s[i].value>> \in d.preferences

ToolsKept(d, s) ==
    Cardinality(ToolsIn(s)) <= MaxSignals =>
        ToSet(d.tool_signals) = {Tally(s, tool) : tool \in ToolsIn(s)}

FailuresKept(d, s) ==
    CountIn(s, FailuresOf) <= MaxPatterns => Occurrences(d.failure_patterns) = CountIn(s, FailuresOf)

HighKept(d, s) ==
    CountIn(s, HighReflections) <= KeepOf.high =>
        Cardinality(HighPlaces(d.meta_reflections)) = CountIn(s, HighReflections)

Kept(d, s) ==
    FactsKept(d, s) /\ PreferencesKept(d, s) /\ ToolsKept(d, s) /\ FailuresKept(d, s) /\ HighKept(d, s)

LEMMA OneMore ==
  ASSUME NEW s \in Seq(Update), NEW u \in Update
  PROVE  LET t == Append(s, u)
         IN  /\ t \in Seq(Update) /\ Len(s) \in Nat /\ DOMAIN s = 1..Len(s)
             /\ DOMAIN t = 1..(Len(s) + 1) /\ t[Len(s) + 1] = u
             /\ \A i \in 1..Len(s) : t[i] = s[i]
             /\ \A i \in DOMAIN t : i \in 1..Len(s) \/ i = Len(s) + 1
<1>1. IsList(s) /\ Len(s) \in Nat /\ DOMAIN s = 1..Len(s)
  BY ListIn, ListHas
<1> DEFINE t == Append(s, u)
<1>2. t \in Seq(Update) /\ Len(t) = Len(s) + 1 /\ t[Len(s) + 1] = u /\ \A i \in 1..Len(s) : t[i] = s[i]
  BY <1>1, AppendProperties
<1> HIDE DEF t
<1>3. DOMAIN t = 1..(Len(s) + 1)
  BY <1>2
<1>4. \A i \in DOMAIN t : i \in 1..Len(s) \/ i = Len(s) + 1
  BY <1>1, <1>3
<1> QED BY <1>1, <1>2, <1>3, <1>4 DEF t

LEMMA CountIs ==
  ASSUME NEW s \in Seq(Update), NEW U
  PROVE  IsFiniteSet({i \in DOMAIN s : s[i] \in U}) /\ CountIn(s, U) \in Nat
<1>1. {i \in DOMAIN s : s[i] \in U} \subseteq DOMAIN s /\ IsFiniteSet(DOMAIN s)
  BY ListIn, ListHas
<1>2. IsFiniteSet({i \in DOMAIN s : s[i] \in U})
  BY <1>1, FS_Subset
<1> QED BY <1>2, FS_CardinalityType DEF CountIn

LEMMA CountMore ==
  ASSUME NEW s \in Seq(Update), NEW u \in Update, NEW U
  PROVE  /\ CountIn(s, U) \in Nat
         /\ CountIn(Append(s, u), U) = CountIn(s, U) + (IF u \in U THEN 1 ELSE 0)
<1> DEFINE t == Append(s, u)
           I == {i \in DOMAIN s : s[i] \in U}
           J == {i \in DOMAIN t : t[i] \in U}
<1>1. /\ Len(s) \in Nat /\ DOMAIN s = 1..Len(s)
      /\ DOMAIN t = 1..(Len(s) + 1) /\ t[Len(s) + 1] = u
      /\ \A i \in 1..Len(s) : t[i] = s[i]
      /\ \A i \in DOMAIN t : i \in 1..Len(s) \/ i = Len(s) + 1
  BY OneMore
<1>2. IsFiniteSet(I) /\ CountIn(s, U) = Cardinality(I) /\ Cardinality(I) \in Nat /\ CountIn(t, U) = Cardinality(J)
  BY CountIs DEF CountIn
<1> HIDE DEF t
<1>3. Len(s) + 1 \notin I
  BY <1>1
<1>4. CASE u \in U
  <2>1. J = I \cup {Len(s) + 1}
    BY <1>1, <1>4
  <2> HIDE DEF I, J
  <2> QED BY <1>2, <1>3, <1>4, <2>1, FS_AddElement DEF t
<1>5. CASE u \notin U
  <2>1. J = I
    BY <1>1, <1>5
  <2> HIDE DEF I, J
  <2> QED BY <1>2, <1>5, <2>1 DEF t
<1> QED BY <1>4, <1>5

LEMMA FactsStay ==
  ASSUME NEW d, DataOK(d), NEW s \in Seq(Update), FactsKept(d, s), NEW u \in Update, NEW now \in Nat
  PROVE  FactsKept(Applied(d, u, now), Append(s, u))
<1> DEFINE e == Applied(d, u, now)
           t == Append(s, u)
<1>1. d.facts \subseteq e.facts /\ (u.op = "fact" => u.fact \in e.facts)
  <2>1. CASE u.op = "fact"
    <3>1. add_fact(d, u.fact).facts = d.facts \cup {u.fact}
      BY FactAdded
    <3> QED BY <2>1, <3>1, AppliedIs
  <2>2. CASE u.op # "fact"
    BY <2>2, AppliedLeaves
  <2> QED BY <2>1, <2>2
<1> HIDE DEF e
<1>2. /\ DOMAIN s = 1..Len(s) /\ t[Len(s) + 1] = u /\ \A i \in 1..Len(s) : t[i] = s[i]
      /\ \A i \in DOMAIN t : i \in 1..Len(s) \/ i = Len(s) + 1
  BY OneMore
<1> HIDE DEF t
<1>3. FactsKept(e, t)
  BY <1>1, <1>2 DEF FactsKept
<1> QED BY <1>3 DEF e, t

LEMMA PreferencesStay ==
  ASSUME NEW d, DataOK(d), NEW s \in Seq(Update), PreferencesKept(d, s), NEW u \in Update, NEW now \in Nat
  PROVE  PreferencesKept(Applied(d, u, now), Append(s, u))
<1> DEFINE e == Applied(d, u, now)
           t == Append(s, u)
<1>1. /\ u.op = "preference" => e.preferences = {p \in d.preferences : p[1] # u.key} \cup {<<u.key, u.value>>}
      /\ u.op # "preference" => e.preferences = d.preferences
  <2>1. CASE u.op = "preference"
    <3>1. update_preference(d, u.key, u.value).preferences =
              {p \in d.preferences : p[1] # u.key} \cup {<<u.key, u.value>>}
      BY PreferenceUpdated
    <3> QED BY <2>1, <3>1, AppliedIs
  <2>2. CASE u.op # "preference"
    BY <2>2, AppliedLeaves
  <2> QED BY <2>1, <2>2
<1> HIDE DEF e
<1>2. /\ DOMAIN s = 1..Len(s) /\ t[Len(s) + 1] = u /\ \A i \in 1..Len(s) : t[i] = s[i]
      /\ \A i \in DOMAIN t : i \in 1..Len(s) \/ i = Len(s) + 1
      /\ DOMAIN t = 1..(Len(s) + 1) /\ Len(s) \in Nat
  BY OneMore
<1> HIDE DEF t
<1>3. ASSUME NEW i \in DOMAIN t, t[i].op = "preference",
             \A j \in DOMAIN t : j > i => ~(t[j].op = "preference" /\ t[j].key = t[i].key)
      PROVE  <<t[i].key, t[i].value>> \in e.preferences
  <2>1. CASE i = Len(s) + 1
    BY <1>1, <1>2, <1>3, <2>1
  <2>2. CASE i \in 1..Len(s)
    <3>1. t[i] = s[i] /\ i \in DOMAIN s
      BY <1>2, <2>2
    <3>2. \A j \in DOMAIN s : j > i => ~(s[j].op = "preference" /\ s[j].key = s[i].key)
      BY <1>2, <1>3, <3>1
    <3>3. <<s[i].key, s[i].value>> \in d.preferences
      BY <1>3, <3>1, <3>2 DEF PreferencesKept
    <3>4. ~(u.op = "preference" /\ u.key = s[i].key)
      <4>1. Len(s) + 1 \in DOMAIN t /\ Len(s) + 1 > i
        BY <1>2, <2>2
      <4> QED BY <1>2, <1>3, <3>1, <4>1
    <3> QED BY <1>1, <3>1, <3>3, <3>4
  <2> QED BY <1>2, <2>1, <2>2
<1>4. PreferencesKept(e, t)
  BY <1>3 DEF PreferencesKept
<1> QED BY <1>4 DEF e, t

LEMMA FailuresStay ==
  ASSUME NEW d, DataOK(d), NEW s \in Seq(Update), FailuresKept(d, s), NEW u \in Update, NEW now \in Nat
  PROVE  FailuresKept(Applied(d, u, now), Append(s, u))
<1>1. CASE u.op = "failure"
  <2>1. u.about \in Failure /\ u \in FailuresOf
    BY <1>1 DEF Failure, FailuresOf
  <2> DEFINE e == Applied(d, u, now)
             n == CountIn(s, FailuresOf)
  <2>2. Occurrences(d.failure_patterns) + 1 <= MaxPatterns =>
            Occurrences(e.failure_patterns) = Occurrences(d.failure_patterns) + 1
    BY <1>1, <2>1, AppliedIs, FailureRecorded
  <2>3. n \in Nat /\ CountIn(Append(s, u), FailuresOf) = n + 1
    BY <2>1, CountMore
  <2>4. n <= MaxPatterns => Occurrences(d.failure_patterns) = n
    BY DEF FailuresKept
  <2> HIDE DEF e, n
  <2>5. MaxPatterns \in Nat
    BY MemoryAssumption
  <2>6. n + 1 <= MaxPatterns => Occurrences(e.failure_patterns) = n + 1
    BY <2>2, <2>3, <2>4, <2>5
  <2> QED BY <2>3, <2>6 DEF FailuresKept, e
<1>2. CASE u.op # "failure"
  <2>1. u \notin FailuresOf
    BY <1>2 DEF FailuresOf
  <2>2. CountIn(Append(s, u), FailuresOf) = CountIn(s, FailuresOf)
    BY <2>1, CountMore
  <2>3. Applied(d, u, now).failure_patterns = d.failure_patterns
    BY <1>2, AppliedLeaves
  <2> QED BY <2>2, <2>3 DEF FailuresKept
<1> QED BY <1>1, <1>2

LEMMA HighStay ==
  ASSUME NEW d, DataOK(d), NEW s \in Seq(Update), HighKept(d, s), NEW u \in Update, NEW now \in Nat
  PROVE  HighKept(Applied(d, u, now), Append(s, u))
<1>1. CASE u.op = "reflection"
  <2>1. u.quality \in Qualities /\ (u \in HighReflections <=> u.quality \in High)
    BY <1>1 DEF Qualities, HighReflections
  <2> DEFINE e == Applied(d, u, now)
             n == CountIn(s, HighReflections)
             k == IF u.quality \in High THEN 1 ELSE 0
             c == Cardinality(HighPlaces(d.meta_reflections))
  <2>2. c + k <= KeepOf.high => Cardinality(HighPlaces(e.meta_reflections)) = c + k
    BY <1>1, <2>1, AppliedIs, ReflectionRecorded
  <2>3. n \in Nat /\ CountIn(Append(s, u), HighReflections) = n + k /\ k \in {0, 1}
    BY <2>1, CountMore
  <2>4. n <= KeepOf.high => c = n
    BY DEF HighKept
  <2> HIDE DEF e, n, k, c
  <2>5. KeepOf.high \in Nat
    BY MemoryAssumption
  <2>6. n + k <= KeepOf.high => Cardinality(HighPlaces(e.meta_reflections)) = n + k
    BY <2>2, <2>3, <2>4, <2>5
  <2> QED BY <2>3, <2>6 DEF HighKept, e
<1>2. CASE u.op # "reflection"
  <2>1. u \notin HighReflections
    BY <1>2 DEF HighReflections
  <2>2. CountIn(Append(s, u), HighReflections) = CountIn(s, HighReflections)
    BY <2>1, CountMore
  <2>3. Applied(d, u, now).meta_reflections = d.meta_reflections
    BY <1>2, AppliedLeaves
  <2> QED BY <2>2, <2>3 DEF HighKept
<1> QED BY <1>1, <1>2

LEMMA ToolsDoneMore ==
  ASSUME NEW s \in Seq(Update), NEW u \in Update
  PROVE  /\ IsFiniteSet(ToolsIn(s))
         /\ ToolsIn(Append(s, u)) = IF u.op = "tool" THEN ToolsIn(s) \cup {u.tool} ELSE ToolsIn(s)
<1>1. IsList(s) /\ IsFiniteSet(DOMAIN s)
  BY ListIn, ListHas
<1>2. IsFiniteSet(ToolsIn(s))
  <2> DEFINE D == {i \in DOMAIN s : s[i].op = "tool"}
             f == [i \in D |-> s[i].tool]
  <2>1. D \subseteq DOMAIN s /\ IsFiniteSet(D)
    <3>1. D \subseteq DOMAIN s
      OBVIOUS
    <3> QED BY <1>1, <3>1, FS_Subset
  <2>2. f \in [D -> ToolsIn(s)] /\ \A k \in ToolsIn(s) : \E i \in D : f[i] = k
    BY DEF ToolsIn, ToSet
  <2> HIDE DEF f, D
  <2>3. f \in Surjection(D, ToolsIn(s))
    BY <2>2 DEF Surjection
  <2> QED BY <2>1, <2>3, FS_Surjection
<1>3. ToSet(Append(s, u)) = ToSet(s) \cup {u}
  BY <1>1, Appended
<1>4. ToolsIn(Append(s, u)) = IF u.op = "tool" THEN ToolsIn(s) \cup {u.tool} ELSE ToolsIn(s)
  BY <1>3 DEF ToolsIn
<1> QED BY <1>2, <1>4

\* A tool that was not used has no successes and no failures.
LEMMA NotUsed ==
  ASSUME NEW s \in Seq(Update), NEW tool, tool \notin ToolsIn(s), NEW how
  PROVE  CountIn(s, RunsOf(tool, how)) = 0
<1> DEFINE I == {i \in DOMAIN s : s[i] \in RunsOf(tool, how)}
<1>1. I = {}
  <2> SUFFICES ASSUME NEW i \in DOMAIN s, s[i] \in RunsOf(tool, how) PROVE FALSE
    OBVIOUS
  <2>1. s[i] \in ToSet(s) /\ s[i].op = "tool" /\ s[i].tool = tool
    BY DEF ToSet, RunsOf
  <2> QED BY <2>1 DEF ToolsIn
<1> QED BY <1>1, FS_EmptySet DEF CountIn

LEMMA CountChanges ==
  ASSUME NEW s \in Seq(Update), NEW u \in Update, NEW U
  PROVE  /\ CountIn(s, U) \in Nat
         /\ u \notin U => CountIn(Append(s, u), U) = CountIn(s, U)
         /\ u \in U => CountIn(Append(s, u), U) = CountIn(s, U) + 1
<1> DEFINE n == CountIn(s, U)
           m == CountIn(Append(s, u), U)
<1>1. n \in Nat /\ m = n + (IF u \in U THEN 1 ELSE 0)
  BY CountMore
<1> HIDE DEF n, m
<1>2. (u \notin U => m = n) /\ (u \in U => m = n + 1)
  BY <1>1
<1> QED BY <1>1, <1>2 DEF n, m

LEMMA TallyOfOthers ==
  ASSUME NEW s \in Seq(Update), NEW u \in Update, NEW k, u.op # "tool" \/ u.tool # k
  PROVE  Tally(Append(s, u), k) = Tally(s, k)
<1> DEFINE T == RunsOf(k, TRUE)
           F == RunsOf(k, FALSE)
           z == Append(s, u)
<1>1. u \notin T /\ u \notin F
  BY DEF RunsOf
<1> HIDE DEF T, F
<1>2. CountIn(z, T) = CountIn(s, T)
  BY <1>1, CountChanges
<1>3. CountIn(z, F) = CountIn(s, F)
  BY <1>1, CountChanges
<1> QED BY <1>2, <1>3 DEF Tally, T, F

LEMMA TallyOfTool ==
  ASSUME NEW s \in Seq(Update), NEW u \in Update, u.op = "tool", u.success \in BOOLEAN
  PROVE  LET S    == CountIn(s, RunsOf(u.tool, TRUE))
             F    == CountIn(s, RunsOf(u.tool, FALSE))
             good == IF u.success THEN 1 ELSE 0
         IN  /\ S \in Nat /\ F \in Nat
             /\ Tally(Append(s, u), u.tool) =
                    [key |-> u.tool, success |-> S + good, failure |-> F + 1 - good]
<1> DEFINE P == RunsOf(u.tool, TRUE)
           Q == RunsOf(u.tool, FALSE)
           z == Append(s, u)
           S == CountIn(s, P)
           F == CountIn(s, Q)
           good == IF u.success THEN 1 ELSE 0
<1>1. (u \in P <=> u.success) /\ (u \in Q <=> ~u.success)
  BY DEF RunsOf
<1> HIDE DEF P, Q
<1>2. S \in Nat /\ (u \in P => CountIn(z, P) = S + 1) /\ (u \notin P => CountIn(z, P) = S)
  BY CountChanges
<1>3. F \in Nat /\ (u \in Q => CountIn(z, Q) = F + 1) /\ (u \notin Q => CountIn(z, Q) = F)
  BY CountChanges
<1> DEFINE cz == CountIn(z, P)
           fz == CountIn(z, Q)
<1> HIDE DEF S, F, cz, fz
<1>4. cz = S + good /\ fz = F + 1 - good
  <2>1. CASE u.success
    <3>1. cz = S + 1 /\ fz = F /\ good = 1
      BY <1>1, <1>2, <1>3, <2>1 DEF cz, fz
    <3> QED BY <1>3, <3>1
  <2>2. CASE ~u.success
    <3>1. cz = S /\ fz = F + 1 /\ good = 0
      BY <1>1, <1>2, <1>3, <2>2 DEF cz, fz
    <3> HIDE DEF good
    <3> QED BY <1>2, <1>3, <3>1
  <2> QED BY <2>1, <2>2
<1>5. Tally(z, u.tool) = [key |-> u.tool, success |-> cz, failure |-> fz]
  BY DEF Tally, cz, fz, P, Q
<1> HIDE DEF good
<1>6. Tally(z, u.tool) = [key |-> u.tool, success |-> S + good, failure |-> F + 1 - good]
  BY <1>4, <1>5
<1> QED BY <1>2, <1>3, <1>6 DEF S, F, P, Q, good

LEMMA ToolsStay ==
  ASSUME NEW d, DataOK(d), NEW s \in Seq(Update), ToolsKept(d, s), NEW u \in Update, NEW now \in Nat
  PROVE  ToolsKept(Applied(d, u, now), Append(s, u))
<1> DEFINE e == Applied(d, u, now)
           z == Append(s, u)
<1>1. CASE u.op = "tool"
  <2> DEFINE tool == u.tool
             good == IF u.success THEN 1 ELSE 0
             old == d.tool_signals
             new == e.tool_signals
             Goal(t) ==
                          \/ /\ \A x \in ToSet(old) : x.key # tool
                             /\ ToSet(t) = ToSet(old) \cup
                                               {[key |-> tool, success |-> good, failure |-> 1 - good]}
                          \/ \E x \in ToSet(old) :
                                 /\ x.key = tool
                                 /\ ToSet(t) = (ToSet(old) \ {x}) \cup
                                         {[key |-> tool, success |-> x.success + good,
                                           failure |-> x.failure + 1 - good]}
  <2>1. u.tool \in Tools /\ u.success \in BOOLEAN
    BY <1>1, UpdateAssumption DEF Tools
  <2>2. \E t : IsList(t) /\ NoKeyTwice(t) /\ new = Latest(t, MaxSignals) /\ Goal(t)
    <3>1. e = record_tool_signal(d, u.tool, u.success)
      BY <1>1, AppliedIs
    <3>2. \E t : IsList(t) /\ NoKeyTwice(t) /\ record_tool_signal(d, u.tool, u.success).tool_signals = Latest(t, MaxSignals) /\ Goal(t)
      BY <2>1, ToolCounted
    <3> HIDE DEF e, Goal
    <3> QED BY <3>1, <3>2
  <2>3. PICK t : IsList(t) /\ NoKeyTwice(t) /\ new = Latest(t, MaxSignals) /\ Goal(t)
    BY <2>2
  <2> HIDE DEF e, z, good, old
  <2>4. good \in {0, 1}
    BY DEF good
  <2>5. ToolsIn(z) = ToolsIn(s) \cup {tool} /\ IsFiniteSet(ToolsIn(s)) /\ IsFiniteSet(ToolsIn(z))
    <3>1. IsFiniteSet(ToolsIn(s)) /\ ToolsIn(z) = ToolsIn(s) \cup {tool}
      BY <1>1, ToolsDoneMore DEF z
    <3> HIDE DEF tool
    <3> QED BY <3>1, FS_AddElement
  <2> SUFFICES ASSUME Cardinality(ToolsIn(z)) <= MaxSignals
               PROVE  ToSet(new) = {Tally(z, k) : k \in ToolsIn(z)}
    BY DEF ToolsKept, e, z
  <2>6. MaxSignals \in Nat
    BY MemoryAssumption
  <2>7. ToSet(old) = {Tally(s, k) : k \in ToolsIn(s)}
    <3>1. Cardinality(ToolsIn(s)) <= Cardinality(ToolsIn(z)) /\ Cardinality(ToolsIn(s)) \in Nat
          /\ Cardinality(ToolsIn(z)) \in Nat
      BY <2>5, FS_Subset, FS_CardinalityType
    <3>2. Cardinality(ToolsIn(s)) <= MaxSignals
      BY <2>6, <3>1
    <3> QED BY <3>2 DEF ToolsKept, old
  <2>8. \A k : k # tool => Tally(z, k) = Tally(s, k)
    BY <1>1, TallyOfOthers DEF z
  <2> DEFINE S == CountIn(s, RunsOf(tool, TRUE))
             F == CountIn(s, RunsOf(tool, FALSE))
  <2>9. S \in Nat /\ F \in Nat /\ Tally(s, tool) = [key |-> tool, success |-> S, failure |-> F]
        /\ Tally(z, tool) = [key |-> tool, success |-> S + good, failure |-> F + 1 - good]
    BY <1>1, <2>1, TallyOfTool DEF z, good, Tally
  <2> HIDE DEF S, F
  <2>10. ToSet(t) = {Tally(z, k) : k \in ToolsIn(z)}
    <3> DEFINE Other == {Tally(s, k) : k \in ToolsIn(s) \ {tool}}
    <3>1. {Tally(z, k) : k \in ToolsIn(z)} = Other \cup {Tally(z, tool)}
      BY <2>5, <2>8
    <3>2. \A k : Tally(s, k).key = k
      BY DEF Tally
    <3>3. CASE /\ \A x \in ToSet(old) : x.key # tool
               /\ ToSet(t) = ToSet(old) \cup {[key |-> tool, success |-> good, failure |-> 1 - good]}
      <4>1. tool \notin ToolsIn(s)
        BY <2>7, <3>2, <3>3
      <4>2. S = 0 /\ F = 0
        BY <4>1, NotUsed DEF S, F
      <4>3. Tally(z, tool) = [key |-> tool, success |-> good, failure |-> 1 - good]
        BY <2>4, <2>9, <4>2
      <4>4. ToSet(old) = Other
        BY <2>7, <4>1
      <4> QED BY <3>1, <3>3, <4>3, <4>4
    <3>4. CASE \E x \in ToSet(old) :
                   /\ x.key = tool
                   /\ ToSet(t) = (ToSet(old) \ {x}) \cup
                          {[key |-> tool, success |-> x.success + good, failure |-> x.failure + 1 - good]}
      <4>1. PICK x \in ToSet(old) :
                   /\ x.key = tool
                   /\ ToSet(t) = (ToSet(old) \ {x}) \cup
                          {[key |-> tool, success |-> x.success + good, failure |-> x.failure + 1 - good]}
        BY <3>4
      <4>2. x = Tally(s, tool) /\ tool \in ToolsIn(s)
        BY <2>7, <3>2, <4>1
      <4>3. x.success = S /\ x.failure = F
        BY <2>9, <4>2
      <4>4. ToSet(old) \ {x} = Other
        <5>1. \A k \in ToolsIn(s) : k # tool => Tally(s, k) # x
          BY <3>2, <4>1
        <5> QED BY <2>7, <4>2, <5>1
      <4>5. Tally(z, tool) = [key |-> tool, success |-> x.success + good, failure |-> x.failure + 1 - good]
        BY <2>9, <4>3
      <4> HIDE DEF Other
      <4> QED BY <3>1, <4>1, <4>4, <4>5
    <3> QED BY <2>3, <3>3, <3>4
  <2>11. Len(t) <= MaxSignals
    <3>1. DOMAIN t = 1..Len(t) /\ Len(t) \in Nat /\ Cardinality(DOMAIN t) = Len(t) /\ IsFiniteSet(DOMAIN t)
      BY <2>3, ListHas
    <3> DEFINE g == [i \in DOMAIN t |-> t[i].key]
    <3>2. \A i \in DOMAIN t : t[i].key \in ToolsIn(z)
      <4>1. \A k : Tally(z, k).key = k
        BY DEF Tally
      <4>2. \A i \in DOMAIN t : t[i] \in ToSet(t)
        BY DEF ToSet
      <4> QED BY <2>10, <4>1, <4>2
    <3>3. g \in [DOMAIN t -> ToolsIn(z)] /\ \A i, j \in DOMAIN t : g[i] = g[j] => i = j
      BY <2>3, <3>2 DEF NoKeyTwice
    <3> HIDE DEF g
    <3>4. g \in Injection(DOMAIN t, ToolsIn(z))
      BY <3>3 DEF Injection, IsInjective
    <3>5. Len(t) <= Cardinality(ToolsIn(z)) /\ Cardinality(ToolsIn(z)) \in Nat
      BY <2>5, <3>1, <3>4, FS_Injection, FS_CardinalityType
    <3> QED BY <2>6, <3>1, <3>5
  <2>12. new = t
    BY <2>3, <2>6, <2>11, LatestOf
  <2> QED BY <2>10, <2>12
<1>2. CASE u.op # "tool"
  <2>1. ToolsIn(z) = ToolsIn(s)
    BY <1>2, ToolsDoneMore
  <2>2. \A k : Tally(z, k) = Tally(s, k)
    BY <1>2, TallyOfOthers
  <2>3. e.tool_signals = d.tool_signals
    BY <1>2, AppliedLeaves
  <2> HIDE DEF e, z
  <2>4. ToolsKept(e, z)
    BY <2>1, <2>2, <2>3 DEF ToolsKept
  <2> QED BY <2>4 DEF e, z
<1> QED BY <1>1, <1>2

----------------------------------------------------------------------------
(* The memory file: the inductive invariant. *)

Written(w) == IF update[w] = NoUpdate THEN done ELSE Append(done, update[w])

\* Every memory there is is well made; and as long as nothing was disturbed, what
\* the file holds is what is kept of the updates done, and what a manager that has
\* seen the file is about to write is what is kept of them and of its own.
RememberedInv ==
    /\ MemoryInv
    /\ DataOK(file.data) /\ \A w \in Writer : DataOK(data[w])
    /\ done \in Seq(Update)
    /\ DOMAIN update = Writer /\ \A w \in Writer : update[w] \in Update \cup {NoUpdate}
    /\ ~disturbed =>
          /\ file.is # "torn" => Kept(file.data, done)
          /\ \A w \in Writer : (at[w] = "save" /\ fresh[w]) \/ at[w] = "write" => Kept(data[w], Written(w))

LEMMA KeptApplied ==
  ASSUME NEW d, DataOK(d), NEW s \in Seq(Update), Kept(d, s), NEW u \in Update, NEW now \in Nat
  PROVE  Kept(Applied(d, u, now), Append(s, u)) /\ (u = NoUpdate => Applied(d, u, now) = d)
<1>1. Kept(Applied(d, u, now), Append(s, u))
  BY FactsStay, PreferencesStay, ToolsStay, FailuresStay, HighStay DEF Kept
<1>2. u = NoUpdate => Applied(d, u, now) = d
  BY AppliedIs DEF NoUpdate, Ops
<1> QED BY <1>1, <1>2

LEMMA NothingKept == Kept(default_memory, <<>>)
<1>1. /\ default_memory.failure_patterns = <<>>
      /\ default_memory.tool_signals = <<>> /\ default_memory.meta_reflections = <<>>
  BY DEF default_memory
<1>2. DOMAIN <<>> = {} /\ ToSet(<<>>) = {}
  BY DEF ToSet
<1>3. \A U : CountIn(<<>>, U) = 0
  <2> SUFFICES ASSUME NEW U PROVE CountIn(<<>>, U) = 0
    OBVIOUS
  <2>1. {i \in DOMAIN <<>> : <<>>[i] \in U} = {}
    BY <1>2
  <2> QED BY <2>1, FS_EmptySet DEF CountIn
<1>4. Occurrences(<<>>) = 0
  <2> DEFINE none == <<>>
  <2>1. DOMAIN none = {}
    OBVIOUS
  <2> HIDE DEF none
  <2>2. UNION {{i} \X (1..none[i].frequency) : i \in DOMAIN none} = {}
    BY <2>1
  <2>3. Occurrences(none) = 0
    BY <2>2, FS_EmptySet DEF Occurrences
  <2> QED BY <2>3 DEF none
<1>5. Cardinality(HighPlaces(<<>>)) = 0
  <2>1. HighPlaces(<<>>) = {}
    BY <1>2 DEF HighPlaces
  <2> QED BY <2>1, FS_EmptySet
<1>6. ToolsIn(<<>>) = {}
  BY <1>2 DEF ToolsIn
<1>7. FactsKept(default_memory, <<>>) /\ PreferencesKept(default_memory, <<>>)
  BY <1>2 DEF FactsKept, PreferencesKept
<1>8. ToolsKept(default_memory, <<>>)
  BY <1>1, <1>2, <1>6 DEF ToolsKept
<1>9. FailuresKept(default_memory, <<>>) /\ HighKept(default_memory, <<>>)
  BY <1>1, <1>3, <1>4, <1>5 DEF FailuresKept, HighKept
<1> QED BY <1>7, <1>8, <1>9 DEF Kept

LEMMA KeptInitially == MemoryInit => RememberedInv
<1> SUFFICES ASSUME MemoryInit PROVE RememberedInv
  OBVIOUS
<1>1. /\ file.is = "missing" /\ file.data = default_memory /\ done = <<>>
      /\ \A w \in Writer : at[w] = "new" /\ data[w] = default_memory /\ update[w] = NoUpdate
      /\ DOMAIN update = Writer
  BY DEF MemoryInit
<1>2. MemoryInv
  BY MemoryBegins
<1>3. done \in Seq(Update)
  BY <1>1
<1> QED BY <1>1, <1>2, <1>3, DefaultOK, NothingKept DEF RememberedInv

LEMMA KeptStep ==
  ASSUME RememberedInv, [MemoryNext]_memoryVars
  PROVE  RememberedInv'
<1>1. MemoryInv /\ MemoryInv'
  BY MemoryStep DEF RememberedInv
<1>2. ASSUME NEW w \in Writer, ensure_files(w) PROVE RememberedInv'
  <2>1. /\ file' = file /\ done' = done /\ disturbed' = disturbed
        /\ data' = [data EXCEPT ![w] = default_memory] /\ update' = [update EXCEPT ![w] = NoUpdate]
        /\ at' = [at EXCEPT ![w] = IF file.is = "missing" THEN "save" ELSE "idle"]
        /\ fresh' = [fresh EXCEPT ![w] = TRUE]
    BY <1>2 DEF ensure_files
  <2>2. /\ DOMAIN update' = Writer /\ update'[w] = NoUpdate /\ data'[w] = default_memory
        /\ \A v \in Writer : v # w => /\ data'[v] = data[v] /\ update'[v] = update[v]
                                      /\ at'[v] = at[v] /\ fresh'[v] = fresh[v]
        /\ at'[w] \in {"save", "idle"} /\ (at'[w] = "save" => file.is = "missing")
    BY <1>1, <2>1 DEF RememberedInv, MemoryInv
  <2>3. ~disturbed' =>
          /\ file'.is # "torn" => Kept(file'.data, done')
          /\ \A v \in Writer : (at'[v] = "save" /\ fresh'[v]) \/ at'[v] = "write" => Kept(data'[v], Written(v)')
    <3> SUFFICES ASSUME ~disturbed',
                        NEW v \in Writer, (at'[v] = "save" /\ fresh'[v]) \/ at'[v] = "write"
                 PROVE  Kept(data'[v], Written(v)')
      BY <2>1 DEF RememberedInv
    <3>1. CASE v = w
      <4>1. file.is = "missing" /\ file.data = default_memory
        BY <1>1, <2>2, <3>1 DEF MemoryInv
      <4>2. Kept(default_memory, done)
        BY <2>1, <4>1 DEF RememberedInv
      <4>3. Written(w)' = done
        BY <2>1, <2>2 DEF Written
      <4> QED BY <2>2, <3>1, <4>2, <4>3
    <3>2. CASE v # w
      <4>1. Written(v)' = Written(v)
        BY <2>1, <2>2, <3>2 DEF Written
      <4> QED BY <2>1, <2>2, <3>2, <4>1 DEF RememberedInv
    <3> QED BY <3>1, <3>2
  <2> QED BY <1>1, <2>1, <2>2, <2>3, DefaultOK DEF RememberedInv
<1>3. ASSUME NEW w \in Writer, NEW u \in Update, begin_update(w, u) PROVE RememberedInv'
  <2> DEFINE known == u.op = "fact" /\ u.fact \in file.data.facts
             now == updates'
             e == Applied(file.data, u, now)
  <2>1. /\ file' = file /\ disturbed' = (disturbed \/ file.is = "torn")
        /\ done' = IF disturbed' THEN <<>> ELSE done
        /\ known => /\ at' = [at EXCEPT ![w] = "idle"] /\ data' = [data EXCEPT ![w] = default_memory]
                    /\ update' = [update EXCEPT ![w] = NoUpdate]
        /\ ~known => /\ at' = [at EXCEPT ![w] = "save"] /\ data' = [data EXCEPT ![w] = e]
                     /\ update' = [update EXCEPT ![w] = u]
        /\ fresh' = [fresh EXCEPT ![w] = TRUE]
        /\ updates' = updates + 1
    BY <1>3 DEF begin_update, Finished, load_memory
  <2>2. now \in Nat
    BY <1>1, <2>1 DEF MemoryInv
  <2>3. DataOK(e) /\ DataOK(default_memory)
    BY <2>2, AppliedOK, DefaultOK DEF RememberedInv
  <2> HIDE DEF known, e, now
  <2>4. /\ DOMAIN update' = Writer
        /\ \A v \in Writer : v # w => /\ data'[v] = data[v] /\ update'[v] = update[v]
                                      /\ at'[v] = at[v] /\ fresh'[v] = fresh[v]
        /\ data'[w] \in {e, default_memory} /\ update'[w] \in {u, NoUpdate}
        /\ at'[w] \in {"save", "idle"}
        /\ at'[w] = "save" => data'[w] = e /\ update'[w] = u
    BY <1>1, <2>1 DEF RememberedInv, MemoryInv
  <2>5. ~disturbed' =>
          /\ file'.is # "torn" => Kept(file'.data, done')
          /\ \A v \in Writer : (at'[v] = "save" /\ fresh'[v]) \/ at'[v] = "write" => Kept(data'[v], Written(v)')
    <3> SUFFICES ASSUME ~disturbed'
                 PROVE  /\ Kept(file'.data, done')
                        /\ \A v \in Writer : (at'[v] = "save" /\ fresh'[v]) \/ at'[v] = "write" =>
                               Kept(data'[v], Written(v)')
      OBVIOUS
    <3>1. ~disturbed /\ file.is # "torn" /\ done' = done /\ done \in Seq(Update)
      BY <2>1 DEF RememberedInv
    <3>2. Kept(file.data, done) /\ DataOK(file.data)
      BY <3>1 DEF RememberedInv
    <3>3. ASSUME NEW v \in Writer, (at'[v] = "save" /\ fresh'[v]) \/ at'[v] = "write"
          PROVE  Kept(data'[v], Written(v)')
      <4>1. CASE v = w
        <5>1. data'[w] = e /\ update'[w] = u
          BY <2>4, <3>3, <4>1
        <5>2. Kept(e, Append(done, u)) /\ (u = NoUpdate => e = file.data)
          BY <2>2, <3>1, <3>2, KeptApplied DEF e
        <5>3. Written(w)' = IF u = NoUpdate THEN done ELSE Append(done, u)
          BY <3>1, <5>1 DEF Written
        <5> QED BY <3>2, <4>1, <5>1, <5>2, <5>3
      <4>2. CASE v # w
        <5>1. Written(v)' = Written(v)
          BY <2>4, <3>1, <4>2 DEF Written
        <5> QED BY <2>4, <3>1, <3>3, <4>2, <5>1 DEF RememberedInv
      <4> QED BY <4>1, <4>2
    <3> QED BY <2>1, <3>1, <3>2, <3>3
  <2>6. done' \in Seq(Update)
    BY <2>1 DEF RememberedInv
  <2>7. \A v \in Writer : DataOK(data'[v]) /\ update'[v] \in Update \cup {NoUpdate}
    BY <2>3, <2>4 DEF RememberedInv
  <2> QED BY <1>1, <2>1, <2>4, <2>5, <2>6, <2>7 DEF RememberedInv
<1>4. ASSUME NEW w \in Writer, open_for_writing(w) PROVE RememberedInv'
  <2>1. /\ at[w] = "save" /\ at' = [at EXCEPT ![w] = "write"] /\ file' = Emptied
        /\ fresh' = [v \in Writer |-> v = w /\ fresh[w]]
        /\ disturbed' = (disturbed \/ ~fresh[w])
        /\ done' = IF disturbed' THEN <<>> ELSE done
        /\ data' = data /\ update' = update
    BY <1>4 DEF open_for_writing
  <2>2. file'.is = "torn" /\ file'.data = default_memory
    BY <2>1 DEF Emptied
  <2>3. ASSUME ~disturbed', NEW v \in Writer, (at'[v] = "save" /\ fresh'[v]) \/ at'[v] = "write"
        PROVE  Kept(data'[v], Written(v)')
    <3>1. ~disturbed /\ fresh[w] /\ done' = done
      BY <1>1, <2>1, <2>3 DEF MemoryInv
    <3>2. Written(v)' = Written(v)
      BY <2>1, <3>1 DEF Written
    <3>3. (at[v] = "save" /\ fresh[v]) \/ at[v] = "write"
      BY <1>1, <2>1, <2>3, <3>1 DEF MemoryInv
    <3> QED BY <2>1, <3>1, <3>2, <3>3 DEF RememberedInv
  <2>4. done' \in Seq(Update)
    BY <2>1 DEF RememberedInv
  <2> QED BY <1>1, <2>1, <2>2, <2>3, <2>4, DefaultOK DEF RememberedInv
<1>5. ASSUME NEW w \in Writer, write_file(w) PROVE RememberedInv'
  <2>1. /\ at[w] = "write" /\ at' = [at EXCEPT ![w] = "idle"] /\ data' = [data EXCEPT ![w] = default_memory]
        /\ update' = [update EXCEPT ![w] = NoUpdate] /\ disturbed' = disturbed
        /\ file' \in {[is |-> "whole", data |-> data[w]]} \cup (IF file = Emptied THEN {} ELSE {Emptied})
        /\ fresh' = [v \in Writer |-> FALSE]
        /\ done' = IF disturbed \/ update[w] = NoUpdate THEN done ELSE Append(done, update[w])
    BY <1>5 DEF write_file, Finished
  <2>2. file'.data \in {data[w], default_memory} /\ (file = Emptied => file'.data = data[w])
    BY <2>1 DEF Emptied
  <2>3. done' \in Seq(Update)
    BY <2>1 DEF RememberedInv
  <2>4. DOMAIN update' = Writer /\ \A v \in Writer : /\ update'[v] \in {update[v], NoUpdate}
                                                     /\ data'[v] \in {data[v], default_memory}
    BY <1>1, <2>1 DEF RememberedInv, MemoryInv
  <2>5. ASSUME ~disturbed'
        PROVE  /\ Kept(file'.data, done')
               /\ \A v \in Writer : ~((at'[v] = "save" /\ fresh'[v]) \/ at'[v] = "write")
    <3>1. ~disturbed /\ file = Emptied /\ \A v \in Writer : v # w => at[v] # "write"
      BY <1>1, <2>1, <2>5 DEF MemoryInv
    <3>2. Kept(data[w], Written(w)) /\ done' = Written(w)
      BY <2>1, <3>1 DEF RememberedInv, Written
    <3>3. \A v \in Writer : ~((at'[v] = "save" /\ fresh'[v]) \/ at'[v] = "write")
      BY <1>1, <2>1, <3>1 DEF MemoryInv
    <3> QED BY <2>2, <3>1, <3>2, <3>3
  <2>6. DataOK(file'.data) /\ \A v \in Writer : DataOK(data'[v]) /\ update'[v] \in Update \cup {NoUpdate}
    BY <2>2, <2>4, DefaultOK DEF RememberedInv
  <2> QED BY <1>1, <2>3, <2>4, <2>5, <2>6 DEF RememberedInv
<1>6. ASSUME NEW w \in Writer, save_fails(w) PROVE RememberedInv'
  <2>1. /\ data' = [data EXCEPT ![w] = default_memory] /\ update' = [update EXCEPT ![w] = NoUpdate]
        /\ disturbed' /\ done' = <<>> /\ file' = file
    BY <1>6 DEF save_fails, Finished
  <2>2. DOMAIN update' = Writer /\ \A v \in Writer : /\ update'[v] \in {update[v], NoUpdate}
                                                     /\ data'[v] \in {data[v], default_memory}
    BY <1>1, <2>1 DEF RememberedInv, MemoryInv
  <2>3. done' \in Seq(Update)
    BY <2>1
  <2>4. DataOK(file'.data) /\ \A v \in Writer : DataOK(data'[v]) /\ update'[v] \in Update \cup {NoUpdate}
    BY <2>1, <2>2, DefaultOK DEF RememberedInv
  <2> QED BY <1>1, <2>1, <2>2, <2>3, <2>4 DEF RememberedInv
<1>7. ASSUME NEW w \in Writer, Crash(w) PROVE RememberedInv'
  <2>1. /\ at' = [at EXCEPT ![w] = "new"]
        /\ data' = [data EXCEPT ![w] = default_memory] /\ update' = [update EXCEPT ![w] = NoUpdate]
        /\ disturbed' = disturbed /\ done' = done /\ file' = file /\ fresh' = fresh
    BY <1>7 DEF Crash, Finished
  <2>2. /\ DOMAIN update' = Writer
        /\ \A v \in Writer : /\ update'[v] \in {update[v], NoUpdate} /\ data'[v] \in {data[v], default_memory}
                             /\ v # w => update'[v] = update[v] /\ data'[v] = data[v] /\ at'[v] = at[v]
        /\ at'[w] = "new"
    BY <1>1, <2>1 DEF RememberedInv, MemoryInv
  <2>3. DataOK(file'.data) /\ \A v \in Writer : DataOK(data'[v]) /\ update'[v] \in Update \cup {NoUpdate}
    BY <2>1, <2>2, DefaultOK DEF RememberedInv
  <2>4. ASSUME ~disturbed', NEW v \in Writer, (at'[v] = "save" /\ fresh'[v]) \/ at'[v] = "write"
        PROVE  Kept(data'[v], Written(v)')
    <3>1. v # w
      BY <2>2, <2>4
    <3>2. Written(v)' = Written(v)
      BY <2>1, <2>2, <3>1 DEF Written
    <3> QED BY <2>1, <2>2, <2>4, <3>1, <3>2 DEF RememberedInv
  <2> QED BY <1>1, <2>1, <2>2, <2>3, <2>4 DEF RememberedInv
<1>8. CASE UNCHANGED memoryVars
  <2>1. \A w \in Writer : Written(w)' = Written(w)
    BY <1>8 DEF memoryVars, Written
  <2> QED BY <1>1, <1>8, <2>1 DEF memoryVars, RememberedInv
<1> QED BY <1>2, <1>3, <1>4, <1>5, <1>6, <1>7, <1>8 DEF MemoryNext

LEMMA RememberedInvariant == MemorySpec => []RememberedInv
<1>1. RememberedInv /\ [MemoryNext]_memoryVars => RememberedInv'
  BY KeptStep
<1> QED BY <1>1, KeptInitially, PTL DEF MemorySpec

\* What becomes of the file in a step.
LEMMA FileStep ==
  ASSUME RememberedInv, MemoryNext
  PROVE  \/ file' = file \/ file' = Emptied
         \/ \E w \in Writer : file' = [is |-> "whole", data |-> data[w]]
BY DEF MemoryNext, ensure_files, begin_update, open_for_writing, write_file, save_fails, Crash

\* Every manager is somewhere in an update and the file holds a memory, with all
\* its parts, whatever was written into it before.
THEOREM MemoryTypeCorrect == MemorySpec => []MemoryTypeOK
<1> DEFINE FileInv == file.is \in {"missing", "torn", "whole"}
<1>1. MemoryInit => FileInv
  BY DEF MemoryInit
<1>2. RememberedInv /\ FileInv /\ [MemoryNext]_memoryVars => FileInv'
  BY FileStep DEF memoryVars, Emptied
<1>3. RememberedInv /\ FileInv => MemoryTypeOK
  BY DEF RememberedInv, MemoryInv, DataOK, Recording, MemoryTypeOK
<1> QED BY <1>1, <1>2, <1>3, RememberedInvariant, PTL DEF MemorySpec

\* In every memory the file ever holds, however updates overlapped and wherever
\* writes were cut short, the ids of the patterns are distinct, though they were
\* merged and sorted, and until the list of nodes is full every edge joins two
\* nodes (_dedupe_patterns, _upsert_graph_node and _upsert_graph_edge).
THEOREM GraphStaysClosed == MemorySpec => []GraphClosed
<1>1. RememberedInv => GraphClosed
  <2> SUFFICES ASSUME RememberedInv PROVE GraphClosed
    OBVIOUS
  <2> DEFINE d == file.data
  <2>1. DataOK(d)
    BY DEF RememberedInv
  <2>2. \A patterns \in {d.failure_patterns, d.success_patterns} :
            IsInjective([i \in DOMAIN patterns |-> patterns[i].id])
    BY <2>1 DEF DataOK, NoIdTwice
  <2>3. Len(d.nodes) < MaxNodes =>
            \A i \in DOMAIN d.edges : ToSet(d.edges[i]) \subseteq ToSet(d.nodes)
    <3>1. \A i \in DOMAIN d.edges : d.edges[i] \in ToSet(d.edges)
      BY DEF ToSet
    <3> QED BY <2>1, <3>1 DEF DataOK, Recording, Closed
  <2> QED BY <2>2, <2>3 DEF GraphClosed
<1> QED BY <1>1, RememberedInvariant, PTL

LEMMA KeptIsKept == RememberedInv => MemoryKeeps /\ HighQualityKept
<1> SUFFICES ASSUME RememberedInv, Readable, ~disturbed
             PROVE  (Readable /\ ~disturbed => MemoryKeeps) /\ HighQualityKept
  BY DEF MemoryKeeps, HighQualityKept
<1>1. Kept(file.data, done)
  BY DEF RememberedInv, Readable
<1>2. \A U : Count(U) = CountIn(done, U)
  BY DEF Count, CountIn
<1>3. ToolsDone = ToolsIn(done)
  BY DEF ToolsDone, ToolsIn
<1>4. Cardinality(ToolsDone) <= MaxSignals =>
          ToSet(file.data.tool_signals) =
              {[key |-> tool, success |-> Count(RunsOf(tool, TRUE)),
                failure |-> Count(RunsOf(tool, FALSE))] : tool \in ToolsDone}
  BY <1>1, <1>2, <1>3 DEF Kept, ToolsKept, Tally
<1>5. Count(FailuresOf) <= MaxPatterns => Occurrences(file.data.failure_patterns) = Count(FailuresOf)
  BY <1>1, <1>2 DEF Kept, FailuresKept
<1>6. HighQualityKept
  BY <1>1, <1>2 DEF Kept, HighKept, HighPlaces, HighQualityKept
<1>7. FactsKept(file.data, done) /\ PreferencesKept(file.data, done)
  BY <1>1 DEF Kept
<1>8. MemoryKeeps
  BY <1>4, <1>5, <1>7 DEF FactsKept, PreferencesKept, MemoryKeeps
<1> QED BY <1>6, <1>8

\* As long as updates do not overlap and none is cut short the memory keeps what
\* it was told, for any number of managers and of updates and whatever the limits:
\* the facts, the last value of each preference, the counts of each tool, and the
\* failures however patterns were merged (Applied, over _load_memory and
\* _save_memory).
THEOREM MemoryIsKept == MemorySpec => []MemoryKeeps
<1>1. RememberedInv => MemoryKeeps
  BY KeptIsKept
<1> QED BY <1>1, RememberedInvariant, PTL

\* And the compaction of the reflections leaves those of high quality, whatever
\* else is recorded, until there are more of them than are kept
\* (_compact_meta_reflections).
THEOREM HighQualityIsKept == MemorySpec => []HighQualityKept
<1>1. RememberedInv => HighQualityKept
  BY KeptIsKept
<1> QED BY <1>1, RememberedInvariant, PTL
=============================================================================
