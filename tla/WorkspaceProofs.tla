-------------------------- MODULE WorkspaceProofs --------------------------
(****************************************************************************)
(* Proofs about Workspace: the list of checkpoints, the type invariant,     *)
(* what a rollback restores, that undoing the stack of applied diffs leads  *)
(* every file back, and that a failed batch is undone.                      *)
(****************************************************************************)
EXTENDS Workspace, SequenceTheorems, WellFoundedInduction, TLAPS

----------------------------------------------------------------------------
\* Unless some were pruned, checkpoints are numbered by their place in the
\* order list, whatever was cut off its end.
Numbered ==
    /\ \A i \in DOMAIN order : order[i] = i - 1
    /\ stuck = {} => DOMAIN memory = ToSet(order)

\* The inductive invariant of the checkpoint list.
ListInv ==
    /\ order \in Seq(Nat)
    /\ pruned \in BOOLEAN /\ stuck \subseteq Nat
    /\ CheckpointsListed
    /\ ~pruned => Numbered

\* The variables of the checkpoint list.
listVars == <<order, memory, disk, pruned, stuck>>

\* Only the manager's own operations change the list.
LEMMA ListSteps ==
  ASSUME [Next]_vars
  PROVE  \/ Checkpoint
         \/ pc = "restore" /\ finish_rollback
         \/ UNCHANGED listVars
  BY DEF Next, vars, Edit, Tick, apply_changes, ApplyChange, ApplyChangeFails, apply_multiple,
         BeginBatch, ApplyDiff, ApplyDiffFails, ApplyDiffRaises, UndoDiff, UndoDiffFails, EndBatch,
         UndoLast, RollbackTo, RestoreFile, RestoreFileFails, FinishRollback, rollback_to,
         restore_file, restore_file_Fails, rollbackVars, listVars

\* What the operations on maps of checkpoints do.
LEMMA StoreIs ==
  ASSUME NEW map, NEW id, NEW value
  PROVE  /\ DOMAIN Store(map, id, value) = DOMAIN map \cup {id}
         /\ \A i \in DOMAIN Store(map, id, value) :
               Store(map, id, value)[i] = IF i = id THEN value ELSE map[i]
  BY DEF Store

LEMMA WithoutIs ==
  ASSUME NEW map, NEW S
  PROVE  /\ DOMAIN Without(map, S) = DOMAIN map \ S
         /\ \A i \in DOMAIN Without(map, S) :
               i \in DOMAIN map /\ Without(map, S)[i] = map[i]
  BY DEF Without, Restrict

LEMMA FirstGrows ==
  ASSUME NEW ids, NEW n \in Nat, n > 0
  PROVE  First(ids, n) = First(ids, n - 1) \cup {ids[n]}
<1>1. 1..n = 1..(n - 1) \cup {n}
  OBVIOUS
<1> QED BY <1>1 DEF First

\* What a piece of a list is.
LEMMA Cut ==
  ASSUME NEW S, NEW s \in Seq(S), NEW m \in 1..(Len(s) + 1), NEW n \in (m - 1)..Len(s)
  PROVE  /\ SubSeq(s, m, n) \in Seq(S)
         /\ Len(SubSeq(s, m, n)) = n - m + 1
         /\ \A i \in 1..(n - m + 1) : SubSeq(s, m, n)[i] = s[m + i - 1]
  BY SubSeqProperties

\* What is left of a list without its first k elements.
LEMMA Drop ==
  ASSUME NEW S, NEW s \in Seq(S), NEW k \in 0..Len(s)
  PROVE  /\ SubSeq(s, k + 1, Len(s)) \in Seq(S)
         /\ Len(SubSeq(s, k + 1, Len(s))) = Len(s) - k
         /\ \A i \in 1..(Len(s) - k) : SubSeq(s, k + 1, Len(s))[i] = s[i + k]
<1>1. /\ Len(s) \in Nat /\ k \in Nat
      /\ k + 1 \in 1..(Len(s) + 1) /\ Len(s) \in ((k + 1) - 1)..Len(s)
      /\ Len(s) - (k + 1) + 1 = Len(s) - k
  OBVIOUS
<1> DEFINE rest == SubSeq(s, k + 1, Len(s))
<1>2. /\ rest \in Seq(S)
      /\ Len(rest) = Len(s) - (k + 1) + 1
      /\ \A i \in 1..(Len(s) - (k + 1) + 1) : rest[i] = s[(k + 1) + i - 1]
  BY <1>1, Cut
<1> HIDE DEF rest
<1>3. ASSUME NEW i \in 1..(Len(s) - k) PROVE rest[i] = s[i + k]
  <2>1. (k + 1) + i - 1 = i + k
    BY <1>1
  <2> QED BY <1>1, <1>2, <2>1
<1> QED BY <1>1, <1>2, <1>3 DEF rest

\* A set of numbers that is not empty has a least one.
LEMMA Least ==
  ASSUME NEW T, T \subseteq Nat, T # {}
  PROVE  \E x \in T : \A y \in T : x <= y
<1>1. PICK x \in T : \A y \in T : ~(<<y, x>> \in OpToRel(<, Nat))
  BY NatLessThanWellFounded, WFMin
<1>2. ASSUME NEW y \in T PROVE x <= y
  <2>1. ~(y < x)
    BY <1>1, <1>2 DEF OpToRel
  <2> QED BY <2>1
<1> QED BY <1>2

\* create_checkpoint keeps the list in order, however much it prunes and
\* whether or not the last file it prunes can be unlinked.
LEMMA CheckpointList ==
  ASSUME ListInv, NEW S, NEW refused, create_checkpoint(S, refused)
  PROVE  ListInv'
<1> DEFINE longer == Append(order, NextId)
           excess == IF Len(longer) > MaxCheckpoints THEN Len(longer) - MaxCheckpoints ELSE 0
           cp     == NewCheckpoint(S, refused)
           saved  == Store(disk, NextId, {cp})
<1>1. PICK n \in 0..excess :
        /\ order' = SubSeq(longer, n + 1, Len(longer))
        /\ memory' = Without(Store(memory, NextId, cp), First(longer, n))
        /\ \/ /\ n = excess
              /\ disk' = Without(saved, First(longer, n)) /\ UNCHANGED stuck
           \/ /\ n > 0 /\ longer[n] \in DOMAIN saved \ First(longer, n - 1)
              /\ disk' = Without(saved, First(longer, n - 1))
              /\ stuck' = stuck \cup {longer[n]}
        /\ pruned' = (pruned \/ n > 0)
  BY DEF create_checkpoint
<1>2. /\ order \in Seq(Nat) /\ Len(order) \in Nat /\ NextId = Len(order)
      /\ longer \in Seq(Nat) /\ Len(longer) = Len(order) + 1
      /\ excess \in 0..Len(longer)
      /\ \A i \in 1..Len(order) : longer[i] = order[i]
      /\ longer[Len(order) + 1] = Len(order)
  BY CheckpointsAssumption DEF ListInv, NextId
<1>3. DOMAIN saved = DOMAIN disk \cup {NextId}
  BY StoreIs
<1> HIDE DEF longer, excess, cp, saved
<1>4. n \in Nat /\ n \in 0..Len(longer) /\ \A i \in 1..n : longer[i] \in Nat
  <2>1. n \in 0..excess
    BY <1>1
  <2> QED BY <1>2, <2>1
<1>5. /\ order' \in Seq(Nat)
      /\ Len(order') = Len(longer) - n
      /\ \A i \in 1..(Len(longer) - n) : order'[i] = longer[i + n]
  BY <1>1, <1>2, <1>4, Drop
<1>6. DOMAIN memory' = (DOMAIN memory \cup {NextId}) \ First(longer, n)
  <2>1. DOMAIN memory' = DOMAIN Store(memory, NextId, cp) \ First(longer, n)
    BY <1>1, WithoutIs
  <2> QED BY <2>1, StoreIs
<1>7. \A x \in DOMAIN memory' : x \in ToSet(order')
  <2> SUFFICES ASSUME NEW x \in DOMAIN memory' PROVE x \in ToSet(order')
    OBVIOUS
  <2>1. PICK i \in 1..Len(longer) : x = longer[i]
    <3>1. CASE x = NextId
      BY <1>2, <3>1
    <3>2. CASE x \in DOMAIN memory
      BY <1>2, <3>2 DEF ListInv, CheckpointsListed, ToSet
    <3> QED BY <1>6, <3>1, <3>2
  <2>2. i > n
    BY <1>4, <1>6, <2>1 DEF First
  <2>3. i - n \in 1..Len(order') /\ order'[i - n] = x
    BY <1>2, <1>4, <1>5, <2>1, <2>2
  <2> QED BY <2>3, <1>5 DEF ToSet
<1>8. stuck' \subseteq Nat /\ DOMAIN disk' \ stuck' \subseteq DOMAIN memory'
  <2>0. stuck \subseteq Nat /\ DOMAIN disk \ stuck \subseteq DOMAIN memory
    BY DEF ListInv, CheckpointsListed
  <2>1. CASE disk' = Without(saved, First(longer, n)) /\ UNCHANGED stuck
    <3>1. DOMAIN disk' = (DOMAIN disk \cup {NextId}) \ First(longer, n)
      BY <1>3, <2>1, WithoutIs
    <3> QED BY <1>6, <2>0, <2>1, <3>1
  <2>2. CASE /\ n > 0 /\ disk' = Without(saved, First(longer, n - 1))
             /\ stuck' = stuck \cup {longer[n]}
    <3>1. DOMAIN disk' = (DOMAIN disk \cup {NextId}) \ First(longer, n - 1)
      BY <1>3, <2>2, WithoutIs
    <3>2. First(longer, n) = First(longer, n - 1) \cup {longer[n]}
      BY <1>4, <2>2, FirstGrows
    <3>3. longer[n] \in Nat
      BY <1>4, <2>2
    <3> QED BY <1>6, <2>0, <2>2, <3>1, <3>2, <3>3
  <2> QED BY <1>1, <2>1, <2>2
<1>9. ASSUME ~pruned' PROVE Numbered'
  <2>1. ~pruned /\ n = 0
    <3>1. ~pruned /\ ~(n > 0)
      BY <1>1, <1>9, Zenon
    <3> QED BY <1>4, <3>1
  <2>2. Numbered
    BY <2>1 DEF ListInv
  <2>3. Len(order') = Len(order) + 1 /\ \A i \in 1..Len(order') : order'[i] = longer[i]
    BY <1>2, <1>5, <2>1
  <2>4. \A i \in 1..Len(order') : order'[i] = i - 1
    <3>1. \A i \in 1..Len(order) : order[i] = i - 1
      <4>1. DOMAIN order = 1..Len(order)
        BY <1>2
      <4> QED BY <2>2, <4>1 DEF Numbered
    <3>2. SUFFICES ASSUME NEW i \in 1..Len(order') PROVE longer[i] = i - 1
      BY <2>3
    <3>3. CASE i = Len(order) + 1
      BY <1>2, <3>3
    <3>4. CASE i \in 1..Len(order)
      BY <1>2, <3>1, <3>4
    <3> QED BY <1>2, <2>3, <3>3, <3>4
  <2>5. DOMAIN memory' = DOMAIN memory \cup {NextId} /\ stuck' = stuck
    <3>1. First(longer, n) = {}
      BY <2>1 DEF First
    <3> QED BY <1>1, <1>6, <2>1, <3>1
  <2>6. ToSet(order') = ToSet(order) \cup {NextId}
    <3>2. DOMAIN order' = 1..(Len(order) + 1) /\ DOMAIN order = 1..Len(order)
      BY <1>2, <1>5, <2>3
    <3>3. \A i \in 1..Len(order) : order'[i] = order[i]
      BY <1>2, <2>3
    <3>4. order'[Len(order) + 1] = NextId
      BY <1>2, <2>3
    <3>5. ToSet(order') = {order'[i] : i \in 1..(Len(order) + 1)}
      BY <3>2 DEF ToSet
    <3>6. ToSet(order) = {order[i] : i \in 1..Len(order)}
      BY <3>2 DEF ToSet
    <3>7. 1..(Len(order) + 1) = 1..Len(order) \cup {Len(order) + 1}
      BY <1>2
    <3> QED BY <3>3, <3>4, <3>5, <3>6, <3>7
  <2> QED BY <1>5, <2>2, <2>4, <2>5, <2>6 DEF Numbered
<1>10. pruned' \in BOOLEAN
  BY <1>1 DEF ListInv
<1> QED BY <1>5, <1>7, <1>8, <1>9, <1>10 DEF ListInv, CheckpointsListed

\* So does a checkpoint that could not be written.
LEMMA CheckpointRaisesList ==
  ASSUME ListInv, NEW S, NEW refused, create_checkpoint_Raises(S, refused)
  PROVE  ListInv'
<1>1. /\ order' = Append(order, NextId)
      /\ DOMAIN memory' = DOMAIN memory \cup {NextId}
      /\ DOMAIN disk' \subseteq DOMAIN disk \cup {NextId}
      /\ pruned' = pruned /\ stuck' = stuck
  <2>1. /\ DOMAIN Store(memory, NextId, NewCheckpoint(S, refused)) = DOMAIN memory \cup {NextId}
        /\ DOMAIN Store(disk, NextId, {}) = DOMAIN disk \cup {NextId}
    BY StoreIs
  <2> QED BY <2>1 DEF create_checkpoint_Raises
<1>2. /\ order' \in Seq(Nat) /\ Len(order) \in Nat /\ NextId = Len(order)
      /\ Len(order') = Len(order) + 1
      /\ \A i \in 1..Len(order) : order'[i] = order[i]
      /\ order'[Len(order) + 1] = NextId
  BY <1>1 DEF ListInv, NextId
<1>3. ToSet(order') = ToSet(order) \cup {NextId}
  BY <1>2 DEF ListInv, ToSet
<1>4. CheckpointsListed'
  BY <1>1, <1>3 DEF ListInv, CheckpointsListed
<1>5. ~pruned' => Numbered'
  BY <1>1, <1>2, <1>3 DEF ListInv, Numbered
<1> QED BY <1>1, <1>2, <1>4, <1>5 DEF ListInv

\* And a rollback, which cuts the list after its target, or stops on the way
\* at a file that cannot be unlinked.
LEMMA FinishList ==
  ASSUME ListInv, finish_rollback
  PROVE  ListInv'
<1> DEFINE index == CHOOSE i \in DOMAIN order :
                      order[i] = target /\ \A j \in 1..(i - 1) : order[j] # target
           later == SubSeq(order, index + 1, Len(order))
<1>1. /\ order \in Seq(Nat) /\ Len(order) \in Nat /\ DOMAIN order = 1..Len(order)
      /\ stuck \subseteq Nat /\ DOMAIN disk \ stuck \subseteq DOMAIN memory
      /\ DOMAIN memory \subseteq ToSet(order) /\ pruned' = pruned
  BY DEF ListInv, CheckpointsListed, finish_rollback
<1>2. ASSUME target \in ToSet(order)
      PROVE  /\ index \in 1..Len(order)
             /\ later \in Seq(Nat) /\ Len(later) = Len(order) - index
             /\ \A i \in 1..(Len(order) - index) : later[i] = order[i + index]
  <2>1. PICK k \in 1..Len(order) : order[k] = target
    BY <1>1, <1>2 DEF ToSet
  <2>2. \E k1 \in 1..Len(order) : order[k1] = target /\ \A j \in 1..(k1 - 1) : order[j] # target
    <3> DEFINE At == {k2 \in Nat : k2 \in 1..Len(order) /\ order[k2] = target}
    <3>1. At # {}
      BY <1>1, <2>1
    <3>2. PICK n \in At : \A m \in At : n <= m
      BY <3>1, Least
    <3>3. ASSUME NEW j \in 1..(n - 1) PROVE order[j] # target
      BY <1>1, <3>2, <3>3
    <3> QED BY <3>2, <3>3
  <2>3. index \in 1..Len(order)
    BY <1>1, <2>2
  <2> HIDE DEF index
  <2>4. index \in 0..Len(order)
    BY <1>1, <2>3
  <2> QED BY <1>1, <2>3, <2>4, Drop
<1>3. CASE UNCHANGED <<order, memory, disk, stuck>>
  BY <1>1, <1>3 DEF ListInv, CheckpointsListed, Numbered
<1>4. CASE /\ target \in ToSet(order)
           /\ order' = SubSeq(order, 1, index)
           /\ memory' = Without(memory, ToSet(later))
           /\ disk' = Without(disk, ToSet(later))
           /\ UNCHANGED stuck
  <2>1. index \in 1..Len(order)
    BY <1>4, <1>2
  <2> HIDE DEF index
  <2>2. /\ order' \in Seq(Nat) /\ Len(order') = index
        /\ \A i \in 1..index : order'[i] = order[i]
    BY <1>1, <1>4, <2>1
  <2>3. /\ later \in Seq(Nat) /\ Len(later) = Len(order) - index
        /\ \A i \in 1..(Len(order) - index) : later[i] = order[i + index]
    BY <1>4, <1>2
  <2>4. /\ DOMAIN memory' = DOMAIN memory \ ToSet(later)
        /\ DOMAIN disk' = DOMAIN disk \ ToSet(later)
    BY <1>4, WithoutIs
  <2> HIDE DEF later
  <2>5. \A x \in DOMAIN memory' : x \in ToSet(order')
    <3> SUFFICES ASSUME NEW x \in DOMAIN memory' PROVE x \in ToSet(order')
      OBVIOUS
    <3>1. PICK i \in 1..Len(order) : order[i] = x
      BY <1>1, <2>4 DEF ToSet
    <3>2. i <= index
      <4>1. SUFFICES ASSUME i > index PROVE FALSE
        BY <2>1
      <4> DEFINE k == i - index
      <4>2. k \in 1..(Len(order) - index) /\ k + index = i
        BY <1>1, <2>1, <3>1, <4>1
      <4> HIDE DEF k
      <4>3. later[k] = x
        BY <2>3, <3>1, <4>2
      <4>4. k \in DOMAIN later
        BY <2>3, <4>2
      <4> QED BY <2>4, <4>3, <4>4 DEF ToSet
    <3> QED BY <2>1, <2>2, <3>1, <3>2 DEF ToSet
  <2>6. CheckpointsListed'
    BY <1>1, <1>4, <2>4, <2>5 DEF CheckpointsListed
  <2>7. ASSUME ~pruned' PROVE Numbered'
    <3>1. Numbered
      BY <1>1, <2>7 DEF ListInv
    <3>2. \A i \in 1..Len(order) : order[i] = i - 1
      BY <1>1, <3>1 DEF Numbered
    <3>3. \A i \in DOMAIN order' : order'[i] = i - 1
      BY <1>1, <2>1, <2>2, <3>2
    <3>4. ASSUME stuck' = {} PROVE \A x \in ToSet(order') : x \in DOMAIN memory'
      <4> SUFFICES ASSUME NEW i \in 1..index PROVE order[i] \in DOMAIN memory'
        BY <2>1, <2>2 DEF ToSet
      <4>1. order[i] \notin ToSet(later)
        <5> SUFFICES ASSUME NEW j \in 1..(Len(order) - index), later[j] = order[i] PROVE FALSE
          BY <2>1, <2>3, <1>1 DEF ToSet
        <5>1. j + index \in 1..Len(order) /\ i \in 1..Len(order) /\ order[j + index] = order[i]
          BY <1>1, <2>1, <2>3
        <5> QED BY <1>1, <2>1, <3>2, <5>1
      <4>2. order[i] \in DOMAIN memory
        <5>1. DOMAIN memory = ToSet(order)
          BY <1>4, <3>1, <3>4 DEF Numbered
        <5>2. i \in DOMAIN order
          BY <1>1, <2>1
        <5> QED BY <5>1, <5>2 DEF ToSet
      <4> QED BY <2>4, <4>1, <4>2
    <3> QED BY <2>5, <3>3, <3>4 DEF Numbered
  <2> QED BY <1>1, <1>4, <2>2, <2>6, <2>7 DEF ListInv
<1>5. CASE /\ \E n \in DOMAIN later :
                 /\ later[n] \in DOMAIN disk \ First(later, n - 1)
                 /\ memory' = Without(memory, First(later, n))
                 /\ disk' = Without(disk, First(later, n - 1))
                 /\ stuck' = stuck \cup {later[n]}
           /\ target \in ToSet(order) /\ UNCHANGED order
  <2>1. PICK n \in DOMAIN later :
           /\ later[n] \in DOMAIN disk \ First(later, n - 1)
           /\ memory' = Without(memory, First(later, n))
           /\ disk' = Without(disk, First(later, n - 1))
           /\ stuck' = stuck \cup {later[n]}
    BY <1>5
  <2>2. later \in Seq(Nat)
    BY <1>5, <1>2
  <2> HIDE DEF index, later
  <2>3. n \in Nat /\ n > 0
    BY <2>1, <2>2
  <2>4. later[n] \in Nat
    <3>1. DOMAIN memory \subseteq Nat
      BY <1>1 DEF ToSet
    <3> QED BY <1>1, <2>1, <3>1
  <2>5. /\ DOMAIN memory' = DOMAIN memory \ First(later, n)
        /\ DOMAIN disk' = DOMAIN disk \ First(later, n - 1)
        /\ First(later, n) = First(later, n - 1) \cup {later[n]}
    BY <2>1, <2>3, WithoutIs, FirstGrows
  <2>6. CheckpointsListed' /\ stuck' \subseteq Nat
    BY <1>1, <1>5, <2>1, <2>4, <2>5 DEF CheckpointsListed
  <2>7. ~pruned' => Numbered'
    BY <1>1, <1>5, <2>1 DEF ListInv, Numbered
  <2> QED BY <1>1, <1>5, <2>6, <2>7 DEF ListInv
<1> QED BY <1>3, <1>4, <1>5 DEF finish_rollback

\* Every state has the checkpoints in order.
THEOREM ListInvariant == Spec => []ListInv
<1>1. Init => ListInv
  <2> SUFFICES ASSUME Init PROVE ListInv
    OBVIOUS
  <2>1. order = <<>> /\ memory = <<>> /\ disk = <<>> /\ pruned = FALSE /\ stuck = {}
    BY DEF Init, RollbackInit
  <2>2. <<>> \in Seq(Nat) /\ DOMAIN <<>> = {} /\ ToSet(<<>>) = {}
    BY DEF ToSet
  <2> QED BY <2>1, <2>2 DEF ListInv, CheckpointsListed, Numbered
<1>2. ListInv /\ [Next]_vars => ListInv'
  <2> SUFFICES ASSUME ListInv, [Next]_vars PROVE ListInv'
    OBVIOUS
  <2>1. CASE Checkpoint
    BY <2>1, CheckpointList, CheckpointRaisesList DEF Checkpoint
  <2>2. CASE finish_rollback
    BY <2>2, FinishList
  <2>3. CASE UNCHANGED listVars
    BY <2>3 DEF listVars, ListInv, CheckpointsListed, Numbered
  <2> QED BY <2>1, <2>2, <2>3, ListSteps
<1> QED BY <1>1, <1>2, PTL DEF Spec

\* Numbers are not given twice until checkpoints are pruned, however many
\* times the list is cut by rollbacks (create_checkpoint, rollback_to).
THEOREM CheckpointIdsDistinct == Spec => []IdsDistinctUntilPruned
<1>1. ListInv => IdsDistinctUntilPruned
  BY DEF ListInv, Numbered, IdsDistinctUntilPruned
<1> QED BY <1>1, ListInvariant, PTL

\* What is in memory is listed, and what is on disk is in memory but for the
\* very files that could not be unlinked, wherever the removal of checkpoints
\* was broken off (_cleanup_old_checkpoints, rollback_to).
THEOREM CheckpointsAreListed == Spec => []CheckpointsListed
<1>1. ListInv => CheckpointsListed
  BY DEF ListInv
<1> QED BY <1>1, ListInvariant, PTL

----------------------------------------------------------------------------
\* The entries of the stack: what will be written back is content.
AppliedEntry ==
    {e \in [diff : Diff, original : FileState, before : FileState] :
        IF e.diff.type = "ADD" THEN e.original = Absent ELSE e.original \in Content}

\* Every checkpoint there is, in memory or on disk.
Kept == {memory[id] : id \in DOMAIN memory} \cup UNION {disk[id] : id \in DOMAIN disk}

\* The inductive invariant of the guard, the stack and the checkpoints' files.
DataInv ==
    /\ GuardTypeOK
    /\ applied \in Seq(AppliedEntry)
    /\ base \in [Path -> FileState] /\ touched \subseteq Path
    /\ todo \in Seq(Diff)
    /\ count \in Nat /\ (pc \in {"multiple", "undo"} => count <= Len(applied))
    /\ \A cp \in Kept : CheckpointOK(cp, DOMAIN backups)
    /\ target \in Gettable \cup {NoCheckpoint}
    /\ pc = "restore" <=> target # NoCheckpoint
    /\ left \subseteq (IF target = NoCheckpoint THEN {} ELSE DOMAIN get_checkpoint(target).snapshots)

----------------------------------------------------------------------------
\* What can be had of checkpoints is among what is kept.
LEMMA GotIsKept ==
  ASSUME NEW id \in Gettable
  PROVE  get_checkpoint(id) \in Kept
<1>1. CASE id \in DOMAIN memory
  BY <1>1 DEF get_checkpoint, Kept
<1>2. CASE id \notin DOMAIN memory
  <2>1. id \in DOMAIN disk /\ \E cp \in disk[id] : TRUE
    BY <1>2 DEF Gettable
  <2>2. get_checkpoint(id) \in disk[id]
    BY <1>2, <2>1 DEF get_checkpoint
  <2> QED BY <2>1, <2>2 DEF Kept
<1> QED BY <1>1, <1>2

\* Checkpoint numbers are numbers.
LEMMA GettableIsNat ==
  ASSUME ListInv
  PROVE  Gettable \subseteq Nat
<1>1. DOMAIN memory \subseteq Nat /\ DOMAIN disk \subseteq Nat
  BY DEF ListInv, CheckpointsListed, ToSet
<1> QED BY <1>1 DEF Gettable

\* Taking one adds one.
LEMMA KeptGrows ==
  ASSUME NEW S, NEW refused,
         create_checkpoint(S, refused) \/ create_checkpoint_Raises(S, refused)
  PROVE  Kept' \subseteq Kept \cup {NewCheckpoint(S, refused)}
<1> DEFINE new   == NewCheckpoint(S, refused)
           known == Store(memory, NextId, new)
           saved == Store(disk, NextId, {new})
           torn  == Store(disk, NextId, {})
<1>1. /\ \A id \in DOMAIN memory' : id \in DOMAIN known /\ memory'[id] = known[id]
      /\ \A id \in DOMAIN disk' : \/ id \in DOMAIN saved /\ disk'[id] = saved[id]
                                  \/ id \in DOMAIN torn /\ disk'[id] = torn[id]
                                  \/ id \in DOMAIN disk /\ disk'[id] = disk[id]
  <2>1. CASE create_checkpoint_Raises(S, refused)
    BY <2>1 DEF create_checkpoint_Raises
  <2>2. CASE create_checkpoint(S, refused)
    <3>1. \E X, Y : memory' = Without(known, X) /\ disk' = Without(saved, Y)
      BY <2>2 DEF create_checkpoint
    <3>2. PICK X, Y : memory' = Without(known, X) /\ disk' = Without(saved, Y)
      BY <3>1
    <3> HIDE DEF known, saved, torn
    <3>3. /\ \A id \in DOMAIN Without(known, X) :
                id \in DOMAIN known /\ Without(known, X)[id] = known[id]
          /\ \A id \in DOMAIN Without(saved, Y) :
                id \in DOMAIN saved /\ Without(saved, Y)[id] = saved[id]
      BY WithoutIs
    <3> QED BY <3>2, <3>3
  <2> QED BY <2>1, <2>2
<1>2. \A id \in DOMAIN known : known[id] = new \/ (id \in DOMAIN memory /\ known[id] = memory[id])
  BY DEF Store
<1>3. /\ \A id \in DOMAIN saved : saved[id] = {new} \/ (id \in DOMAIN disk /\ saved[id] = disk[id])
      /\ \A id \in DOMAIN torn : torn[id] = {} \/ (id \in DOMAIN disk /\ torn[id] = disk[id])
  BY DEF Store
<1> HIDE DEF new, known, saved, torn
<1>4. Kept' \subseteq Kept \cup {new}
  BY <1>1, <1>2, <1>3 DEF Kept
<1> QED BY <1>4 DEF new

\* The end of a rollback adds none.
LEMMA KeptShrinks ==
  ASSUME finish_rollback
  PROVE  Kept' \subseteq Kept
<1>1. \/ memory' = memory /\ disk' = disk
      \/ \E X, Y : memory' = Without(memory, X) /\ disk' = Without(disk, Y)
  BY DEF finish_rollback
<1>2. /\ \A id \in DOMAIN memory' : id \in DOMAIN memory /\ memory'[id] = memory[id]
      /\ \A id \in DOMAIN disk' : id \in DOMAIN disk /\ disk'[id] = disk[id]
  <2>1. /\ \A X : \A id \in DOMAIN Without(memory, X) :
              id \in DOMAIN memory /\ Without(memory, X)[id] = memory[id]
        /\ \A Y : \A id \in DOMAIN Without(disk, Y) :
              id \in DOMAIN disk /\ Without(disk, Y)[id] = disk[id]
    BY WithoutIs
  <2> QED BY <1>1, <2>1
<1> QED BY <1>2 DEF Kept

\* What is read of a file is text, and text is read as it is.
LEMMA TextIsText ==
  ASSUME NEW f \in FileState
  PROVE  /\ Text(f) \in FileState /\ Text(Text(f)) = Text(f)
         /\ Text(f) = Absent <=> f = Absent
         /\ f # Absent => Text(f) \in Content
  BY FilesAssumption DEF Text, FileState

\* Backups are of content, and none is lost, though one may be overwritten.
LEMMA BackupsTyped ==
  ASSUME GuardTypeOK, NEW S \in SUBSET Path, \A p \in S : files[p] # Absent,
         backups' \in BackupsAfter(S)
  PROVE  /\ DOMAIN backups' = DOMAIN backups \cup {BackupName(p) : p \in S}
         /\ \A name \in DOMAIN backups' : backups'[name] \in Content
<1> DEFINE names == {BackupName(p) : p \in S}
<1>1. PICK last \in [names -> S] :
         backups' = [name \in DOMAIN backups \cup names |->
                       IF name \in names THEN files[last[name]] ELSE backups[name]]
  BY DEF BackupsAfter
<1> HIDE DEF names
<1>2. \A name \in names : files[last[name]] \in Content
  BY DEF GuardTypeOK, FileState
<1>3. ASSUME NEW name \in DOMAIN backups' PROVE backups'[name] \in Content
  BY <1>1, <1>2, <1>3 DEF GuardTypeOK
<1> QED BY <1>1, <1>3 DEF names

\* What the guard's operations do to the workspace.
LEMMA WriteTyped ==
  ASSUME GuardTypeOK, NEW p \in Path, NEW c \in Content, write(p, c)
  PROVE  /\ files' \in [Path -> FileState]
         /\ modified' \subseteq Path /\ created' \subseteq Path /\ deleted' \subseteq Path
  BY DEF write, GuardTypeOK, FileState

LEMMA DeleteTyped ==
  ASSUME GuardTypeOK, NEW p \in Path, delete(p)
  PROVE  /\ files' \in [Path -> FileState]
         /\ modified' \subseteq Path /\ created' \subseteq Path /\ deleted' \subseteq Path
  BY DEF delete, GuardTypeOK, FileState

LEMMA TornTyped ==
  ASSUME GuardTypeOK, NEW p \in Path, write_Torn(p)
  PROVE  /\ files' \in [Path -> FileState]
         /\ modified' \subseteq Path /\ created' \subseteq Path /\ deleted' \subseteq Path
  BY FilesAssumption DEF write_Torn, trackVars, GuardTypeOK, FileState

\* An entry made of a valid diff is one that undoing can use.
LEMMA EntryTyped ==
  ASSUME GuardTypeOK, NEW d \in Diff, IsValid(d)
  PROVE  Entry(d) \in AppliedEntry
<1>1. d.path \in Path /\ d.type \in DiffType /\ files[d.path] \in FileState
  BY DEF Diff, GuardTypeOK
<1>2. d.type # "ADD" => read(d.path) \in Content
  BY <1>1, TextIsText DEF IsValid, read
<1> QED BY <1>1, <1>2 DEF Entry, OriginalOf, AppliedEntry, FileState

\* Backing up before a diff.
LEMMA BacksUpTyped ==
  ASSUME GuardTypeOK, NEW d \in Diff, IsValid(d), BacksUp(d)
  PROVE  /\ second' = second /\ DOMAIN backups \subseteq DOMAIN backups'
         /\ \A name \in DOMAIN backups' : backups'[name] \in Content
<1> DEFINE S == IF d.type = "ADD" THEN {} ELSE {d.path}
<1>1. S \in SUBSET Path /\ \A p \in S : files[p] # Absent
  BY DEF Diff, IsValid
<1>2. second' = second /\ backups' \in BackupsAfter(S)
  BY DEF BacksUp
<1> HIDE DEF S
<1> QED BY <1>1, <1>2, BackupsTyped

\* A diff that is applied.
LEMMA ApplyTyped ==
  ASSUME DataInv, NEW d \in Diff, apply(d)
  PROVE  /\ GuardTypeOK'
         /\ applied' \in Seq(AppliedEntry) /\ Len(applied') = Len(applied) + 1
         /\ DOMAIN backups \subseteq DOMAIN backups'
         /\ base' = base /\ touched' \subseteq Path
<1>1. IsValid(d) /\ BacksUp(d) /\ GuardTypeOK /\ d.path \in Path /\ d.new \in Content
  BY DEF apply, DataInv, Diff
<1>2. /\ files' \in [Path -> FileState]
      /\ modified' \subseteq Path /\ created' \subseteq Path /\ deleted' \subseteq Path
  BY <1>1, WriteTyped, DeleteTyped DEF apply
<1>3. GuardTypeOK' /\ DOMAIN backups \subseteq DOMAIN backups'
  BY <1>1, <1>2, BacksUpTyped DEF GuardTypeOK
<1>4. applied \in Seq(AppliedEntry) /\ Entry(d) \in AppliedEntry /\ applied' = Append(applied, Entry(d))
  BY <1>1, EntryTyped DEF DataInv, apply
<1>5. base' = base /\ touched' \subseteq Path
  BY <1>1 DEF apply, DataInv
<1> QED BY <1>3, <1>4, <1>5

\* A diff that is not.
LEMMA ApplyFailsTyped ==
  ASSUME DataInv, NEW d \in Diff, apply_Fails(d)
  PROVE  /\ GuardTypeOK' /\ applied' = applied /\ DOMAIN backups \subseteq DOMAIN backups'
         /\ base' = base /\ touched' \subseteq Path
<1>1. /\ IsValid(d) /\ GuardTypeOK /\ d.path \in Path /\ applied' = applied
      /\ base' = base /\ touched' \subseteq Path
  BY DEF apply_Fails, DataInv, Diff
<1>2. CASE UNCHANGED guardVars
  BY <1>1, <1>2 DEF GuardTypeOK, guardVars, trackVars
<1>3. CASE BacksUp(d) /\ UNCHANGED <<files, trackVars>>
  BY <1>1, <1>3, BacksUpTyped DEF GuardTypeOK, trackVars
<1>4. CASE BacksUp(d) /\ write_Torn(d.path)
  BY <1>1, <1>4, BacksUpTyped, TornTyped DEF GuardTypeOK
<1> QED BY <1>1, <1>2, <1>3, <1>4 DEF apply_Fails

\* Undoing, with success or without.
LEMMA UndoTyped ==
  ASSUME DataInv, rollback_last \/ rollback_last_Fails
  PROVE  /\ GuardTypeOK'
         /\ applied' \in Seq(AppliedEntry) /\ Len(applied') = Len(applied) - 1
         /\ backups' = backups /\ base' = base /\ touched' \subseteq Path
<1>1. GuardTypeOK /\ applied \in Seq(AppliedEntry) /\ applied # <<>> /\ Len(applied) \in Nat
  BY DEF DataInv, rollback_last, rollback_last_Fails
<1>2. applied' = Front(applied) /\ backups' = backups /\ second' = second
  BY DEF rollback_last, rollback_last_Fails
<1>3. applied' \in Seq(AppliedEntry) /\ Len(applied') = Len(applied) - 1
  <2>1. Len(applied) - 1 \in 0..Len(applied) /\ Len(applied) - 1 - 1 + 1 = Len(applied) - 1
    BY <1>1
  <2>2. /\ SubSeq(applied, 1, Len(applied) - 1) \in Seq(AppliedEntry)
        /\ Len(SubSeq(applied, 1, Len(applied) - 1)) = Len(applied) - 1 - 1 + 1
    BY <1>1, <2>1, Cut
  <2> QED BY <1>2, <2>1, <2>2 DEF Front
<1> DEFINE e == Last(applied)
<1>4. e \in AppliedEntry
  BY <1>1 DEF Last
<1> HIDE DEF e
<1>5. e.diff.path \in Path /\ (e.diff.type # "ADD" => e.original \in Content)
  BY <1>4 DEF AppliedEntry, Diff
<1>6. /\ files' \in [Path -> FileState]
      /\ modified' \subseteq Path /\ created' \subseteq Path /\ deleted' \subseteq Path
  <2>1. CASE rollback_last
    BY <1>1, <1>5, <2>1, WriteTyped, DeleteTyped DEF rollback_last, e
  <2>2. CASE rollback_last_Fails
    <3>1. CASE UNCHANGED <<files, trackVars>>
      BY <1>1, <3>1 DEF GuardTypeOK, trackVars
    <3>2. CASE write_Torn(e.diff.path)
      BY <1>1, <1>5, <3>2, TornTyped
    <3> QED BY <2>2, <3>1, <3>2 DEF rollback_last_Fails, e
  <2> QED BY <2>1, <2>2
<1>7. GuardTypeOK'
  BY <1>1, <1>2, <1>6 DEF GuardTypeOK
<1>8. base' = base /\ touched' \subseteq Path
  <2>1. touched' \subseteq touched \cup {e.diff.path} /\ base' = base
    BY DEF rollback_last, rollback_last_Fails, e
  <2> QED BY <1>5, <2>1 DEF DataInv
<1> QED BY <1>2, <1>3, <1>7, <1>8

\* A checkpoint stays well formed while backups are added.
LEMMA CheckpointStays ==
  ASSUME NEW cp, NEW held, NEW more, held \subseteq more, CheckpointOK(cp, held)
  PROVE  CheckpointOK(cp, more)
  BY DEF CheckpointOK

\* A new checkpoint is well formed, with the backups made for it.
LEMMA NewCheckpointTyped ==
  ASSUME GuardTypeOK, NEW S \in SUBSET Path, NEW refused \in SUBSET S, NEW held,
         \A p \in S \ refused : read(p) \in Large => BackupName(p) \in held
  PROVE  CheckpointOK(NewCheckpoint(S, refused), held)
<1> DEFINE cp == NewCheckpoint(S, refused)
<1>1. DOMAIN cp.snapshots = S /\ cp.refused = refused /\ cp.truth = files
  BY DEF NewCheckpoint
<1>2. ASSUME NEW p \in S
      PROVE  /\ cp.snapshots[p] \in Snapshot
             /\ cp.snapshots[p].kind = "backup" => cp.snapshots[p].name \in held
  <2>1. cp.snapshots[p] = IF p \in refused THEN [kind |-> "absent"] ELSE SnapshotOf(p)
    BY DEF NewCheckpoint
  <2> HIDE DEF cp
  <2>2. CASE p \in refused \/ files[p] = Absent
    BY <2>1, <2>2 DEF Snapshot, SnapshotOf
  <2>3. CASE p \notin refused /\ files[p] # Absent /\ read(p) \in Large
    <3>1. cp.snapshots[p] = [kind |-> "backup", name |-> BackupName(p)]
      BY <2>1, <2>3 DEF SnapshotOf
    <3>2. BackupName(p) \in Range(Stem) \X Nat
      BY FilesAssumption DEF BackupName, Range, GuardTypeOK
    <3> QED BY <2>3, <3>1, <3>2 DEF Snapshot
  <2>4. CASE p \notin refused /\ files[p] # Absent /\ read(p) \notin Large
    <3>1. cp.snapshots[p] = [kind |-> "inline", content |-> read(p)]
      BY <2>1, <2>4 DEF SnapshotOf
    <3>2. read(p) \in Content \ Large
      BY <2>4, TextIsText DEF GuardTypeOK, read
    <3> QED BY <3>1, <3>2 DEF Snapshot
  <2> QED BY <2>2, <2>3, <2>4
<1> HIDE DEF cp
<1>3. CheckpointOK(cp, held)
  BY <1>1, <1>2 DEF CheckpointOK, GuardTypeOK
<1> QED BY <1>3 DEF cp

\* The files that may be snapshotted have names.
LEMMA TrackedArePaths ==
  ASSUME GuardTypeOK
  PROVE  get_modified_files \subseteq Path
  BY DEF GuardTypeOK, get_modified_files

\* Taking a checkpoint.
LEMMA CheckpointTyped ==
  ASSUME DataInv, Checkpoint
  PROVE  DataInv'
<1>1. /\ pc = "idle"
      /\ UNCHANGED <<pc, applied, base, touched, todo, count, files, trackVars, second, target, left>>
      /\ GuardTypeOK
  BY DEF Checkpoint, create_checkpoint, create_checkpoint_Raises, Snapshots, controlVars, diffVars,
         DataInv
<1>2. PICK refused \in SUBSET get_modified_files :
         \/ create_checkpoint(get_modified_files, refused)
         \/ create_checkpoint_Raises(get_modified_files, refused)
  BY DEF Checkpoint
<1> DEFINE S     == get_modified_files
           large == {p \in S \ refused : read(p) \in Large}
<1>3. backups' \in BackupsAfter(large)
  BY <1>2 DEF create_checkpoint, create_checkpoint_Raises, Snapshots
<1>4. large \in SUBSET Path /\ \A p \in large : files[p] # Absent
  BY <1>1, TrackedArePaths, FilesAssumption DEF read, Text
<1>5. /\ DOMAIN backups' = DOMAIN backups \cup {BackupName(p) : p \in large}
      /\ \A name \in DOMAIN backups' : backups'[name] \in Content
  <2> HIDE DEF large
  <2> QED BY <1>1, <1>3, <1>4, BackupsTyped
<1>6. GuardTypeOK'
  BY <1>1, <1>5 DEF GuardTypeOK, trackVars
<1>7. CheckpointOK(NewCheckpoint(S, refused), DOMAIN backups')
  <2>1. \A p \in S \ refused : read(p) \in Large => BackupName(p) \in DOMAIN backups'
    BY <1>5
  <2>2. S \in SUBSET Path /\ refused \in SUBSET S
    BY <1>1, TrackedArePaths
  <2> HIDE DEF S
  <2> QED BY <1>1, <2>1, <2>2, NewCheckpointTyped
<1>8. \A cp \in Kept : CheckpointOK(cp, DOMAIN backups')
  BY <1>5, CheckpointStays DEF DataInv
<1>9. \A cp \in Kept' : CheckpointOK(cp, DOMAIN backups')
  <2>1. Kept' \subseteq Kept \cup {NewCheckpoint(S, refused)}
    BY <1>2, KeptGrows
  <2> HIDE DEF S
  <2> QED BY <1>7, <1>8, <2>1
<1>10. target' = NoCheckpoint /\ left' = {} /\ pc' # "restore" /\ pc' \notin {"multiple", "undo"}
  BY <1>1 DEF DataInv
<1>11. /\ applied' \in Seq(AppliedEntry) /\ todo' \in Seq(Diff) /\ count' \in Nat
       /\ base' \in [Path -> FileState] /\ touched' \subseteq Path
  BY <1>1 DEF DataInv
<1> QED BY <1>6, <1>9, <1>10, <1>11 DEF DataInv

\* The diffs that callers and agents ask for.
LEMMA DiffTyped ==
  ASSUME GuardTypeOK, NEW p \in Path, NEW c \in Content
  PROVE  create_diff(p, c) \in Diff /\ create_deletion_diff(p) \in Diff
<1>1. read(p) \in FileState
  BY TextIsText DEF GuardTypeOK, read
<1> QED BY <1>1, FilesAssumption DEF create_diff, create_deletion_diff, Diff, DiffType

LEMMA ChangeTyped ==
  ASSUME GuardTypeOK, NEW change \in Change
  PROVE  DiffOf(change) \in Diff
<1>1. /\ change.path \in Path /\ change.new \in Content
      /\ change.kind \in {"delete", "content", "create_hunks", "modify_hunks"}
  BY WorkspaceAssumption DEF Change
<1>2. CASE change.kind = "delete"
  BY <1>1, <1>2, DiffTyped DEF DiffOf
<1>3. CASE change.kind = "content"
  BY <1>1, <1>3, DiffTyped DEF DiffOf
<1>4. CASE change.kind \in {"create_hunks", "modify_hunks"}
  BY <1>1, <1>4 DEF DiffOf, Diff, DiffType, FileState
<1> QED BY <1>1, <1>2, <1>3, <1>4

\* The checkpoints and what of them a rollback is at are left alone, but for
\* backups that may be added.
LEMMA CheckpointsStay ==
  ASSUME DataInv, UNCHANGED <<memory, disk, target, left>>, DOMAIN backups \subseteq DOMAIN backups',
         pc = "restore" <=> pc' = "restore"
  PROVE  /\ \A cp \in Kept' : CheckpointOK(cp, DOMAIN backups')
         /\ target' \in Gettable' \cup {NoCheckpoint}
         /\ pc' = "restore" <=> target' # NoCheckpoint
         /\ left' \subseteq (IF target' = NoCheckpoint THEN {}
                             ELSE DOMAIN get_checkpoint(target)'.snapshots)
<1>1. /\ Kept' = Kept /\ Gettable' = Gettable
      /\ get_checkpoint(target)' = get_checkpoint(target)
  BY DEF Kept, Gettable, get_checkpoint
<1>2. \A cp \in Kept : CheckpointOK(cp, DOMAIN backups')
  BY CheckpointStays DEF DataInv
<1> QED BY <1>1, <1>2 DEF DataInv

\* The steps of _apply_changes.
LEMMA ChangesTyped ==
  ASSUME DataInv, NEW change \in Change, ApplyChange(change) \/ ApplyChangeFails(change)
  PROVE  DataInv'
<1>1. /\ UNCHANGED <<memory, disk, target, left>> /\ todo' = todo
      /\ pc = "changes" /\ pc' \in {"changes", "changes_failed"}
      /\ DiffOf(change) \in Diff
  BY ChangeTyped DEF ApplyChange, ApplyChangeFails, rollbackVars, DataInv
<1>2. /\ GuardTypeOK' /\ applied' \in Seq(AppliedEntry) /\ DOMAIN backups \subseteq DOMAIN backups'
      /\ base' = base /\ touched' \subseteq Path
  <2>1. CASE apply(DiffOf(change))
    BY <1>1, <2>1, ApplyTyped
  <2>2. CASE apply_Fails(DiffOf(change))
    BY <1>1, <2>2, ApplyFailsTyped DEF DataInv
  <2>3. CASE apply_Raises
    BY <2>3 DEF apply_Raises, guardVars, diffVars, trackVars, GuardTypeOK, DataInv
  <2> QED BY <2>1, <2>2, <2>3 DEF ApplyChange, ApplyChangeFails
<1>3. count' \in Nat
  BY DEF ApplyChange, ApplyChangeFails, DataInv
<1>4. todo' \in Seq(Diff) /\ base' \in [Path -> FileState]
  BY <1>1, <1>2 DEF DataInv
<1> QED BY <1>1, <1>2, <1>3, <1>4, CheckpointsStay DEF DataInv

\* The steps of apply_multiple up to the first failure.
LEMMA MultipleTyped ==
  ASSUME DataInv, ApplyDiff \/ ApplyDiffFails \/ ApplyDiffRaises
  PROVE  DataInv'
<1>1. /\ UNCHANGED <<memory, disk, target, left>>
      /\ pc = "multiple" /\ pc' \in {"multiple", "undo", "multiple_raised"}
      /\ todo # <<>>
  BY DEF ApplyDiff, ApplyDiffFails, ApplyDiffRaises, rollbackVars
<1>2. Head(todo) \in Diff /\ Tail(todo) \in Seq(Diff) /\ <<>> \in Seq(Diff)
  BY <1>1 DEF DataInv
<1>3. /\ GuardTypeOK' /\ applied' \in Seq(AppliedEntry) /\ DOMAIN backups \subseteq DOMAIN backups'
      /\ count' \in Nat /\ count' <= Len(applied') /\ todo' \in Seq(Diff)
      /\ base' \in [Path -> FileState] /\ touched' \subseteq Path
  <2>0. Len(applied) \in Nat /\ count \in Nat /\ count <= Len(applied) /\ GuardTypeOK
        /\ applied \in Seq(AppliedEntry)
        /\ base \in [Path -> FileState] /\ touched \subseteq Path
    BY <1>1 DEF DataInv
  <2>1. CASE ApplyDiff
    <3>1. apply(Head(todo)) /\ count' = count + 1 /\ todo' = Tail(todo)
      BY <2>1 DEF ApplyDiff
    <3>2. /\ GuardTypeOK' /\ applied' \in Seq(AppliedEntry) /\ Len(applied') = Len(applied) + 1
          /\ DOMAIN backups \subseteq DOMAIN backups' /\ base' = base /\ touched' \subseteq Path
      BY <1>2, <3>1, ApplyTyped
    <3> QED BY <1>2, <2>0, <3>1, <3>2
  <2>2. CASE ApplyDiffFails
    <3>1. apply_Fails(Head(todo)) /\ count' = count /\ todo' = <<>>
      BY <2>2 DEF ApplyDiffFails
    <3>2. /\ GuardTypeOK' /\ applied' = applied /\ DOMAIN backups \subseteq DOMAIN backups'
          /\ base' = base /\ touched' \subseteq Path
      BY <1>2, <3>1, ApplyFailsTyped
    <3> QED BY <1>2, <2>0, <3>1, <3>2
  <2>3. CASE ApplyDiffRaises
    <3>1. UNCHANGED <<guardVars, applied, base, touched>> /\ count' = count /\ todo' = <<>>
      BY <2>3 DEF ApplyDiffRaises, apply_Raises, diffVars
    <3>2. GuardTypeOK' /\ backups' = backups
      BY <2>0, <3>1 DEF guardVars, trackVars, GuardTypeOK
    <3> QED BY <1>2, <2>0, <3>1, <3>2
  <2> QED BY <2>1, <2>2, <2>3
<1>4. pc = "restore" <=> pc' = "restore"
  BY <1>1
<1> QED BY <1>1, <1>3, <1>4, CheckpointsStay DEF DataInv

\* Undoing in apply_multiple and on its own.
LEMMA UndoingTyped ==
  ASSUME DataInv, UndoDiff \/ UndoDiffFails \/ UndoLast
  PROVE  DataInv'
<1>1. /\ UNCHANGED <<memory, disk, target, left, pc, todo>>
      /\ rollback_last \/ rollback_last_Fails
      /\ \/ pc = "idle" /\ count' = count
         \/ pc = "undo" /\ count > 0 /\ count' = count - 1
  BY DEF UndoDiff, UndoDiffFails, UndoLast, rollbackVars, controlVars
<1>2. /\ GuardTypeOK'
      /\ applied' \in Seq(AppliedEntry) /\ Len(applied') = Len(applied) - 1
      /\ backups' = backups /\ base' = base /\ touched' \subseteq Path
  BY <1>1, UndoTyped
<1>3. Len(applied) \in Nat /\ count \in Nat /\ (pc = "undo" => count <= Len(applied))
      /\ todo' \in Seq(Diff) /\ base' \in [Path -> FileState]
  BY <1>1, <1>2 DEF DataInv
<1>4. count' \in Nat /\ (pc' \in {"multiple", "undo"} => count' <= Len(applied'))
  BY <1>1, <1>2, <1>3
<1>5. DOMAIN backups \subseteq DOMAIN backups'
  BY <1>2
<1> QED BY <1>1, <1>2, <1>3, <1>4, <1>5, CheckpointsStay DEF DataInv

\* Edits from outside and the clock.
LEMMA OutsideTyped ==
  ASSUME DataInv, Tick \/ \E p \in Path, c \in FileState : Edit(p, c)
  PROVE  DataInv'
<1>1. /\ UNCHANGED <<memory, disk, target, left, pc, todo, count, applied, base, backups,
                    trackVars>>
      /\ GuardTypeOK
  BY DEF Tick, SecondPasses, Edit, rollbackVars, diffVars, controlVars, DataInv
<1>2. files' \in [Path -> FileState] /\ second' \in Nat /\ touched' \subseteq Path
  BY <1>1 DEF Tick, SecondPasses, Edit, diffVars, GuardTypeOK, DataInv
<1>3. GuardTypeOK'
  BY <1>1, <1>2 DEF GuardTypeOK, trackVars
<1>4. DOMAIN backups \subseteq DOMAIN backups'
  BY <1>1
<1> QED BY <1>1, <1>2, <1>3, <1>4, CheckpointsStay DEF DataInv

\* The ends of a batch.
LEMMA BatchEndsTyped ==
  ASSUME DataInv, apply_changes \/ apply_multiple \/ EndBatch
  PROVE  DataInv'
<1>1. /\ UNCHANGED <<memory, disk, target, left, diffVars, guardVars>>
      /\ pc # "restore" /\ pc' # "restore" /\ pc' # "undo" /\ count' = 0
      /\ GuardTypeOK
  BY DEF apply_changes, apply_multiple, EndBatch, BeginBatch, rollbackVars, DataInv
<1>2. todo' \in Seq(Diff)
  <2>1. CASE apply_multiple
    <3>1. MakeableDiffs \subseteq Diff
      <4>1. \A q \in Path, c \in Content : create_diff(q, c) \in Diff
        BY <1>1, DiffTyped
      <4>2. \A q \in Path : create_deletion_diff(q) \in Diff
        BY <1>1, DiffTyped, FilesAssumption
      <4> QED BY <4>1, <4>2 DEF MakeableDiffs
    <3>2. PICK n \in 1..MaxBatch : todo' \in [1..n -> MakeableDiffs]
      BY <2>1 DEF apply_multiple
    <3>3. n \in Nat /\ todo' \in [1..n -> Diff]
      BY <3>1, <3>2, WorkspaceAssumption
    <3> QED BY <3>3
  <2>2. CASE apply_changes \/ EndBatch
    BY <2>2 DEF apply_changes, EndBatch, DataInv
  <2> QED BY <2>1, <2>2
<1>3. GuardTypeOK' /\ DOMAIN backups \subseteq DOMAIN backups'
  BY <1>1 DEF guardVars, trackVars, GuardTypeOK
<1>4. /\ applied' \in Seq(AppliedEntry) /\ Len(applied') \in Nat
      /\ base' \in [Path -> FileState] /\ touched' \subseteq Path
  BY <1>1 DEF DataInv, diffVars
<1> QED BY <1>1, <1>2, <1>3, <1>4, CheckpointsStay DEF DataInv

\* A rollback begins.
LEMMA RollbackToTyped ==
  ASSUME DataInv, NEW id \in Gettable, RollbackTo(id), ListInv
  PROVE  DataInv'
<1>1. /\ UNCHANGED <<guardVars, memory, disk, diffVars, todo, count>>
      /\ pc' = "restore" /\ target' = id /\ left' = DOMAIN get_checkpoint(id).snapshots
      /\ GuardTypeOK
  BY DEF RollbackTo, rollback_to, DataInv
<1>2. GuardTypeOK' /\ backups' = backups
  BY <1>1 DEF guardVars, trackVars, GuardTypeOK
<1>3. id # NoCheckpoint
  BY CheckpointsAssumption, GettableIsNat
<1>4. Kept' = Kept /\ Gettable' = Gettable /\ get_checkpoint(target)' = get_checkpoint(id)
  BY <1>1 DEF Kept, Gettable, get_checkpoint
<1>5. /\ \A cp \in Kept' : CheckpointOK(cp, DOMAIN backups')
      /\ target' \in Gettable' /\ left' \subseteq DOMAIN get_checkpoint(target)'.snapshots
  BY <1>1, <1>2, <1>4 DEF DataInv
<1> QED BY <1>1, <1>2, <1>3, <1>5 DEF DataInv, diffVars

\* A file is restored.
LEMMA RestoreFileTyped ==
  ASSUME DataInv, NEW p \in Path, RestoreFile(p)
  PROVE  DataInv'
<1> DEFINE cp       == get_checkpoint(target)
           snapshot == cp.snapshots[p]
<1>1. /\ UNCHANGED <<memory, disk, target, pc, applied, base, todo, count, backups, second>>
      /\ pc = "restore" /\ p \in left /\ left' = left \ {p} /\ touched' = touched \cup {p}
      /\ GuardTypeOK
  BY DEF RestoreFile, restore_file, controlVars, DataInv
<1>2. /\ target # NoCheckpoint /\ target \in Gettable
      /\ p \in DOMAIN cp.snapshots /\ left \subseteq DOMAIN cp.snapshots
      /\ CheckpointOK(cp, DOMAIN backups)
  BY <1>1, GotIsKept DEF DataInv
<1>3. /\ snapshot \in Snapshot
      /\ snapshot.kind = "backup" => snapshot.name \in DOMAIN backups
  BY <1>2 DEF CheckpointOK
<1>4. /\ files' \in [Path -> FileState]
      /\ modified' \subseteq Path /\ created' \subseteq Path /\ deleted' \subseteq Path
  <2> HIDE DEF snapshot
  <2>1. CASE UNCHANGED <<files, trackVars>>
    BY <1>1, <2>1 DEF GuardTypeOK, trackVars
  <2>2. CASE delete(p)
    BY <1>1, <2>2, DeleteTyped
  <2>3. CASE snapshot.kind = "inline" /\ write(p, snapshot.content)
    <3>1. snapshot.content \in Content
      BY <1>3, <2>3 DEF Snapshot
    <3> QED BY <1>1, <2>3, <3>1, WriteTyped
  <2>4. CASE snapshot.kind = "backup" /\ write(p, AsText[backups[snapshot.name]])
    <3>1. AsText[backups[snapshot.name]] \in Content
      BY <1>1, <1>3, <2>4, FilesAssumption DEF GuardTypeOK
    <3> QED BY <1>1, <2>4, <3>1, WriteTyped
  <2> QED BY <2>1, <2>2, <2>3, <2>4 DEF RestoreFile, restore_file, snapshot
<1>5. GuardTypeOK'
  BY <1>1, <1>4 DEF GuardTypeOK
<1>6. /\ Kept' = Kept /\ Gettable' = Gettable /\ get_checkpoint(target)' = cp
  BY <1>1 DEF Kept, Gettable, get_checkpoint
<1>7. /\ \A c \in Kept' : CheckpointOK(c, DOMAIN backups')
      /\ target' \in Gettable' /\ left' \subseteq DOMAIN get_checkpoint(target)'.snapshots
  BY <1>1, <1>2, <1>6 DEF DataInv
<1>8. /\ applied' \in Seq(AppliedEntry) /\ base' \in [Path -> FileState] /\ touched' \subseteq Path
      /\ todo' \in Seq(Diff) /\ count' \in Nat
  BY <1>1 DEF DataInv
<1> QED BY <1>1, <1>2, <1>5, <1>7, <1>8 DEF DataInv

\* A file cannot be restored.
LEMMA RestoreFileFailsTyped ==
  ASSUME DataInv, NEW p \in Path, RestoreFileFails(p)
  PROVE  DataInv'
<1>1. /\ UNCHANGED <<memory, disk, applied, base, todo, count, backups, second, trackVars>>
      /\ pc' = "idle" /\ target' = NoCheckpoint /\ left' = {} /\ touched' = touched \cup {p}
      /\ GuardTypeOK
  BY DEF RestoreFileFails, restore_file_Fails, DataInv
<1>2. files' \in [Path -> FileState]
  BY <1>1, FilesAssumption DEF RestoreFileFails, restore_file_Fails, GuardTypeOK, FileState
<1>3. GuardTypeOK'
  BY <1>1, <1>2 DEF GuardTypeOK, trackVars
<1>4. Kept' = Kept
  BY <1>1 DEF Kept
<1> QED BY <1>1, <1>3, <1>4 DEF DataInv

\* A rollback ends.
LEMMA FinishTyped ==
  ASSUME DataInv, FinishRollback
  PROVE  DataInv'
<1>1. /\ UNCHANGED <<guardVars, diffVars, todo, count>>
      /\ pc' = "idle" /\ target' = NoCheckpoint /\ left' = left /\ left = {}
      /\ GuardTypeOK
  BY DEF FinishRollback, finish_rollback, DataInv
<1>2. Kept' \subseteq Kept
  BY KeptShrinks DEF FinishRollback
<1>3. GuardTypeOK' /\ backups' = backups
  BY <1>1 DEF guardVars, trackVars, GuardTypeOK
<1> QED BY <1>1, <1>2, <1>3 DEF DataInv, diffVars

\* Every state has its data in order.
THEOREM DataInvariant == Spec => []DataInv
<1>1. Init => DataInv
  <2> SUFFICES ASSUME Init PROVE DataInv
    OBVIOUS
  <2>1. GuardTypeOK
    BY DEF Init, GuardInit, GuardTypeOK
  <2>2. <<>> \in Seq(AppliedEntry) /\ <<>> \in Seq(Diff)
    OBVIOUS
  <2>3. Kept = {}
    BY DEF Init, RollbackInit, Kept
  <2> QED BY <2>1, <2>2, <2>3 DEF Init, GuardInit, RollbackInit, DataInv
<1>2. DataInv /\ ListInv /\ [Next]_vars => DataInv'
  <2> SUFFICES ASSUME DataInv, ListInv, [Next]_vars PROVE DataInv'
    OBVIOUS
  <2>1. CASE Tick \/ \E p \in Path, c \in FileState : Edit(p, c)
    BY <2>1, OutsideTyped
  <2>2. CASE apply_changes \/ apply_multiple \/ EndBatch
    BY <2>2, BatchEndsTyped
  <2>3. CASE \E change \in Change : ApplyChange(change) \/ ApplyChangeFails(change)
    BY <2>3, ChangesTyped
  <2>4. CASE ApplyDiff \/ ApplyDiffFails \/ ApplyDiffRaises
    BY <2>4, MultipleTyped
  <2>5. CASE UndoDiff \/ UndoDiffFails \/ UndoLast
    BY <2>5, UndoingTyped
  <2>6. CASE Checkpoint
    BY <2>6, CheckpointTyped
  <2>7. CASE \E id \in Gettable : RollbackTo(id)
    BY <2>7, RollbackToTyped
  <2>8. CASE \E p \in Path : RestoreFile(p) \/ RestoreFileFails(p)
    BY <2>8, RestoreFileTyped, RestoreFileFailsTyped
  <2>9. CASE FinishRollback
    BY <2>9, FinishTyped
  <2>10. CASE UNCHANGED vars
    <3>1. UNCHANGED <<guardVars, diffVars, memory, disk, target, left, pc, todo, count>>
      BY <2>10 DEF vars, rollbackVars, controlVars
    <3>2. GuardTypeOK' /\ DOMAIN backups \subseteq DOMAIN backups'
      BY <3>1 DEF guardVars, trackVars, GuardTypeOK, DataInv
    <3> QED BY <3>1, <3>2, CheckpointsStay DEF DataInv, diffVars
  <2> QED BY <2>1, <2>2, <2>3, <2>4, <2>5, <2>6, <2>7, <2>8, <2>9, <2>10 DEF Next
<1> QED BY <1>1, <1>2, ListInvariant, PTL DEF Spec

----------------------------------------------------------------------------
\* The control part of the type invariant.
ControlTypeOK ==
    /\ pc \in {"idle", "changes", "changes_failed", "multiple", "multiple_raised", "undo",
               "restore"}
    /\ batch \in [Path -> FileState] /\ clean \in BOOLEAN
    /\ batches \in Nat /\ made \in Nat /\ edits \in Nat

LEMMA ControlSteps ==
  ASSUME ControlTypeOK, GuardTypeOK, [Next]_vars
  PROVE  ControlTypeOK'
<1> USE DEF ControlTypeOK
<1>1. CASE Tick \/ \E p \in Path, c \in FileState : Edit(p, c)
  <2>1. CASE Tick
    BY <2>1 DEF Tick, controlVars, budgetVars
  <2>2. CASE \E p \in Path, c \in FileState : Edit(p, c)
    <3>1. UNCHANGED <<pc, batch, batches, made>> /\ clean' = FALSE /\ edits' = edits + 1
      BY <2>2 DEF Edit
    <3>2. edits' \in Nat /\ made' \in Nat /\ batches' \in Nat
      BY <3>1
    <3>3. pc' = pc /\ batch' = batch /\ clean' \in BOOLEAN
      BY <3>1
    <3> QED BY <3>2, <3>3
  <2> QED BY <1>1, <2>1, <2>2
<1>2. CASE apply_changes \/ apply_multiple \/ EndBatch
  <2>1. CASE EndBatch
    <3>1. UNCHANGED <<batches, made, edits>> /\ pc' = "idle" /\ clean' = TRUE /\ batch' = NoBatch
      BY <2>1 DEF EndBatch, budgetVars
    <3>2. NoBatch \in [Path -> FileState]
      BY DEF NoBatch, FileState
    <3> QED BY <3>1, <3>2
  <2>2. CASE apply_changes \/ apply_multiple
    <3>1. /\ UNCHANGED <<made, edits>> /\ batches' = batches + 1
          /\ pc' \in {"changes", "multiple"} /\ clean' = TRUE /\ batch' = files
      BY <2>2 DEF apply_changes, apply_multiple, BeginBatch
    <3> QED BY <3>1 DEF GuardTypeOK
  <2> QED BY <1>2, <2>1, <2>2
<1>3. CASE \E change \in Change : ApplyChange(change) \/ ApplyChangeFails(change)
  BY <1>3 DEF ApplyChange, ApplyChangeFails, budgetVars
<1>4. CASE ApplyDiff \/ ApplyDiffFails \/ ApplyDiffRaises
  BY <1>4 DEF ApplyDiff, ApplyDiffFails, ApplyDiffRaises, budgetVars
<1>5. CASE UndoDiff \/ UndoDiffFails \/ UndoLast
  BY <1>5 DEF UndoDiff, UndoDiffFails, UndoLast, controlVars, budgetVars
<1>6. CASE Checkpoint
  BY <1>6 DEF Checkpoint, controlVars
<1>7. CASE \E id \in Gettable : RollbackTo(id)
  BY <1>7 DEF RollbackTo, budgetVars
<1>8. CASE \E p \in Path : RestoreFile(p) \/ RestoreFileFails(p)
  BY <1>8 DEF RestoreFile, RestoreFileFails, controlVars, budgetVars
<1>9. CASE FinishRollback
  BY <1>9 DEF FinishRollback, budgetVars
<1>10. CASE UNCHANGED vars
  BY <1>10 DEF vars, controlVars, budgetVars
<1> QED BY <1>1, <1>2, <1>3, <1>4, <1>5, <1>6, <1>7, <1>8, <1>9, <1>10 DEF Next

\* The type invariant of the workspace: among the rest, what undoing would
\* write back is content, and the backups that snapshots name exist.
THEOREM WorkspaceTypeCorrect == Spec => []TypeOK
<1>1. Init => ControlTypeOK
  BY DEF Init, ControlTypeOK, NoBatch, FileState
<1>2. ControlTypeOK /\ DataInv /\ [Next]_vars => ControlTypeOK'
  BY ControlSteps DEF DataInv
<1>3. DataInv /\ ListInv /\ ControlTypeOK => TypeOK
  <2> SUFFICES ASSUME DataInv, ListInv, ControlTypeOK PROVE TypeOK
    OBVIOUS
  <2>1. AppliedTypeOK
    BY DEF DataInv, AppliedTypeOK, AppliedEntry
  <2>2. DOMAIN disk \subseteq Nat /\ DOMAIN memory \subseteq Nat
    BY DEF ListInv, CheckpointsListed, ToSet
  <2>3. RollbackTypeOK
    BY <2>2 DEF RollbackTypeOK, DataInv, ListInv, Kept
  <2>4. \A i \in DOMAIN todo : todo[i] \in Diff
    BY DEF DataInv
  <2> QED BY <2>1, <2>3, <2>4 DEF TypeOK, DataInv, ControlTypeOK
<1> QED BY <1>1, <1>2, <1>3, DataInvariant, ListInvariant, PTL DEF Spec

----------------------------------------------------------------------------
\* A snapshot that could be taken says what the file was, as text.
Faithful(cp) ==
    \A p \in DOMAIN cp.snapshots \ cp.refused :
        IF cp.truth[p] = Absent THEN cp.snapshots[p].kind = "absent"
        ELSE /\ cp.snapshots[p].kind = "inline"
             /\ Text(cp.snapshots[p].content) = Text(cp.truth[p])

\* The files a rollback is done with hold the text they held.
RestoredSoFar ==
    LET cp == get_checkpoint(target) IN
    \A p \in DOMAIN cp.snapshots \ (left \cup cp.refused) : Text(files[p]) = Text(cp.truth[p])

\* The inductive invariant of a rollback.
RestoreInv ==
    /\ \A cp \in Kept : Faithful(cp)
    /\ pc = "restore" /\ clean => RestoredSoFar

\* With no text too large to be held, a new checkpoint is faithful.
LEMMA NewCheckpointFaithful ==
  ASSUME Large = {}, GuardTypeOK, NEW S \in SUBSET Path, NEW refused
  PROVE  Faithful(NewCheckpoint(S, refused))
<1> DEFINE cp == NewCheckpoint(S, refused)
<1>1. /\ DOMAIN cp.snapshots = S /\ cp.refused = refused /\ cp.truth = files
      /\ \A p \in S \ refused : cp.snapshots[p] = SnapshotOf(p)
  BY DEF NewCheckpoint
<1>2. ASSUME NEW p \in S \ refused, files[p] # Absent
      PROVE  /\ SnapshotOf(p).kind = "inline"
             /\ Text(SnapshotOf(p).content) = Text(files[p])
  <2>1. SnapshotOf(p) = [kind |-> "inline", content |-> read(p)]
    BY <1>2 DEF SnapshotOf
  <2>2. Text(read(p)) = Text(files[p])
    BY <1>2, TextIsText DEF GuardTypeOK, read
  <2> QED BY <2>1, <2>2
<1>3. \A p \in S \ refused : files[p] = Absent => SnapshotOf(p).kind = "absent"
  BY DEF SnapshotOf
<1> HIDE DEF cp
<1>4. Faithful(cp)
  BY <1>1, <1>2, <1>3 DEF Faithful
<1> QED BY <1>4 DEF cp

\* Taking a checkpoint leaves every checkpoint faithful.
LEMMA CheckpointFaithful ==
  ASSUME Large = {}, RestoreInv, DataInv, Checkpoint
  PROVE  RestoreInv'
<1>1. pc' # "restore"
  BY DEF Checkpoint
<1>2. PICK refused : \/ create_checkpoint(get_modified_files, refused)
                     \/ create_checkpoint_Raises(get_modified_files, refused)
  BY DEF Checkpoint
<1>3. Kept' \subseteq Kept \cup {NewCheckpoint(get_modified_files, refused)}
  BY <1>2, KeptGrows
<1>4. Faithful(NewCheckpoint(get_modified_files, refused))
  BY TrackedArePaths, NewCheckpointFaithful DEF DataInv
<1>5. \A cp \in Kept' : Faithful(cp)
  BY <1>3, <1>4 DEF RestoreInv
<1> QED BY <1>1, <1>5 DEF RestoreInv

\* No other step touches what a rollback reads, nor takes part in one.
LEMMA OtherSteps ==
  ASSUME [Next]_vars
  PROVE  \/ Checkpoint
         \/ \E id \in Gettable : RollbackTo(id)
         \/ \E p \in Path : RestoreFile(p)
         \/ FinishRollback
         \/ UNCHANGED <<memory, disk>> /\ pc' # "restore"
         \/ UNCHANGED <<memory, disk, target, left, pc>> /\ (~clean' \/ UNCHANGED <<files, clean>>)
  BY DEF Next, vars, Edit, Tick, SecondPasses, apply_changes, ApplyChange, ApplyChangeFails,
         apply_multiple, BeginBatch, ApplyDiff, ApplyDiffFails, ApplyDiffRaises, UndoDiff,
         UndoDiffFails, EndBatch, UndoLast, RestoreFileFails, restore_file_Fails, rollbackVars,
         guardVars, controlVars

\* A restored file holds what the snapshot says.
LEMMA RestoreFileStep ==
  ASSUME RestoreInv, DataInv, NEW p \in Path, RestoreFile(p)
  PROVE  RestoreInv'
<1> DEFINE cp == get_checkpoint(target)
<1>1. /\ pc = "restore" /\ pc' = "restore" /\ clean' = clean
      /\ UNCHANGED <<memory, disk, target>>
      /\ left' = left \ {p} /\ p \in left
  BY DEF RestoreFile, restore_file, controlVars
<1>2. /\ target \in Gettable /\ left \subseteq DOMAIN cp.snapshots /\ cp \in Kept
      /\ DOMAIN cp.snapshots \subseteq Path /\ Faithful(cp)
  BY <1>1, GotIsKept DEF DataInv, RestoreInv, CheckpointOK
<1>3. Kept' = Kept /\ get_checkpoint(target)' = cp
  BY <1>1 DEF Kept, get_checkpoint
<1>4. DOMAIN files = Path /\ \A q \in Path \ {p} : files'[q] = files[q]
  BY DEF RestoreFile, restore_file, write, delete, DataInv, GuardTypeOK
<1>5. ASSUME p \notin cp.refused PROVE Text(files'[p]) = Text(cp.truth[p])
  <2> DEFINE snapshot == cp.snapshots[p]
  <2>1. IF cp.truth[p] = Absent THEN snapshot.kind = "absent"
        ELSE snapshot.kind = "inline" /\ Text(snapshot.content) = Text(cp.truth[p])
    BY <1>1, <1>2, <1>5 DEF Faithful
  <2>2. \/ snapshot.kind = "absent" /\ files[p] = Absent /\ UNCHANGED <<files, trackVars>>
        \/ snapshot.kind = "absent" /\ delete(p)
        \/ snapshot.kind = "inline" /\ write(p, snapshot.content)
        \/ snapshot.kind = "backup"
    BY DEF RestoreFile, restore_file
  <2> HIDE DEF snapshot
  <2>3. CASE cp.truth[p] = Absent
    <3>1. files'[p] = Absent
      BY <1>4, <2>1, <2>2, <2>3 DEF delete
    <3> QED BY <2>3, <3>1
  <2>4. CASE cp.truth[p] # Absent
    <3>1. files'[p] = snapshot.content
      BY <1>4, <2>1, <2>2, <2>4 DEF write
    <3> QED BY <2>1, <2>4, <3>1
  <2> QED BY <2>3, <2>4
<1> HIDE DEF cp
<1>6. ASSUME clean' PROVE RestoredSoFar'
  <2> SUFFICES ASSUME NEW q \in DOMAIN cp.snapshots, q \notin left', q \notin cp.refused
               PROVE  Text(files'[q]) = Text(cp.truth[q])
    BY <1>3 DEF RestoredSoFar, Text
  <2>1. CASE q = p
    BY <1>5, <2>1
  <2>2. CASE q # p
    <3>1. Text(files[q]) = Text(cp.truth[q])
      BY <1>1, <1>6, <2>2 DEF RestoreInv, RestoredSoFar, cp
    <3> QED BY <1>2, <1>4, <2>2, <3>1
  <2> QED BY <2>1, <2>2
<1> QED BY <1>3, <1>6 DEF RestoreInv

\* A rollback begins with nothing restored and everything left.
LEMMA RollbackToStep ==
  ASSUME RestoreInv, NEW id \in Gettable, RollbackTo(id)
  PROVE  RestoreInv'
<1>1. /\ UNCHANGED <<memory, disk>> /\ target' = id
      /\ left' = DOMAIN get_checkpoint(id).snapshots
  BY DEF RollbackTo, rollback_to
<1>2. Kept' = Kept /\ get_checkpoint(target)' = get_checkpoint(id)
  BY <1>1 DEF Kept, get_checkpoint
<1>3. RestoredSoFar'
  BY <1>1, <1>2 DEF RestoredSoFar
<1> QED BY <1>2, <1>3 DEF RestoreInv

\* Every state has its checkpoints faithful and its rollback on course.
THEOREM RestoreInvariant ==
  ASSUME Large = {}
  PROVE  Spec => []RestoreInv
<1>1. Init => RestoreInv
  BY DEF Init, RollbackInit, RestoreInv, Kept
<1>2. RestoreInv /\ DataInv /\ [Next]_vars => RestoreInv'
  <2> SUFFICES ASSUME RestoreInv, DataInv, [Next]_vars PROVE RestoreInv'
    OBVIOUS
  <2>1. CASE Checkpoint
    BY <2>1, CheckpointFaithful
  <2>2. CASE \E id \in Gettable : RollbackTo(id)
    BY <2>2, RollbackToStep
  <2>3. CASE \E p \in Path : RestoreFile(p)
    BY <2>3, RestoreFileStep
  <2>4. CASE FinishRollback
    <3>1. pc' # "restore" /\ Kept' \subseteq Kept
      BY <2>4, KeptShrinks DEF FinishRollback
    <3> QED BY <3>1 DEF RestoreInv
  <2>5. CASE UNCHANGED <<memory, disk>> /\ pc' # "restore"
    BY <2>5 DEF RestoreInv, Kept
  <2>6. CASE UNCHANGED <<memory, disk, target, left, pc>> /\ (~clean' \/ UNCHANGED <<files, clean>>)
    <3>1. Kept' = Kept /\ get_checkpoint(target)' = get_checkpoint(target)
      BY <2>6 DEF Kept, get_checkpoint
    <3>2. clean' => (RestoredSoFar => RestoredSoFar')
      BY <2>6, <3>1 DEF RestoredSoFar, Text
    <3> QED BY <2>6, <3>1, <3>2 DEF RestoreInv
  <2> QED BY <2>1, <2>2, <2>3, <2>4, <2>5, <2>6, OtherSteps
<1> QED BY <1>1, <1>2, DataInvariant, PTL DEF Spec

\* A rollback that runs through restores the text of every file it has a
\* snapshot of, whatever happened to the file since (rollback_to,
\* _restore_file), when no file is too large for its snapshot to hold.
THEOREM RollbackRestores ==
  ASSUME Large = {}
  PROVE  Spec => []RollbackRestoresTracked
<1>1. RestoreInv => RollbackRestoresTracked
  BY DEF RestoreInv, RestoredSoFar, RollbackRestoresTracked
<1> QED BY <1>1, RestoreInvariant, PTL

----------------------------------------------------------------------------
\* What applying a diff does to the stack and the file it is about.
LEMMA ApplyStep ==
  ASSUME DataInv, NEW d \in Diff, apply(d)
  PROVE  LET n == Len(applied) IN
         /\ n \in Nat /\ DOMAIN applied = 1..n /\ DOMAIN applied' = 1..(n + 1)
         /\ \A i \in 1..n : applied'[i] = applied[i]
         /\ applied'[n + 1] = Entry(d) /\ Len(applied') = n + 1
         /\ d.path \in Path /\ \A p \in Path \ {d.path} : files'[p] = files[p]
         /\ files'[d.path] = LeftBy(Entry(d))
         /\ d.type = "ADD" => Entry(d).original = Absent
         /\ d.type # "ADD" => Entry(d).original = Text(files[d.path])
<1>1. /\ applied \in Seq(AppliedEntry) /\ files \in [Path -> FileState] /\ d.path \in Path
      /\ applied' = Append(applied, Entry(d)) /\ Entry(d) \in AppliedEntry
  BY EntryTyped DEF DataInv, GuardTypeOK, apply, Diff
<1>2. /\ Entry(d).diff = d
      /\ d.type = "ADD" => Entry(d).original = Absent
      /\ d.type # "ADD" => Entry(d).original = Text(files[d.path])
  BY DEF Entry, OriginalOf, read
<1>3. /\ \A p \in Path \ {d.path} : files'[p] = files[p]
      /\ files'[d.path] = LeftBy(Entry(d))
  BY <1>1, <1>2 DEF apply, write, delete, LeftBy
<1> QED BY <1>1, <1>2, <1>3

\* What undoing the last one does to them.
LEMMA UndoStep ==
  ASSUME DataInv, rollback_last
  PROVE  LET n == Len(applied) IN
         /\ n \in Nat /\ n > 0 /\ DOMAIN applied = 1..n /\ DOMAIN applied' = 1..(n - 1)
         /\ \A i \in 1..(n - 1) : applied'[i] = applied[i]
         /\ Len(applied') = n - 1 /\ applied[n] \in AppliedEntry
         /\ applied[n].diff.path \in Path
         /\ \A p \in Path \ {applied[n].diff.path} : files'[p] = files[p]
         /\ files'[applied[n].diff.path] = applied[n].original
<1> DEFINE n == Len(applied)
           e == applied[n]
<1>1. /\ applied \in Seq(AppliedEntry) /\ n \in Nat /\ n > 0 /\ DOMAIN applied = 1..n
      /\ files \in [Path -> FileState]
  BY DEF DataInv, GuardTypeOK, rollback_last
<1>2. e \in AppliedEntry /\ applied' = SubSeq(applied, 1, n - 1)
  BY <1>1 DEF rollback_last, Front
<1>3. e.diff.path \in Path /\ (e.diff.type = "ADD" => e.original = Absent)
  BY <1>2 DEF AppliedEntry, Diff
<1>4. files' = [files EXCEPT ![e.diff.path] = e.original]
  <2>1. Last(applied) = e
    BY DEF Last
  <2> HIDE DEF e
  <2> QED BY <1>3, <2>1 DEF rollback_last, delete, write
<1>5. /\ Len(applied') = n - 1 /\ DOMAIN applied' = 1..(n - 1)
      /\ \A i \in 1..(n - 1) : applied'[i] = applied[i]
  <2>1. n - 1 \in 0..n /\ n - 1 - 1 + 1 = n - 1 /\ \A i \in 1..(n - 1) : 1 + i - 1 = i
    BY <1>1
  <2> HIDE DEF e
  <2> QED BY <1>1, <1>2, <2>1, Cut
<1> HIDE DEF e
<1>6. /\ files'[e.diff.path] = e.original
      /\ \A p \in Path \ {e.diff.path} : files'[p] = files[p]
  BY <1>1, <1>3, <1>4
<1> QED BY <1>1, <1>2, <1>3, <1>5, <1>6 DEF e

\* A diff on top of the stack leads from what it left back to what it found.
LEMMA RetraceGrows ==
  ASSUME DataInv, UndoRetraces, NEW d \in Diff, apply(d)
  PROVE  UndoRetraces'
<1> SUFFICES ASSUME NEW p \in Path \ touched' PROVE Retraces(p)'
  BY DEF UndoRetraces
<1> DEFINE n   == Len(applied)
           e   == Entry(d)
           own == {i \in DOMAIN applied : applied[i].diff.path = p}
           now == {i \in DOMAIN applied' : applied'[i].diff.path = p}
<1>1. /\ n \in Nat /\ DOMAIN applied = 1..n /\ DOMAIN applied' = 1..(n + 1)
      /\ \A i \in 1..n : applied'[i] = applied[i]
      /\ applied'[n + 1] = e /\ e.diff = d
      /\ \A q \in Path \ {d.path} : files'[q] = files[q]
      /\ files'[d.path] = LeftBy(e)
      /\ d.type = "ADD" => e.original = Absent
      /\ d.type # "ADD" => e.original = Text(files[d.path])
  BY ApplyStep DEF Entry
<1>2. /\ base' = base /\ touched' = IF d.type = "ADD" /\ files[d.path] # Absent
                                    THEN touched \cup {d.path} ELSE touched
  BY DEF apply
<1>3. Retraces(p)
  BY <1>2 DEF UndoRetraces
<1>4. /\ own = {} => Text(files[p]) = Text(base[p])
      /\ \A i \in own :
          /\ (\A j \in own : i <= j) => applied[i].original = Text(base[p])
          /\ (\A j \in own : j <= i) => Text(files[p]) = Text(LeftBy(applied[i]))
          /\ \A j \in own : i < j /\ (\A k \in own : k <= i \/ j <= k) =>
                applied[j].original = Text(LeftBy(applied[i]))
  BY <1>3 DEF Retraces
<1>5. now = IF p = d.path THEN own \cup {n + 1} ELSE own
  BY <1>1
<1>6. own \subseteq 1..n /\ \A i \in own : applied'[i] = applied[i]
  BY <1>1
<1>7. p = d.path => e.original = Text(files[p])
  BY <1>1, <1>2 DEF Text
<1> HIDE DEF n, e, own, now
<1>8. now = {} => Text(files'[p]) = Text(base'[p])
  BY <1>1, <1>2, <1>4, <1>5
<1>9. ASSUME NEW i \in now
      PROVE  /\ (\A j \in now : i <= j) => applied'[i].original = Text(base'[p])
             /\ (\A j \in now : j <= i) => Text(files'[p]) = Text(LeftBy(applied'[i]))
             /\ \A j \in now : i < j /\ (\A k \in now : k <= i \/ j <= k) =>
                   applied'[j].original = Text(LeftBy(applied'[i]))
  <2>1. CASE p # d.path
    BY <1>1, <1>2, <1>4, <1>5, <1>6, <1>9, <2>1
  <2>2. CASE p = d.path /\ i = n + 1
    <3>1. \A j \in own : j < i /\ i \notin own
      BY <1>1, <1>6, <2>2
    <3>2. (\A j \in now : i <= j) => own = {}
      BY <1>1, <1>5, <1>6, <2>2, <3>1
    <3>3. \A j \in now : ~(i < j)
      BY <1>1, <1>5, <1>6, <2>2
    <3> QED BY <1>1, <1>2, <1>4, <1>7, <2>2, <3>2, <3>3
  <2>3. CASE p = d.path /\ i \in own
    <3>1. (\A j \in now : i <= j) => applied'[i].original = Text(base'[p])
      BY <1>2, <1>4, <1>5, <1>6, <2>3
    <3>2. n + 1 \in now /\ ~(n + 1 <= i) /\ i < n + 1
      BY <1>1, <1>5, <1>6, <2>3
    <3>3. ASSUME NEW j \in now, i < j, \A k \in now : k <= i \/ j <= k
          PROVE  applied'[j].original = Text(LeftBy(applied'[i]))
      <4>1. CASE j \in own
        BY <1>4, <1>5, <1>6, <2>3, <3>3, <4>1
      <4>2. CASE j = n + 1
        <5>1. \A k \in own : k <= i
          BY <1>1, <1>5, <1>6, <2>3, <3>3, <4>2
        <5> QED BY <1>1, <1>4, <1>6, <1>7, <2>3, <4>2, <5>1
      <4> QED BY <1>5, <2>3, <3>3, <4>1, <4>2
    <3> QED BY <3>1, <3>2, <3>3
  <2> QED BY <1>5, <1>9, <2>1, <2>2, <2>3
<1> QED BY <1>8, <1>9 DEF Retraces, now, LeftBy, Text

\* Undoing the newest gives back what the one before it left, or what was
\* there first.
LEMMA RetraceShrinks ==
  ASSUME DataInv, UndoRetraces, rollback_last
  PROVE  UndoRetraces'
<1> SUFFICES ASSUME NEW p \in Path \ touched' PROVE Retraces(p)'
  BY DEF UndoRetraces
<1> DEFINE n   == Len(applied)
           e   == applied[n]
           own == {i \in DOMAIN applied : applied[i].diff.path = p}
           now == {i \in DOMAIN applied' : applied'[i].diff.path = p}
<1>1. /\ n \in Nat /\ n > 0 /\ DOMAIN applied = 1..n /\ DOMAIN applied' = 1..(n - 1)
      /\ \A i \in 1..(n - 1) : applied'[i] = applied[i]
      /\ e.diff.path \in Path
      /\ \A q \in Path \ {e.diff.path} : files'[q] = files[q]
      /\ files'[e.diff.path] = e.original
  BY UndoStep
<1>2. base' = base /\ touched' = touched
  BY DEF rollback_last
<1>3. Retraces(p)
  BY <1>2 DEF UndoRetraces
<1>4. /\ own = {} => Text(files[p]) = Text(base[p])
      /\ \A i \in own :
          /\ (\A j \in own : i <= j) => applied[i].original = Text(base[p])
          /\ (\A j \in own : j <= i) => Text(files[p]) = Text(LeftBy(applied[i]))
          /\ \A j \in own : i < j /\ (\A k \in own : k <= i \/ j <= k) =>
                applied[j].original = Text(LeftBy(applied[i]))
  BY <1>3 DEF Retraces
<1>5. own = IF p = e.diff.path THEN now \cup {n} ELSE now
  BY <1>1
<1>6. /\ now \subseteq 1..(n - 1) /\ \A i \in now : applied'[i] = applied[i] /\ i < n
      /\ n \notin now
  BY <1>1
<1>7. base[p] \in FileState /\ \A i \in DOMAIN applied : LeftBy(applied[i]) \in FileState
  <2>1. \A i \in DOMAIN applied : applied[i] \in AppliedEntry
    BY DEF DataInv
  <2>2. \A a \in AppliedEntry : a.diff \in Diff
    BY DEF AppliedEntry
  <2> QED BY <2>1, <2>2 DEF DataInv, LeftBy, Diff, FileState
<1>8. n \in own => e = applied[n] /\ n \in DOMAIN applied
  BY <1>1
<1> HIDE DEF n, e, own, now
<1>9. now = {} => Text(files'[p]) = Text(base'[p])
  <2>1. CASE p # e.diff.path
    BY <1>1, <1>2, <1>4, <1>5, <2>1
  <2>2. CASE p = e.diff.path /\ now = {}
    <3>1. own = {n} /\ n <= n
      BY <1>1, <1>5, <2>2
    <3>2. e.original = Text(base[p])
      BY <1>4, <1>8, <3>1
    <3> QED BY <1>1, <1>2, <1>7, <2>2, <3>2, TextIsText
  <2> QED BY <2>1, <2>2
<1>10. ASSUME NEW i \in now
       PROVE  /\ (\A j \in now : i <= j) => applied'[i].original = Text(base'[p])
              /\ (\A j \in now : j <= i) => Text(files'[p]) = Text(LeftBy(applied'[i]))
              /\ \A j \in now : i < j /\ (\A k \in now : k <= i \/ j <= k) =>
                    applied'[j].original = Text(LeftBy(applied'[i]))
  <2>1. CASE p # e.diff.path
    BY <1>1, <1>2, <1>4, <1>5, <1>6, <1>10, <2>1
  <2>2. CASE p = e.diff.path
    <3>0. i \in own /\ n \in own /\ i < n /\ i \in Nat
      BY <1>1, <1>5, <1>6, <1>10, <2>2
    <3>1. (\A j \in now : i <= j) => applied'[i].original = Text(base'[p])
      <4>1. (\A j \in now : i <= j) => \A j \in own : i <= j
        BY <1>1, <1>5, <3>0
      <4> QED BY <1>2, <1>4, <1>6, <1>10, <3>0, <4>1
    <3>2. ASSUME \A j \in now : j <= i PROVE Text(files'[p]) = Text(LeftBy(applied'[i]))
      <4>1. \A k \in own : k <= i \/ n <= k
        BY <1>1, <1>5, <3>0, <3>2
      <4>2. e.original = Text(LeftBy(applied[i]))
        BY <1>4, <1>8, <3>0, <4>1
      <4>3. LeftBy(applied[i]) \in FileState
        BY <1>1, <1>6, <1>7, <1>10
      <4> QED BY <1>1, <1>6, <1>10, <2>2, <4>2, <4>3, TextIsText
    <3>3. ASSUME NEW j \in now, i < j, \A k \in now : k <= i \/ j <= k
          PROVE  applied'[j].original = Text(LeftBy(applied'[i]))
      <4>1. j \in own /\ j <= n
        BY <1>1, <1>5, <1>6, <2>2, <3>3
      <4>2. \A k \in own : k <= i \/ j <= k
        BY <1>5, <3>3, <4>1
      <4> QED BY <1>4, <1>6, <1>10, <3>0, <3>3, <4>1, <4>2
    <3> QED BY <3>1, <3>2, <3>3
  <2> QED BY <2>1, <2>2
<1> QED BY <1>9, <1>10 DEF Retraces, now, LeftBy, Text

\* An undoing that failed leaves only the file of the entry it dropped in
\* between.
LEMMA RetraceDrops ==
  ASSUME DataInv, UndoRetraces, rollback_last_Fails
  PROVE  UndoRetraces'
<1> SUFFICES ASSUME NEW p \in Path \ touched' PROVE Retraces(p)'
  BY DEF UndoRetraces
<1> DEFINE n == Len(applied)
           e == applied[n]
<1>1. /\ applied \in Seq(AppliedEntry) /\ n \in Nat /\ n > 0 /\ DOMAIN applied = 1..n
      /\ files \in [Path -> FileState]
  BY DEF DataInv, GuardTypeOK, rollback_last_Fails
<1>2. /\ e = Last(applied) /\ applied' = SubSeq(applied, 1, n - 1)
      /\ base' = base /\ touched' = touched \cup {e.diff.path}
      /\ files' = files \/ write_Torn(e.diff.path)
  BY DEF Last, Front, rollback_last_Fails
<1> HIDE DEF e
<1>3. files'[p] = files[p]
  BY <1>1, <1>2 DEF write_Torn
<1>4. /\ Len(applied') = n - 1 /\ DOMAIN applied' = 1..(n - 1)
      /\ \A i \in 1..(n - 1) : applied'[i] = applied[i]
  <2>1. n - 1 \in 0..n /\ n - 1 - 1 + 1 = n - 1 /\ \A i \in 1..(n - 1) : 1 + i - 1 = i
    BY <1>1
  <2> QED BY <1>1, <1>2, <2>1, Cut
<1> DEFINE own == {i \in DOMAIN applied : applied[i].diff.path = p}
           now == {i \in DOMAIN applied' : applied'[i].diff.path = p}
<1>5. now = own
  BY <1>1, <1>2, <1>4 DEF e
<1>6. \A i \in own : applied'[i] = applied[i]
  BY <1>1, <1>2, <1>4 DEF e
<1>7. /\ own = {} => Text(files[p]) = Text(base[p])
      /\ \A i \in own :
          /\ (\A j \in own : i <= j) => applied[i].original = Text(base[p])
          /\ (\A j \in own : j <= i) => Text(files[p]) = Text(LeftBy(applied[i]))
          /\ \A j \in own : i < j /\ (\A k \in own : k <= i \/ j <= k) =>
                applied[j].original = Text(LeftBy(applied[i]))
  BY <1>2 DEF UndoRetraces, Retraces
<1> HIDE DEF own, now
<1>8. /\ now = {} => Text(files'[p]) = Text(base'[p])
      /\ \A i \in now :
          /\ (\A j \in now : i <= j) => applied'[i].original = Text(base'[p])
          /\ (\A j \in now : j <= i) => Text(files'[p]) = Text(LeftBy(applied'[i]))
          /\ \A j \in now : i < j /\ (\A k \in now : k <= i \/ j <= k) =>
                applied'[j].original = Text(LeftBy(applied'[i]))
  <2>1. base' = base
    BY <1>2
  <2>2. ASSUME NEW i \in own
        PROVE  /\ (\A j \in own : i <= j) => applied'[i].original = Text(base[p])
               /\ (\A j \in own : j <= i) => Text(files[p]) = Text(LeftBy(applied'[i]))
               /\ \A j \in own : i < j /\ (\A k \in own : k <= i \/ j <= k) =>
                     applied'[j].original = Text(LeftBy(applied'[i]))
    <3>1. applied'[i] = applied[i]
      BY <1>6
    <3> QED BY <1>6, <1>7, <3>1
  <2> QED BY <1>3, <1>5, <1>7, <2>1, <2>2
<1> QED BY <1>8 DEF Retraces, now, LeftBy, Text

\* Nothing happens to the files that are not touched, nor to the stack.
LEMMA RetraceStays ==
  ASSUME UndoRetraces, UNCHANGED <<applied, base>>, touched \subseteq touched',
         \A p \in Path \ touched' : files'[p] = files[p]
  PROVE  UndoRetraces'
<1> SUFFICES ASSUME NEW p \in Path \ touched' PROVE Retraces(p)'
  BY DEF UndoRetraces
<1>1. Retraces(p) /\ files'[p] = files[p]
  BY DEF UndoRetraces
<1> QED BY <1>1 DEF Retraces, LeftBy, Text

\* Every step of a run leaves the stack leading back.
LEMMA RetraceSteps ==
  ASSUME DataInv, UndoRetraces, [Next]_vars
  PROVE  UndoRetraces'
<1> USE DEF diffVars, guardVars
<1>1. DOMAIN files = Path
  BY DEF DataInv, GuardTypeOK
<1>2. CASE \E p \in Path, c \in FileState : Edit(p, c)
  BY <1>1, <1>2, RetraceStays DEF Edit
<1>3. CASE Tick \/ apply_changes \/ apply_multiple \/ EndBatch \/ ApplyDiffRaises \/ FinishRollback
  BY <1>3, RetraceStays DEF Tick, SecondPasses, apply_changes, apply_multiple, BeginBatch, EndBatch,
     ApplyDiffRaises, apply_Raises, FinishRollback, finish_rollback
<1>4. CASE Checkpoint \/ \E id \in Gettable : RollbackTo(id)
  BY <1>4, RetraceStays DEF Checkpoint, create_checkpoint, create_checkpoint_Raises, Snapshots,
     RollbackTo, rollback_to
<1>5. CASE \E p \in Path : RestoreFile(p) \/ RestoreFileFails(p)
  BY <1>1, <1>5, RetraceStays DEF RestoreFile, RestoreFileFails, restore_file, restore_file_Fails,
     write, delete
<1>6. ASSUME NEW d \in Diff, apply_Fails(d) PROVE UndoRetraces'
  <2>1. /\ UNCHANGED <<applied, base>> /\ touched \subseteq touched'
        /\ \A p \in Path \ touched' : files'[p] = files[p]
    BY <1>1, <1>6 DEF apply_Fails, write_Torn
  <2> QED BY <2>1, RetraceStays
<1>7. CASE \E change \in Change : ApplyChange(change) \/ ApplyChangeFails(change)
  <2>1. PICK change \in Change : \/ apply(DiffOf(change)) \/ apply_Fails(DiffOf(change))
                                 \/ apply_Raises
    BY <1>7 DEF ApplyChange, ApplyChangeFails
  <2>2. DiffOf(change) \in Diff
    BY ChangeTyped DEF DataInv
  <2>3. CASE apply_Raises
    BY <2>3, RetraceStays DEF apply_Raises
  <2> QED BY <1>6, <2>1, <2>2, <2>3, RetraceGrows
<1>8. CASE ApplyDiff \/ ApplyDiffFails
  <2>1. Head(todo) \in Diff
    BY <1>8 DEF ApplyDiff, ApplyDiffFails, DataInv
  <2> QED BY <1>6, <1>8, <2>1, RetraceGrows DEF ApplyDiff, ApplyDiffFails
<1>9. CASE UndoDiff \/ UndoDiffFails \/ UndoLast
  BY <1>9, RetraceShrinks, RetraceDrops DEF UndoDiff, UndoDiffFails, UndoLast
<1>10. CASE UNCHANGED vars
  BY <1>10, RetraceStays DEF vars
<1> QED BY <1>2, <1>3, <1>4, <1>5, <1>7, <1>8, <1>9, <1>10 DEF Next

\* The stack of applied diffs leads every file back through the texts it had,
\* through any batches, failures, undoings and checkpoints, as long as nothing
\* else wrote to it (apply, rollback_last).
THEOREM UndoLeadsBack == Spec => []UndoRetraces
<1>1. Init => UndoRetraces
  BY DEF Init, UndoRetraces, Retraces
<1>2. DataInv /\ UndoRetraces /\ [Next]_vars => UndoRetraces'
  BY RetraceSteps
<1> QED BY <1>1, <1>2, DataInvariant, PTL DEF Spec

----------------------------------------------------------------------------
\* The entries of the stack that belong to the batch.
OfBatch == {i \in DOMAIN applied : i > Len(applied) - count}

\* Where the batch has left a file alone it holds the text it held; where not,
\* the first entry about it gives that back.
Leads(p) ==
    LET own == {i \in OfBatch : applied[i].diff.path = p} IN
    /\ own = {} => Text(files[p]) = Text(batch[p])
    /\ \A i \in own : (\A j \in own : i <= j) => applied[i].original = Text(batch[p])

\* The inductive invariant of apply_multiple: the stack leads back to the
\* workspace in which the batch began, and a diff that adds a file was made
\* where there was none.
BatchInv ==
    pc \in {"multiple", "undo"} /\ clean =>
        /\ \A p \in Path : Leads(p)
        /\ \A i \in DOMAIN todo : todo[i].type = "ADD" => batch[todo[i].path] = Absent

\* apply_multiple begins.
LEMMA BatchBegins ==
  ASSUME DataInv, apply_multiple
  PROVE  BatchInv'
<1>1. batch' = files /\ files' = files /\ applied' = applied /\ count' = 0
  BY DEF apply_multiple, BeginBatch, guardVars, diffVars
<1>2. OfBatch' = {}
  BY <1>1 DEF OfBatch, DataInv
<1>3. \A p \in Path : Leads(p)'
  BY <1>1, <1>2 DEF Leads, Text
<1>4. ASSUME NEW i \in DOMAIN todo' PROVE todo'[i].type = "ADD" => files[todo'[i].path] = Absent
  <2>1. todo'[i] \in MakeableDiffs
    BY <1>4 DEF apply_multiple
  <2> QED BY <2>1 DEF MakeableDiffs, create_diff, create_deletion_diff
<1> QED BY <1>1, <1>3, <1>4 DEF BatchInv

\* A diff is applied on top of the others.
LEMMA BatchGrows ==
  ASSUME DataInv, BatchInv, ApplyDiff
  PROVE  BatchInv'
<1> SUFFICES ASSUME pc' \in {"multiple", "undo"}, clean'
             PROVE  /\ \A p \in Path : Leads(p)'
                    /\ \A i \in DOMAIN todo' : todo'[i].type = "ADD" => batch'[todo'[i].path] = Absent
  BY DEF BatchInv
<1> DEFINE d == Head(todo)
<1>1. /\ pc = "multiple" /\ clean /\ batch' = batch /\ todo # <<>> /\ todo \in Seq(Diff)
      /\ todo' = Tail(todo) /\ count' = count + 1
      /\ apply(d)
  BY DEF ApplyDiff, DataInv
<1>2. /\ \A p \in Path : Leads(p)
      /\ \A i \in DOMAIN todo : todo[i].type = "ADD" => batch[todo[i].path] = Absent
  BY <1>1 DEF BatchInv
<1>3. d = todo[1] /\ 1 \in DOMAIN todo /\ d \in Diff
  BY <1>1
<1>4. \A i \in DOMAIN todo' : i + 1 \in DOMAIN todo /\ todo'[i] = todo[i + 1]
  BY <1>1
<1>5. d.type = "ADD" => batch[d.path] = Absent
  BY <1>2, <1>3
<1> HIDE DEF d
<1> DEFINE n == Len(applied)
           e == Entry(d)
<1>6. /\ n \in Nat /\ count \in Nat /\ count <= n /\ Len(applied') = n + 1
      /\ DOMAIN applied' = 1..(n + 1) /\ DOMAIN applied = 1..n
      /\ applied'[n + 1] = e /\ \A i \in 1..n : applied'[i] = applied[i]
      /\ \A p \in Path \ {d.path} : files'[p] = files[p]
  BY <1>1, <1>3, ApplyStep DEF DataInv
<1>7. e.diff.path = d.path /\ e.original = IF d.type = "ADD" THEN Absent ELSE Text(files[d.path])
  BY DEF Entry, OriginalOf, read
<1> HIDE DEF e, n
<1>8. OfBatch' = OfBatch \cup {n + 1} /\ n + 1 \notin OfBatch /\ OfBatch \subseteq 1..n
  BY <1>1, <1>6 DEF OfBatch, n
<1>9. ASSUME NEW p \in Path PROVE Leads(p)'
  <2> DEFINE own == {i \in OfBatch : applied[i].diff.path = p}
             now == {i \in OfBatch' : applied'[i].diff.path = p}
  <2>1. /\ own = {} => Text(files[p]) = Text(batch[p])
        /\ \A i \in own : (\A j \in own : i <= j) => applied[i].original = Text(batch[p])
    BY <1>2 DEF Leads
  <2>2. now = IF p = d.path THEN own \cup {n + 1} ELSE own
    BY <1>6, <1>7, <1>8
  <2>3. own \subseteq 1..n /\ \A i \in own : applied'[i] = applied[i]
    BY <1>6, <1>8
  <2> HIDE DEF own, now
  <2>4. now = {} => Text(files'[p]) = Text(batch[p])
    BY <1>6, <2>1, <2>2
  <2>5. ASSUME NEW i \in now, \A j \in now : i <= j
        PROVE  applied'[i].original = Text(batch[p])
    <3>1. CASE i \in own
      BY <2>1, <2>2, <2>3, <2>5, <3>1
    <3>2. CASE i \notin own
      <4>1. p = d.path /\ i = n + 1
        BY <2>2, <2>5, <3>2
      <4>2. own = {}
        BY <1>6, <2>2, <2>3, <2>5, <4>1
      <4> QED BY <1>5, <1>6, <1>7, <2>1, <4>1, <4>2 DEF Text
    <3> QED BY <3>1, <3>2
  <2> QED BY <1>1, <2>4, <2>5 DEF Leads, now, Text
<1> QED BY <1>1, <1>2, <1>4, <1>9

\* The last of the diffs is undone.
LEMMA BatchShrinks ==
  ASSUME DataInv, TypeOK, BatchInv, UndoDiff
  PROVE  BatchInv'
<1> SUFFICES ASSUME clean'
             PROVE  /\ \A p \in Path : Leads(p)'
                    /\ \A i \in DOMAIN todo' : todo'[i].type = "ADD" => batch'[todo'[i].path] = Absent
  BY DEF BatchInv
<1>1. /\ pc = "undo" /\ clean /\ batch' = batch /\ todo' = todo /\ count > 0
      /\ count' = count - 1 /\ rollback_last
  BY DEF UndoDiff
<1>2. /\ \A p \in Path : Leads(p)
      /\ \A i \in DOMAIN todo : todo[i].type = "ADD" => batch[todo[i].path] = Absent
  BY <1>1 DEF BatchInv
<1> DEFINE n == Len(applied)
           e == applied[n]
<1>3. /\ n \in Nat /\ n > 0 /\ count \in Nat /\ count <= n
      /\ Len(applied') = n - 1 /\ DOMAIN applied' = 1..(n - 1) /\ DOMAIN applied = 1..n
      /\ \A i \in 1..(n - 1) : applied'[i] = applied[i]
      /\ \A p \in Path \ {e.diff.path} : files'[p] = files[p]
      /\ files'[e.diff.path] = e.original
  BY <1>1, UndoStep DEF DataInv
<1>4. batch \in [Path -> FileState]
  BY DEF TypeOK
<1>5. OfBatch = OfBatch' \cup {n} /\ n \notin OfBatch' /\ OfBatch' \subseteq 1..(n - 1)
  BY <1>1, <1>3 DEF OfBatch
<1>6. ASSUME NEW p \in Path PROVE Leads(p)'
  <2> DEFINE own == {i \in OfBatch : applied[i].diff.path = p}
             now == {i \in OfBatch' : applied'[i].diff.path = p}
  <2>1. /\ own = {} => Text(files[p]) = Text(batch[p])
        /\ \A i \in own : (\A j \in own : i <= j) => applied[i].original = Text(batch[p])
    BY <1>2 DEF Leads
  <2>2. own = IF p = e.diff.path THEN now \cup {n} ELSE now
    BY <1>3, <1>5
  <2>3. now \subseteq 1..(n - 1) /\ \A i \in now : applied'[i] = applied[i]
    BY <1>3, <1>5
  <2> HIDE DEF own, now
  <2>4. now = {} => Text(files'[p]) = Text(batch[p])
    <3>1. CASE p = e.diff.path
      <4>1. now = {} => e.original = Text(batch[p])
        BY <1>3, <2>1, <2>2, <3>1
      <4> QED BY <1>3, <1>4, <3>1, <4>1, TextIsText
    <3>2. CASE p # e.diff.path
      BY <1>3, <2>1, <2>2, <3>2
    <3> QED BY <3>1, <3>2
  <2>5. ASSUME NEW i \in now, \A j \in now : i <= j
        PROVE  applied'[i].original = Text(batch[p])
    <3>1. i \in own /\ \A j \in own : i <= j
      BY <1>3, <2>2, <2>3, <2>5
    <3> QED BY <2>1, <2>3, <3>1
  <2> QED BY <1>1, <2>4, <2>5 DEF Leads, now, Text
<1> QED BY <1>1, <1>2, <1>6

\* Nothing the invariant speaks of changes.
LEMMA BatchStays ==
  ASSUME BatchInv, UNCHANGED <<files, applied, count, batch>>, clean' => clean,
         pc' \in {"multiple", "undo"} => pc \in {"multiple", "undo"},
         todo' = todo \/ todo' = <<>>
  PROVE  BatchInv'
<1> SUFFICES ASSUME pc' \in {"multiple", "undo"}, clean' PROVE BatchInv'
  BY DEF BatchInv
<1>1. /\ \A p \in Path : Leads(p)
      /\ \A i \in DOMAIN todo : todo[i].type = "ADD" => batch[todo[i].path] = Absent
  BY DEF BatchInv
<1>2. OfBatch' = OfBatch
  BY DEF OfBatch
<1>3. \A p \in Path : Leads(p)'
  BY <1>1, <1>2 DEF Leads, Text
<1>4. \A i \in DOMAIN todo' : todo'[i].type = "ADD" => batch'[todo'[i].path] = Absent
  BY <1>1
<1> QED BY <1>3, <1>4 DEF BatchInv

\* Every step of a run leaves the stack leading back.
LEMMA BatchSteps ==
  ASSUME DataInv, TypeOK, BatchInv, [Next]_vars
  PROVE  BatchInv'
<1>1. CASE \E p \in Path, c \in FileState : Edit(p, c)
  BY <1>1 DEF Edit, BatchInv
<1>2. CASE Tick
  BY <1>2, BatchStays DEF Tick, SecondPasses, controlVars, diffVars
<1>3. CASE \/ apply_changes \/ EndBatch \/ UndoLast \/ Checkpoint \/ FinishRollback
           \/ \E change \in Change : ApplyChange(change) \/ ApplyChangeFails(change)
           \/ \E id \in Gettable : RollbackTo(id)
           \/ \E p \in Path : RestoreFile(p) \/ RestoreFileFails(p)
  <2>1. pc' \notin {"multiple", "undo"}
    BY <1>3 DEF apply_changes, BeginBatch, EndBatch, UndoLast, Checkpoint, FinishRollback,
       ApplyChange, ApplyChangeFails, RollbackTo, RestoreFile, RestoreFileFails
  <2> QED BY <2>1 DEF BatchInv
<1>4. CASE apply_multiple
  BY <1>4, BatchBegins
<1>5. CASE ApplyDiff
  BY <1>5, BatchGrows
<1>6. CASE ApplyDiffFails
  <2>1. CASE clean'
    <3>1. UNCHANGED <<files, applied, count, batch>> /\ clean /\ pc = "multiple" /\ todo' = <<>>
      BY <1>6, <2>1 DEF ApplyDiffFails, apply_Fails
    <3> QED BY <3>1, BatchStays
  <2>2. CASE ~clean'
    BY <2>2 DEF BatchInv
  <2> QED BY <2>1, <2>2
<1>7. CASE ApplyDiffRaises
  BY <1>7 DEF ApplyDiffRaises, BatchInv
<1>8. CASE UndoDiff
  BY <1>8, BatchShrinks
<1>9. CASE UndoDiffFails
  BY <1>9 DEF UndoDiffFails, BatchInv
<1>10. CASE UNCHANGED vars
  BY <1>10, BatchStays DEF vars, guardVars, diffVars, controlVars
<1> QED BY <1>1, <1>2, <1>3, <1>4, <1>5, <1>6, <1>7, <1>8, <1>9, <1>10 DEF Next

\* When apply_multiple has undone a batch that failed, every file holds the
\* text it held before, for any number of diffs, several about one file
\* included, unless the failing write or an undoing went wrong itself
\* (apply_multiple).
THEOREM BatchesAreUndone == Spec => []UndoRestoresBatch
<1>1. Init => BatchInv
  BY DEF Init, BatchInv
<1>2. DataInv /\ TypeOK /\ BatchInv /\ [Next]_vars => BatchInv'
  BY BatchSteps
<1>3. DataInv /\ BatchInv => UndoRestoresBatch
  <2> SUFFICES ASSUME DataInv, BatchInv, pc = "undo", count = 0, clean, NEW p \in Path
               PROVE  Text(files[p]) = Text(batch[p])
    BY DEF UndoRestoresBatch
  <2>1. OfBatch = {}
    BY DEF OfBatch, DataInv
  <2> QED BY <2>1 DEF BatchInv, Leads
<1> QED BY <1>1, <1>2, <1>3, DataInvariant, WorkspaceTypeCorrect, PTL DEF Spec
=============================================================================
