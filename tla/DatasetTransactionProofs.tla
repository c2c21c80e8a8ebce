---------------------- MODULE DatasetTransactionProofs ----------------------
(***************************************************************************)
(* Safety of the dataset transaction for every number of shards, runs and  *)
(* faults, when a power failure cannot follow a fault that fell between    *)
(* the rename of a closing journal and its directory fsync; and that it    *)
(* implements the atomic update of AtomicDataset: every step of a run, of  *)
(* the kernel or of a fault is one atomic update of all the paths of the   *)
(* run, a return, an edit by somebody else, or nothing.  What a reader     *)
(* relies on follows, and what no step may do to the targets.  Then the    *)
(* writer that builds one such version: what a run does not touch in a     *)
(* shard, and where the rows go that its modules stage, for any shards,    *)
(* configurations and answers of the model.                                *)
(***************************************************************************)
EXTENDS DatasetTransaction, LanguageColumns, FiniteSetTheorems, WellFoundedInduction, TLAPS

Sound == ~(PowerLoss /\ SyncWindow)

-----------------------------------------------------------------------------
(* The inductive invariant. *)

(* What the journal of this run names, and what its backups hold.          *)
Snapshot == [t \in Targets |-> IF t \in run.paths THEN run.base[t] ELSE Absent]

(* A journal of this run in the given state. *)
JournalOf(state) == [state |-> state, original |-> Snapshot, new |-> run.version]

(* Every target of this run holds its old or its new version, or was       *)
(* overwritten; no other target has moved.                                 *)
Mixed(target) ==
  \A t \in Targets :
    IF t \in run.paths
    THEN target[t] \in {run.base[t], run.version, Foreign}
    ELSE target[t] = run.base[t]

Whole(target) == target = run.base \/ target = Want

(* A journal that asks for a rollback can be obeyed. *)
Guarded(image) ==
  image.journal.state = "committing" =>
    /\ image.txn
    /\ image.journal = JournalOf("committing")
    /\ image.backup = Snapshot

RunInv ==
  /\ run.paths # {} => Info \in run.paths
  /\ run.base \in [Targets -> Nat]

(* Nothing is inside a transaction directory that does not exist. *)
EmptyInv ==
  \A image \in Images :
    ~image.txn => image.backup = Nothing /\ image.journal = NoJournal

(* What every process sees. *)
CacheInv ==
  /\ Guarded(cache)
  /\ IF cache.journal.state = "committing"
     THEN /\ Mixed(cache.target) /\ Mixed(disk.target)
          /\ \A t \in Targets : disk.target[t] = Foreign <=> cache.target[t] = Foreign
          /\ unflushed = {}
     ELSE Whole(cache.target) /\ disk.target = cache.target

(* What a power failure leaves. *)
DiskInv ==
  PowerLoss =>
    /\ Guarded(disk)
    /\ cache.journal.state = "committing" =>
         /\ disk.txn /\ disk.backup = Snapshot
         /\ disk.journal.state # "committing" =>
              cache.target = run.base /\ disk.target = run.base
    /\ disk.journal.state = "committing" /\ cache.journal.state # "committing" =>
         /\ pc \in EndSync
         /\ cache.backup = Snapshot

(* Where the run is: between the lock and the dataset, ...                 *)
LockInv ==
  /\ pc \in {"reading", "rootSync"} => ~cache.txn
  /\ pc = "rmtree" => cache.txn /\ cache.journal.state # "committing"

(* ... copying into the transaction directory, ...                         *)
StageInv ==
  /\ pc \in {"mkdirSync", "stage", "backup"} =>
       /\ cache.txn /\ cache.journal = NoJournal
       /\ cache.target = run.base
  /\ pc \in {"mkdirSync", "stage"} => cache.backup = Nothing
  /\ pc = "backup" =>
       /\ todo \subseteq run.paths /\ unflushed = todo
       /\ cache.backup = [t \in Targets |-> IF t \in todo THEN Absent ELSE Snapshot[t]]

(* ... publishing the journal, ...                                         *)
PrepareInv ==
  /\ pc \in InTry /\ PowerLoss => disk.txn
  /\ pc \in {"prepare", "prepareSync", "commit"} =>
       /\ cache.txn /\ cache.backup = Snapshot /\ cache.target = run.base
       /\ PowerLoss => disk.backup = Snapshot
       /\ unflushed = {}
       /\ cache.journal = IF pc = "prepare" THEN NoJournal ELSE JournalOf("prepared")
  /\ pc = "commitSync" => cache.journal = JournalOf("committing")
                          /\ cache.target = run.base

(* ... replacing the targets, ...                                          *)
PublishInv ==
  /\ pc \in {"publish", "publishSync"} =>
       /\ cache.journal.state = "committing" /\ disk.journal.state = "committing"
       /\ todo \subseteq run.paths
       /\ \A t \in Targets : cache.target[t] # Foreign
       /\ \A t \in run.paths \ todo :
            cache.target[t] = run.version /\ disk.target[t] = run.version
  /\ pc = "publishSync" => \A t \in todo : IsNext(t) => cache.target[t] = run.version
  /\ pc = "finishSync" => /\ cache.txn /\ cache.journal = JournalOf("committed")
                          /\ cache.backup = Snapshot
                          /\ PowerLoss => disk.backup = Snapshot
                          /\ cache.target = Want

(* ... or putting them back.                                               *)
RollbackInv ==
  /\ pc \in {"rollback", "rollbackSync"} =>
       /\ cache.journal.state = "committing"
       /\ todo \subseteq run.paths
       /\ \A t \in Targets : cache.target[t] # Foreign
       /\ \A t \in run.paths \ todo :
            cache.target[t] = run.base[t] /\ disk.target[t] = run.base[t]
  /\ pc = "rollbackSync" => \A t \in todo : IsNext(t) => cache.target[t] = run.base[t]
  /\ pc = "rolledBackSync" => /\ cache.txn /\ cache.journal = JournalOf("prepared")
                              /\ cache.backup = Snapshot
                              /\ PowerLoss => disk.txn /\ disk.backup = Snapshot
                              /\ cache.target = run.base

StepInv == LockInv /\ StageInv /\ PrepareInv /\ PublishInv /\ RollbackInv

-----------------------------------------------------------------------------
(* Types. *)

LEMMA TypeStep == TypeOK /\ [Next]_vars => TypeOK'
<1> SUFFICES ASSUME TypeOK, [Next]_vars PROVE TypeOK'
  OBVIOUS
<1> USE ConstantsAssumption DEF TypeOK, Image, Content, JournalStates, NoJournal, Nothing, Steps,
        InTry, fs, local, bounds, Goto, SyncTarget, SyncBackups, SyncJournal, SyncRoot
<1>1. CASE Acquire
  BY <1>1 DEF Acquire
<1>2. CASE Recovery
  <2>1. CASE NothingToRecover BY <2>1 DEF NothingToRecover, Land, Want
  <2>2. CASE OnlyCleanUp BY <2>2 DEF OnlyCleanUp
  <2>3. CASE StartRollback BY <2>3 DEF StartRollback, Paths
  <2>4. CASE RefuseToRecover BY <2>4 DEF RefuseToRecover
  <2>5. CASE RollbackTarget BY <2>5 DEF RollbackTarget, IsNext
  <2>6. CASE RollbackSync BY <2>6 DEF RollbackSync, IsNext
  <2>7. CASE RollbackJournal BY <2>7 DEF RollbackJournal
  <2>8. CASE RollbackJournalSync BY <2>8 DEF RollbackJournalSync
  <2>9. CASE RemoveEntry BY <2>9 DEF RemoveEntry
  <2>10. CASE RemoveDirectory BY <2>10 DEF RemoveDirectory
  <2>11. CASE RecoveryDone BY <2>11 DEF RecoveryDone, Land, Want
  <2>12. QED BY <1>2, <2>1, <2>2, <2>3, <2>4, <2>5, <2>6, <2>7, <2>8, <2>9,
               <2>10, <2>11 DEF Recovery
<1>3. CASE EndRun
  BY <1>3 DEF EndRun
<1>4. CASE Begin
  <2>1. PICK shards \in SUBSET (1 .. NumShards) : BeginRewrite(shards)
    BY <1>4 DEF Begin
  <2>2. shards \cup {Info} \subseteq Targets
    BY DEF Targets, Info
  <2>3. run' \in [paths : SUBSET Targets, version : Nat, base : [Targets -> Content]]
    BY <2>1, <2>2 DEF BeginRewrite
  <2>4. QED
    BY <2>1, <2>3 DEF BeginRewrite
<1>5. CASE Rewrite
  <2>1. CASE MkdirSync BY <2>1 DEF MkdirSync
  <2>2. CASE Stage BY <2>2 DEF Stage
  <2>3. CASE BackUp BY <2>3 DEF BackUp, IsNext
  <2>4. CASE SyncDirectories BY <2>4 DEF SyncDirectories
  <2>5. CASE Prepare BY <2>5 DEF Prepare
  <2>6. CASE PrepareSync BY <2>6 DEF PrepareSync
  <2>7. CASE StartCommit BY <2>7 DEF StartCommit
  <2>8. CASE StartCommitSync BY <2>8 DEF StartCommitSync
  <2>9. CASE Publish BY <2>9 DEF Publish, IsNext
  <2>10. CASE PublishSync BY <2>10 DEF PublishSync, IsNext
  <2>11. CASE Finish BY <2>11 DEF Finish
  <2>12. CASE FinishSync BY <2>12 DEF FinishSync
  <2>13. QED BY <1>5, <2>1, <2>2, <2>3, <2>4, <2>5, <2>6, <2>7, <2>8, <2>9,
               <2>10, <2>11, <2>12 DEF Rewrite
<1>6. CASE Raise
  BY <1>6 DEF Raise, Fault
<1>7. CASE Kill
  BY <1>7 DEF Kill, Fault
<1>8. CASE PowerFailure
  BY <1>8 DEF PowerFailure, Fault
<1>9. ASSUME NEW t \in Targets, WritebackTarget(t) PROVE TypeOK'
  BY <1>9 DEF WritebackTarget, Writeback
<1>14. ASSUME NEW t \in Targets, WritebackBackup(t) PROVE TypeOK'
  BY <1>14 DEF WritebackBackup, Writeback
<1>15. CASE WritebackJournal
  BY <1>15 DEF WritebackJournal, Writeback
<1>16. CASE WritebackRoot
  <2>1. disk' \in Image
    BY <1>16 DEF WritebackRoot, Writeback
  <2>2. QED
    BY <1>16, <2>1 DEF WritebackRoot, Writeback
<1>10. ASSUME NEW t \in Targets, EditTarget(t) PROVE TypeOK'
  <2>1. cache' \in Image
    BY <1>10 DEF EditTarget
  <2>2. disk' \in Image
    BY <1>10 DEF EditTarget
  <2>3. UNCHANGED <<unflushed, pc, caller, todo, run, acked, attempts, faults>>
    BY <1>10, Zenon DEF EditTarget
  <2>4. edits' \in Nat
    BY <1>10 DEF EditTarget
  <2>5. QED
    BY <2>1, <2>2, <2>3, <2>4, SMTT(30)
<1>11. ASSUME NEW t \in Targets, RestoreByHand(t) PROVE TypeOK'
  <2>1. cache' \in Image
    BY <1>11 DEF RestoreByHand
  <2>2. disk' \in Image
    BY <1>11 DEF RestoreByHand
  <2>3. QED
    BY <1>11, <2>1, <2>2 DEF RestoreByHand
<1>12. CASE UNCHANGED vars
  BY <1>12 DEF vars
<1>13. QED
  BY <1>1, <1>2, <1>3, <1>4, <1>5, <1>6, <1>7, <1>8, <1>9, <1>10, <1>11, <1>12,
     <1>14, <1>15, <1>16 DEF Next


(* The state keeps its types: every image is a file system image, every    *)
(* local of the run is what the code puts there.                           *)
THEOREM TypeCorrect == Spec => []TypeOK
<1>1. Init => TypeOK
  BY ConstantsAssumption DEF Init, TypeOK, Image, Content, JournalStates, NoJournal,
     Nothing, Steps, InTry, Targets, Info
<1>2. QED
  BY <1>1, TypeStep, PTL DEF Spec

-----------------------------------------------------------------------------
(* Every step keeps the invariant: one lemma for each action. *)

IInv == TypeOK /\ RunInv /\ EmptyInv /\ CacheInv /\ DiskInv /\ StepInv

LEMMA PathsOfRun ==
  ASSUME TypeOK, RunInv, cache.journal = JournalOf("committing")
  PROVE  Paths(cache.journal) = run.paths
BY DEF TypeOK, RunInv, JournalOf, Snapshot, Paths, Absent

LEMMA NextIsUnique ==
  ASSUME TypeOK, NEW t, NEW u, IsNext(t), IsNext(u)
  PROVE  t = u
BY ConstantsAssumption DEF TypeOK, IsNext, Targets, Info

LEMMA AcquireKeeps ==
  ASSUME IInv, Sound, Acquire, TypeOK'
  PROVE  IInv'
<1> USE ConstantsAssumption DEF IInv, TypeOK, Image, Goto, fs, local, bounds,
     Acquire
<1>1. RunInv'
  BY DEF RunInv
<1>2. EmptyInv'
  BY DEF EmptyInv, Images
<1>3. CacheInv'
  BY DEF CacheInv, Guarded, JournalOf, Snapshot, Mixed, Whole, Want
<1>4. DiskInv'
  BY DEF DiskInv, Guarded, JournalOf, Snapshot, CacheInv, Mixed, StepInv,
       LockInv, StageInv, PrepareInv, PublishInv, RollbackInv, Sound, EndSync
<1>5. StepInv'
  BY DEF StepInv, LockInv, StageInv, PrepareInv, PublishInv, RollbackInv, InTry
<1>6. QED
  BY <1>1, <1>2, <1>3, <1>4, <1>5

LEMMA NothingToRecoverKeeps ==
  ASSUME IInv, Sound, NothingToRecover, TypeOK'
  PROVE  IInv'
<1> USE ConstantsAssumption DEF IInv, TypeOK, Image, Goto, fs, local, bounds,
     NothingToRecover, Land
<1>1. RunInv'
  BY DEF RunInv
<1>2. EmptyInv'
  BY DEF EmptyInv, Images
<1>3. CacheInv'
  BY DEF CacheInv, Guarded, JournalOf, Snapshot, Mixed, Whole, Want
<1>4. DiskInv'
  BY DEF DiskInv, Guarded, JournalOf, Snapshot, CacheInv, Mixed, StepInv,
       LockInv, StageInv, PrepareInv, PublishInv, RollbackInv, Sound, EndSync
<1>5. StepInv'
  BY DEF StepInv, LockInv, StageInv, PrepareInv, PublishInv, RollbackInv, InTry
<1>6. QED
  BY <1>1, <1>2, <1>3, <1>4, <1>5

LEMMA OnlyCleanUpKeeps ==
  ASSUME IInv, Sound, OnlyCleanUp, TypeOK'
  PROVE  IInv'
<1> USE ConstantsAssumption DEF IInv, TypeOK, Image, Goto, fs, local, bounds,
     OnlyCleanUp
<1>1. RunInv'
  BY DEF RunInv
<1>2. EmptyInv'
  BY DEF EmptyInv, Images
<1>3. CacheInv'
  BY DEF CacheInv, Guarded, JournalOf, Snapshot, Mixed, Whole, Want
<1>4. DiskInv'
  BY DEF DiskInv, Guarded, JournalOf, Snapshot, CacheInv, Mixed, StepInv,
       LockInv, StageInv, PrepareInv, PublishInv, RollbackInv, Sound, EndSync
<1>5. StepInv'
  BY DEF StepInv, LockInv, StageInv, PrepareInv, PublishInv, RollbackInv, InTry
<1>6. QED
  BY <1>1, <1>2, <1>3, <1>4, <1>5

LEMMA StartRollbackKeeps ==
  ASSUME IInv, Sound, StartRollback, TypeOK'
  PROVE  IInv'
<1> USE ConstantsAssumption DEF IInv, TypeOK, Image, Goto, fs, local, bounds,
     StartRollback, Paths, Verified
<1>1. RunInv'
  BY DEF RunInv
<1>2. EmptyInv'
  BY DEF EmptyInv, Images
<1>3. CacheInv'
  BY DEF CacheInv, Guarded, JournalOf, Snapshot, Mixed, Whole, Want
<1>4. DiskInv'
  BY DEF DiskInv, Guarded, JournalOf, Snapshot
<1>5. StepInv'
  <2>1. LockInv'
    BY DEF LockInv
  <2>2. StageInv'
    BY DEF StageInv
  <2>3. PrepareInv'
    BY DEF PrepareInv, StepInv, InTry
  <2>4. PublishInv'
    BY DEF PublishInv
  <2>5. RollbackInv'
    <3>1. todo' = run.paths
      BY PathsOfRun DEF CacheInv, Guarded
    <3>2. \A t \in Targets : cache.target[t] # Foreign
      <4>1. \A t \in run.paths : cache.target[t] \in {run.base[t], run.version}
        BY PathsOfRun DEF CacheInv, Guarded, JournalOf, Snapshot
      <4>2. \A t \in Targets \ run.paths : cache.target[t] = run.base[t]
        BY DEF CacheInv, Mixed
      <4>3. QED
        BY <4>1, <4>2 DEF RunInv, Foreign
    <3>3. QED
      BY <3>1, <3>2 DEF RollbackInv
  <2>6. QED
    BY <2>1, <2>2, <2>3, <2>4, <2>5 DEF StepInv
<1>6. QED
  BY <1>1, <1>2, <1>3, <1>4, <1>5

LEMMA RefuseToRecoverKeeps ==
  ASSUME IInv, Sound, RefuseToRecover, TypeOK'
  PROVE  IInv'
<1> USE ConstantsAssumption DEF IInv, TypeOK, Image, Goto, fs, local, bounds,
     RefuseToRecover
<1>1. RunInv'
  BY DEF RunInv
<1>2. EmptyInv'
  BY DEF EmptyInv, Images
<1>3. CacheInv'
  BY DEF CacheInv, Guarded, JournalOf, Snapshot, Mixed, Whole, Want
<1>4. DiskInv'
  BY DEF DiskInv, Guarded, JournalOf, Snapshot
<1>5. StepInv'
  BY DEF StepInv, LockInv, StageInv, PrepareInv, PublishInv, RollbackInv, InTry
<1>6. QED
  BY <1>1, <1>2, <1>3, <1>4, <1>5

LEMMA RollbackTargetKeeps ==
  ASSUME IInv, Sound, RollbackTarget, TypeOK'
  PROVE  IInv'
<1> USE ConstantsAssumption DEF IInv, TypeOK, Image, Goto, fs, local, bounds,
     RollbackTarget, IsNext
<1>1. RunInv'
  BY DEF RunInv
<1>2. EmptyInv'
  BY DEF EmptyInv, Images
<1>3. CacheInv'
  <2>1. PICK t \in todo : IsNext(t) /\ cache' = [cache EXCEPT !.target[t] = cache.backup[t]]
    OBVIOUS
  <2>2. t \in Targets /\ t \in run.paths /\ cache.backup[t] = run.base[t]
    BY <2>1 DEF StepInv, RollbackInv, CacheInv, Guarded, Snapshot
  <2>3. cache'.journal = cache.journal /\ cache'.txn = cache.txn /\ cache'.backup = cache.backup
    BY <2>1
  <2>4. cache'.target = [cache.target EXCEPT ![t] = run.base[t]]
    BY <2>1, <2>2
  <2>5. cache.journal.state = "committing" /\ disk' = disk /\ run' = run
    BY DEF StepInv, RollbackInv
  <2>6. Guarded(cache)'
    BY <2>3, <2>5 DEF CacheInv, Guarded, JournalOf, Snapshot
  <2>7. Mixed(cache'.target)
    BY <2>2, <2>4, <2>5 DEF CacheInv, Mixed
  <2>8. \A u \in Targets : disk.target[u] # Foreign /\ cache'.target[u] # Foreign
    BY <2>2, <2>4, <2>5 DEF CacheInv, StepInv, RollbackInv, RunInv, Foreign
  <2>9. QED
    BY <2>3, <2>5, <2>6, <2>7, <2>8 DEF CacheInv, Mixed
<1>4. DiskInv'
  BY DEF DiskInv, Guarded, JournalOf, Snapshot, CacheInv, Mixed, StepInv,
       LockInv, StageInv, PrepareInv, PublishInv, RollbackInv, Sound, EndSync
<1>5. StepInv'
  <2>1. LockInv'
    BY DEF LockInv
  <2>2. StageInv'
    BY DEF StageInv
  <2>3. PrepareInv'
    BY DEF PrepareInv, StepInv, InTry
  <2>4. PublishInv'
    BY DEF PublishInv
  <2>5. RollbackInv'
    <3>1. PICK t \in todo : IsNext(t) /\ cache' = [cache EXCEPT !.target[t] = cache.backup[t]]
      OBVIOUS
    <3>2. t \in Targets /\ t \in run.paths /\ cache.backup[t] = run.base[t]
      BY <3>1 DEF StepInv, RollbackInv, CacheInv, Guarded, Snapshot
    <3>3. cache'.target = [cache.target EXCEPT ![t] = run.base[t]]
      BY <3>1, <3>2
    <3>4. \A u \in Targets : cache'.target[u] # Foreign
      BY <3>2, <3>3 DEF StepInv, RollbackInv, RunInv, Foreign
    <3>5. \A u \in run.paths \ todo : cache'.target[u] = run.base[u]
      BY <3>1, <3>2, <3>3 DEF StepInv, RollbackInv
    <3>6. \A u \in todo : IsNext(u) => cache'.target[u] = run.base[u]
      BY <3>1, <3>2, <3>3, NextIsUnique
    <3>7. QED
      BY <3>1, <3>4, <3>5, <3>6 DEF StepInv, RollbackInv, IsNext
  <2>6. QED
    BY <2>1, <2>2, <2>3, <2>4, <2>5 DEF StepInv
<1>6. QED
  BY <1>1, <1>2, <1>3, <1>4, <1>5

LEMMA RollbackSyncKeeps ==
  ASSUME IInv, Sound, RollbackSync, TypeOK'
  PROVE  IInv'
<1> USE ConstantsAssumption DEF IInv, TypeOK, Image, Goto, fs, local, bounds,
     RollbackSync, IsNext, SyncTarget
<1>1. RunInv'
  BY DEF RunInv
<1>2. EmptyInv'
  BY DEF EmptyInv, Images
<1>3. CacheInv'
  BY DEF CacheInv, Guarded, JournalOf, Snapshot, Mixed, Whole, Want, StepInv,
       LockInv, StageInv, PrepareInv, PublishInv, RollbackInv
<1>4. DiskInv'
  BY DEF DiskInv, Guarded, JournalOf, Snapshot, CacheInv, Mixed, StepInv,
       LockInv, StageInv, PrepareInv, PublishInv, RollbackInv, Sound, EndSync
<1>5. StepInv'
  <2>1. LockInv'
    BY DEF LockInv
  <2>2. StageInv'
    BY DEF StageInv
  <2>3. PrepareInv'
    BY DEF PrepareInv, StepInv, InTry
  <2>4. PublishInv'
    BY DEF PublishInv
  <2>5. RollbackInv'
    BY DEF RollbackInv, StepInv, InTry, CacheInv, Guarded, JournalOf, Snapshot
  <2>6. QED
    BY <2>1, <2>2, <2>3, <2>4, <2>5 DEF StepInv
<1>6. QED
  BY <1>1, <1>2, <1>3, <1>4, <1>5

LEMMA RollbackJournalKeeps ==
  ASSUME IInv, Sound, RollbackJournal, TypeOK'
  PROVE  IInv'
<1> USE ConstantsAssumption DEF IInv, TypeOK, Image, Goto, fs, local, bounds,
     RollbackJournal
<1>1. RunInv'
  BY DEF RunInv
<1>2. EmptyInv'
  BY DEF EmptyInv, Images, CacheInv, DiskInv, StepInv, LockInv, StageInv,
       PrepareInv, PublishInv, RollbackInv, Guarded, InTry
<1>3. CacheInv'
  BY DEF CacheInv, Guarded, JournalOf, Snapshot, Mixed, Whole, Want, StepInv,
       LockInv, StageInv, PrepareInv, PublishInv, RollbackInv
<1>4. DiskInv'
  BY DEF DiskInv, Guarded, JournalOf, Snapshot, CacheInv, Mixed, StepInv,
       LockInv, StageInv, PrepareInv, PublishInv, RollbackInv, Sound, EndSync
<1>5. StepInv'
  <2>1. LockInv'
    BY DEF LockInv
  <2>2. StageInv'
    BY DEF StageInv
  <2>3. PrepareInv'
    BY DEF PrepareInv, StepInv, InTry
  <2>4. PublishInv'
    BY DEF PublishInv
  <2>5. RollbackInv'
    BY DEF StepInv, InTry, LockInv, StageInv, PrepareInv, PublishInv,
         RollbackInv, CacheInv, DiskInv, Guarded, JournalOf, NoJournal,
         EmptyInv, Images, Snapshot, Mixed, Want, RunInv
  <2>6. QED
    BY <2>1, <2>2, <2>3, <2>4, <2>5 DEF StepInv
<1>6. QED
  BY <1>1, <1>2, <1>3, <1>4, <1>5

LEMMA RollbackJournalSyncKeeps ==
  ASSUME IInv, Sound, RollbackJournalSync, TypeOK'
  PROVE  IInv'
<1> USE ConstantsAssumption DEF IInv, TypeOK, Image, Goto, fs, local, bounds,
     RollbackJournalSync, SyncJournal
<1>1. RunInv'
  BY DEF RunInv
<1>2. EmptyInv'
  BY DEF EmptyInv, Images, CacheInv, DiskInv, StepInv, LockInv, StageInv,
       PrepareInv, PublishInv, RollbackInv, Guarded, InTry
<1>3. CacheInv'
  BY DEF CacheInv, Guarded, JournalOf, Snapshot, Mixed, Whole, Want
<1>4. DiskInv'
  BY DEF DiskInv, Guarded, JournalOf, Snapshot, CacheInv, Mixed
<1>5. StepInv'
  BY DEF StepInv, LockInv, StageInv, PrepareInv, PublishInv, RollbackInv,
       InTry, Snapshot, JournalOf, Want
<1>6. QED
  BY <1>1, <1>2, <1>3, <1>4, <1>5

LEMMA RemoveEntryKeeps ==
  ASSUME IInv, Sound, RemoveEntry, TypeOK'
  PROVE  IInv'
<1> USE ConstantsAssumption DEF IInv, TypeOK, Image, Goto, fs, local, bounds,
     RemoveEntry
<1>1. RunInv'
  BY DEF RunInv
<1>2. EmptyInv'
  BY DEF EmptyInv, Images, NoJournal, Nothing
<1>3. CacheInv'
  BY DEF CacheInv, Guarded, Mixed, Whole, JournalOf, Want, StepInv, LockInv,
       StageInv, PrepareInv, PublishInv, RollbackInv, NoJournal, Snapshot,
       EmptyInv, RunInv
<1>4. DiskInv'
  BY DEF DiskInv, CacheInv, Guarded, JournalOf, StepInv, LockInv, StageInv,
       PrepareInv, PublishInv, RollbackInv, NoJournal, EmptyInv, Snapshot,
       Sound, EndSync, Mixed
<1>5. StepInv'
  BY DEF StepInv, LockInv, StageInv, PrepareInv, PublishInv, RollbackInv,
       InTry, Snapshot, JournalOf, Want, CacheInv, Guarded, NoJournal
<1>6. QED
  BY <1>1, <1>2, <1>3, <1>4, <1>5

LEMMA RemoveDirectoryKeeps ==
  ASSUME IInv, Sound, RemoveDirectory, TypeOK'
  PROVE  IInv'
<1> USE ConstantsAssumption DEF IInv, TypeOK, Image, Goto, fs, local, bounds,
     RemoveDirectory
<1>1. RunInv'
  BY DEF RunInv
<1>2. EmptyInv'
  BY DEF EmptyInv, Images
<1>3. CacheInv'
  BY DEF CacheInv, Guarded, JournalOf, Snapshot, Mixed, Whole, Want, StepInv,
       LockInv, StageInv, PrepareInv, PublishInv, RollbackInv
<1>4. DiskInv'
  BY DEF DiskInv, Guarded, JournalOf, Snapshot, CacheInv, Mixed, StepInv,
       LockInv, StageInv, PrepareInv, PublishInv, RollbackInv, Sound, EndSync
<1>5. StepInv'
  BY DEF StepInv, LockInv, StageInv, PrepareInv, PublishInv, RollbackInv, InTry
<1>6. QED
  BY <1>1, <1>2, <1>3, <1>4, <1>5

LEMMA RecoveryDoneKeeps ==
  ASSUME IInv, Sound, RecoveryDone, TypeOK'
  PROVE  IInv'
<1> USE ConstantsAssumption DEF IInv, TypeOK, Image, Goto, fs, local, bounds,
     RecoveryDone, Land, SyncRoot
<1>1. RunInv'
  BY DEF RunInv
<1>2. EmptyInv'
  <2>1. cache' = cache /\ (~cache.txn => cache.backup = Nothing /\ cache.journal = NoJournal)
    BY DEF EmptyInv, Images
  <2>2. disk'.backup = Nothing /\ disk'.journal = NoJournal
    OBVIOUS
  <2>3. QED
    <3> HIDE DEF IInv, TypeOK, Image, Goto, fs, local, bounds, RecoveryDone, SyncRoot, Land
    <3> QED BY <2>1, <2>2, Zenon DEF EmptyInv, Images
<1>3. CacheInv'
  BY DEF CacheInv, Guarded, JournalOf, Snapshot, Mixed, Whole, Want
<1>4. DiskInv'
  <2>1. ~cache.txn /\ cache.journal = NoJournal
    BY DEF StepInv, LockInv, EmptyInv, Images
  <2>2. disk'.journal = NoJournal
    OBVIOUS
  <2>3. cache'.journal.state # "committing" /\ disk'.journal.state # "committing"
    BY <2>1, <2>2 DEF NoJournal
  <2>4. QED
    BY <2>3 DEF DiskInv, Guarded
<1>5. StepInv'
  BY DEF StepInv, LockInv, StageInv, PrepareInv, PublishInv, RollbackInv, InTry
<1>6. QED
  BY <1>1, <1>2, <1>3, <1>4, <1>5

LEMMA EndRunKeeps ==
  ASSUME IInv, Sound, EndRun, TypeOK'
  PROVE  IInv'
<1> USE ConstantsAssumption DEF IInv, TypeOK, Image, Goto, fs, local, bounds,
     EndRun
<1>1. RunInv'
  BY DEF RunInv
<1>2. EmptyInv'
  BY DEF EmptyInv, Images
<1>3. CacheInv'
  BY DEF CacheInv, Guarded, JournalOf, Snapshot, Mixed, Whole, Want
<1>4. DiskInv'
  BY DEF DiskInv, Guarded, JournalOf, Snapshot, CacheInv, Mixed, StepInv,
       LockInv, StageInv, PrepareInv, PublishInv, RollbackInv, Sound, EndSync
<1>5. StepInv'
  BY DEF StepInv, LockInv, StageInv, PrepareInv, PublishInv, RollbackInv, InTry
<1>6. QED
  BY <1>1, <1>2, <1>3, <1>4, <1>5

LEMMA BeginKeeps ==
  ASSUME IInv, Sound, Begin, TypeOK'
  PROVE  IInv'
<1> USE ConstantsAssumption DEF IInv, TypeOK, Image, Goto, fs, local, bounds,
     Begin, BeginRewrite
<1>1. RunInv'
  <2>1. PICK shards \in SUBSET (1 .. NumShards) : BeginRewrite(shards)
    OBVIOUS
  <2>2. cache.journal = NoJournal
    BY <2>1 DEF BeginRewrite, StepInv, LockInv, EmptyInv, Images
  <2>3. Whole(cache.target)
    BY <2>2 DEF CacheInv, NoJournal
  <2>4. cache.target \in [Targets -> Nat]
    BY <2>3 DEF Whole, Want, RunInv
  <2>5. QED
    BY <2>1, <2>4 DEF BeginRewrite, RunInv
<1>2. EmptyInv'
  BY DEF EmptyInv, Images
<1>3. CacheInv'
  BY DEF CacheInv, Guarded, JournalOf, Snapshot, Mixed, Whole, Want
<1>4. DiskInv'
  BY DEF DiskInv, Guarded, JournalOf, Snapshot, CacheInv, Mixed, StepInv,
       LockInv, StageInv, PrepareInv, PublishInv, RollbackInv, Sound, EndSync
<1>5. StepInv'
  <2>1. LockInv'
    BY DEF LockInv
  <2>2. StageInv'
    BY DEF StepInv, InTry, LockInv, StageInv, PrepareInv, PublishInv,
         RollbackInv, CacheInv, DiskInv, Guarded, JournalOf, NoJournal,
         EmptyInv, Images, Snapshot, Mixed, Want, RunInv
  <2>3. PrepareInv'
    BY DEF PrepareInv, StepInv, InTry
  <2>4. PublishInv'
    BY DEF PublishInv
  <2>5. RollbackInv'
    BY DEF RollbackInv
  <2>6. QED
    BY <2>1, <2>2, <2>3, <2>4, <2>5 DEF StepInv
<1>6. QED
  BY <1>1, <1>2, <1>3, <1>4, <1>5

LEMMA MkdirSyncKeeps ==
  ASSUME IInv, Sound, MkdirSync, TypeOK'
  PROVE  IInv'
<1> USE ConstantsAssumption DEF IInv, TypeOK, Image, Goto, fs, local, bounds,
     MkdirSync, SyncRoot
<1>1. RunInv'
  BY DEF RunInv
<1>2. EmptyInv'
  <2>1. cache' = cache /\ (~cache.txn => cache.backup = Nothing /\ cache.journal = NoJournal)
    BY DEF EmptyInv, Images
  <2>2. disk'.backup = Nothing /\ disk'.journal = NoJournal
    OBVIOUS
  <2>3. QED
    <3> HIDE DEF IInv, TypeOK, Image, Goto, fs, local, bounds, MkdirSync, SyncRoot
    <3> QED BY <2>1, <2>2, Zenon DEF EmptyInv, Images
<1>3. CacheInv'
  BY DEF CacheInv, Guarded, JournalOf, Snapshot, Mixed, Whole, Want
<1>4. DiskInv'
  <2>1. cache.journal = NoJournal
    BY DEF StepInv, StageInv
  <2>2. disk'.journal = NoJournal
    OBVIOUS
  <2>3. cache'.journal.state # "committing" /\ disk'.journal.state # "committing"
    BY <2>1, <2>2 DEF NoJournal
  <2>4. QED
    BY <2>3 DEF DiskInv, Guarded
<1>5. StepInv'
  BY DEF StepInv, LockInv, StageInv, PrepareInv, PublishInv, RollbackInv, InTry
<1>6. QED
  BY <1>1, <1>2, <1>3, <1>4, <1>5

LEMMA StageKeeps ==
  ASSUME IInv, Sound, Stage, TypeOK'
  PROVE  IInv'
<1> USE ConstantsAssumption DEF IInv, TypeOK, Image, Goto, fs, local, bounds,
     Stage
<1>1. RunInv'
  BY DEF RunInv
<1>2. EmptyInv'
  BY DEF EmptyInv, Images
<1>3. CacheInv'
  BY DEF CacheInv, Guarded, Mixed, Whole, JournalOf, Want, StepInv, LockInv,
       StageInv, PrepareInv, PublishInv, RollbackInv, NoJournal, Snapshot,
       EmptyInv, RunInv
<1>4. DiskInv'
  BY DEF DiskInv, Guarded, JournalOf, Snapshot, CacheInv, Mixed, StepInv,
       LockInv, StageInv, PrepareInv, PublishInv, RollbackInv, Sound, EndSync
<1>5. StepInv'
  <2>1. LockInv'
    BY DEF LockInv
  <2>2. StageInv'
    <3>1. cache.backup = [t \in Targets |-> IF t \in run.paths THEN Absent ELSE Snapshot[t]]
      BY DEF StepInv, StageInv, Snapshot, Nothing
    <3>2. QED
      BY <3>1 DEF StepInv, StageInv, Snapshot
  <2>3. PrepareInv'
    BY DEF PrepareInv, StepInv, InTry
  <2>4. PublishInv'
    BY DEF PublishInv
  <2>5. RollbackInv'
    BY DEF RollbackInv
  <2>6. QED
    BY <2>1, <2>2, <2>3, <2>4, <2>5 DEF StepInv
<1>6. QED
  BY <1>1, <1>2, <1>3, <1>4, <1>5

LEMMA BackUpKeeps ==
  ASSUME IInv, Sound, BackUp, TypeOK'
  PROVE  IInv'
<1> USE ConstantsAssumption DEF IInv, TypeOK, Image, Goto, fs, local, bounds,
     BackUp, IsNext
<1>1. RunInv'
  BY DEF RunInv
<1>2. EmptyInv'
  BY DEF EmptyInv, Images, CacheInv, Guarded, StepInv, StageInv, PrepareInv,
       InTry
<1>3. CacheInv'
  BY DEF CacheInv, Guarded, JournalOf, Snapshot, Mixed, Whole, Want, StepInv,
       LockInv, StageInv, PrepareInv, PublishInv, RollbackInv
<1>4. DiskInv'
  BY DEF DiskInv, Guarded, JournalOf, Snapshot, CacheInv, Mixed, StepInv,
       LockInv, StageInv, PrepareInv, PublishInv, RollbackInv, Sound, EndSync
<1>5. StepInv'
  BY DEF StepInv, LockInv, StageInv, PrepareInv, PublishInv, RollbackInv,
       InTry, Snapshot, JournalOf, Want
<1>6. QED
  BY <1>1, <1>2, <1>3, <1>4, <1>5

LEMMA SyncDirectoriesKeeps ==
  ASSUME IInv, Sound, SyncDirectories, TypeOK'
  PROVE  IInv'
<1> USE ConstantsAssumption DEF IInv, TypeOK, Image, Goto, fs, local, bounds,
     SyncDirectories, SyncBackups
<1>1. RunInv'
  BY DEF RunInv
<1>2. EmptyInv'
  BY DEF EmptyInv, Images, CacheInv, Guarded, StepInv, StageInv, PrepareInv,
       InTry
<1>3. CacheInv'
  BY DEF CacheInv, Guarded, JournalOf, Snapshot, Mixed, Whole, Want
<1>4. DiskInv'
  BY DEF DiskInv, Guarded, JournalOf, Snapshot, CacheInv, Mixed, StepInv,
       LockInv, StageInv, PrepareInv, PublishInv, RollbackInv, Sound, EndSync
<1>5. StepInv'
  BY DEF StepInv, LockInv, StageInv, PrepareInv, PublishInv, RollbackInv,
       InTry, Snapshot, JournalOf, Want
<1>6. QED
  BY <1>1, <1>2, <1>3, <1>4, <1>5

LEMMA PrepareKeeps ==
  ASSUME IInv, Sound, Prepare, TypeOK'
  PROVE  IInv'
<1> USE ConstantsAssumption DEF IInv, TypeOK, Image, Goto, fs, local, bounds,
     Prepare
<1>1. RunInv'
  BY DEF RunInv
<1>2. EmptyInv'
  BY DEF EmptyInv, Images, CacheInv, Guarded, StepInv, StageInv, PrepareInv,
       InTry
<1>3. CacheInv'
  BY DEF CacheInv, Guarded, Mixed, Whole, JournalOf, Want, StepInv, LockInv,
       StageInv, PrepareInv, PublishInv, RollbackInv, NoJournal, Snapshot,
       EmptyInv, RunInv
<1>4. DiskInv'
  BY DEF DiskInv, CacheInv, Guarded, JournalOf, StepInv, LockInv, StageInv,
       PrepareInv, PublishInv, RollbackInv, NoJournal, EmptyInv, Snapshot,
       Sound, EndSync, Mixed
<1>5. StepInv'
  BY DEF StepInv, LockInv, StageInv, PrepareInv, PublishInv, RollbackInv,
       InTry, Snapshot, JournalOf, Want
<1>6. QED
  BY <1>1, <1>2, <1>3, <1>4, <1>5

LEMMA PrepareSyncKeeps ==
  ASSUME IInv, Sound, PrepareSync, TypeOK'
  PROVE  IInv'
<1> USE ConstantsAssumption DEF IInv, TypeOK, Image, Goto, fs, local, bounds,
     PrepareSync, SyncJournal
<1>1. RunInv'
  BY DEF RunInv
<1>2. EmptyInv'
  BY DEF EmptyInv, Images, CacheInv, Guarded, StepInv, StageInv, PrepareInv,
       InTry
<1>3. CacheInv'
  BY DEF CacheInv, Guarded, JournalOf, Snapshot, Mixed, Whole, Want
<1>4. DiskInv'
  BY DEF DiskInv, Guarded, JournalOf, Snapshot, CacheInv, Mixed
<1>5. StepInv'
  BY DEF StepInv, LockInv, StageInv, PrepareInv, PublishInv, RollbackInv,
       InTry, Snapshot, JournalOf, Want
<1>6. QED
  BY <1>1, <1>2, <1>3, <1>4, <1>5

LEMMA StartCommitKeeps ==
  ASSUME IInv, Sound, StartCommit, TypeOK'
  PROVE  IInv'
<1> USE ConstantsAssumption DEF IInv, TypeOK, Image, Goto, fs, local, bounds,
     StartCommit
<1>1. RunInv'
  BY DEF RunInv
<1>2. EmptyInv'
  BY DEF EmptyInv, Images, CacheInv, Guarded, StepInv, StageInv, PrepareInv,
       InTry
<1>3. CacheInv'
  BY DEF CacheInv, Guarded, JournalOf, Snapshot, Mixed, Whole, Want, StepInv,
       LockInv, StageInv, PrepareInv, PublishInv, RollbackInv
<1>4. DiskInv'
  <2>1. disk' = disk /\ run' = run /\ cache'.target = cache.target
    OBVIOUS
  <2>2. cache.target = run.base /\ disk.target = run.base
    BY DEF StepInv, PrepareInv, CacheInv, JournalOf
  <2>3. cache'.journal.state = "committing"
    OBVIOUS
  <2>4. PowerLoss => disk.txn /\ disk.backup = Snapshot /\ Guarded(disk)
    BY DEF StepInv, PrepareInv, DiskInv, InTry
  <2>5. QED
    BY <2>1, <2>2, <2>3, <2>4 DEF DiskInv, Guarded, JournalOf, Snapshot
<1>5. StepInv'
  BY DEF StepInv, LockInv, StageInv, PrepareInv, PublishInv, RollbackInv,
       InTry, Snapshot, JournalOf, Want
<1>6. QED
  BY <1>1, <1>2, <1>3, <1>4, <1>5

LEMMA StartCommitSyncKeeps ==
  ASSUME IInv, Sound, StartCommitSync, TypeOK'
  PROVE  IInv'
<1> USE ConstantsAssumption DEF IInv, TypeOK, Image, Goto, fs, local, bounds,
     StartCommitSync, SyncJournal
<1>1. RunInv'
  BY DEF RunInv
<1>2. EmptyInv'
  BY DEF EmptyInv, Images, CacheInv, Guarded, StepInv, StageInv, PrepareInv,
       InTry
<1>3. CacheInv'
  BY DEF CacheInv, Guarded, JournalOf, Snapshot, Mixed, Whole, Want
<1>4. DiskInv'
  BY DEF DiskInv, Guarded, JournalOf, Snapshot, CacheInv, Mixed
<1>5. StepInv'
  <2>1. LockInv'
    BY DEF LockInv
  <2>2. StageInv'
    BY DEF StageInv
  <2>3. PrepareInv'
    BY DEF PrepareInv, StepInv, InTry
  <2>4. PublishInv'
    <3>1. disk'.journal.state = "committing" /\ cache.journal.state = "committing"
      BY DEF StepInv, PrepareInv, JournalOf
    <3>2. \A t \in Targets : cache.target[t] # Foreign
      BY DEF StepInv, PrepareInv, RunInv, Foreign
    <3>3. QED
      BY <3>1, <3>2 DEF PublishInv
  <2>5. RollbackInv'
    BY DEF RollbackInv
  <2>6. QED
    BY <2>1, <2>2, <2>3, <2>4, <2>5 DEF StepInv
<1>6. QED
  BY <1>1, <1>2, <1>3, <1>4, <1>5

LEMMA PublishKeeps ==
  ASSUME IInv, Sound, Publish, TypeOK'
  PROVE  IInv'
<1> USE ConstantsAssumption DEF IInv, TypeOK, Image, Goto, fs, local, bounds,
     Publish, IsNext
<1>1. RunInv'
  BY DEF RunInv
<1>2. EmptyInv'
  BY DEF EmptyInv, Images
<1>3. CacheInv'
  <2>1. PICK t \in todo : IsNext(t) /\ cache' = [cache EXCEPT !.target[t] = run.version]
    OBVIOUS
  <2>2. t \in Targets /\ t \in run.paths
    BY <2>1 DEF StepInv, PublishInv
  <2>3. cache'.journal = cache.journal /\ cache'.txn = cache.txn /\ cache'.backup = cache.backup
    BY <2>1
  <2>4. cache'.target = [cache.target EXCEPT ![t] = run.version]
    BY <2>1, <2>2
  <2>5. cache.journal.state = "committing" /\ disk' = disk /\ run' = run
    BY DEF StepInv, PublishInv
  <2>6. Guarded(cache)'
    BY <2>3, <2>5 DEF CacheInv, Guarded, JournalOf, Snapshot
  <2>7. Mixed(cache'.target)
    BY <2>2, <2>4, <2>5 DEF CacheInv, Mixed
  <2>8. \A u \in Targets : disk.target[u] # Foreign /\ cache'.target[u] # Foreign
    BY <2>2, <2>4, <2>5 DEF CacheInv, StepInv, PublishInv, RunInv, Foreign
  <2>9. QED
    BY <2>3, <2>5, <2>6, <2>7, <2>8 DEF CacheInv, Mixed
<1>4. DiskInv'
  BY DEF DiskInv, Guarded, JournalOf, Snapshot, CacheInv, Mixed, StepInv,
       LockInv, StageInv, PrepareInv, PublishInv, RollbackInv, Sound, EndSync
<1>5. StepInv'
  <2>1. LockInv'
    BY DEF LockInv
  <2>2. StageInv'
    BY DEF StageInv
  <2>3. PrepareInv'
    BY DEF PrepareInv, StepInv, InTry
  <2>4. PublishInv'
    <3>1. PICK t \in todo : IsNext(t) /\ cache' = [cache EXCEPT !.target[t] = run.version]
      OBVIOUS
    <3>2. t \in Targets /\ t \in run.paths
      BY <3>1 DEF StepInv, PublishInv
    <3>3. cache'.target = [cache.target EXCEPT ![t] = run.version]
      BY <3>1, <3>2
    <3>4. \A u \in Targets : cache'.target[u] # Foreign
      BY <3>2, <3>3 DEF StepInv, PublishInv, RunInv, Foreign
    <3>5. \A u \in run.paths \ todo : cache'.target[u] = run.version
      BY <3>1, <3>2, <3>3 DEF StepInv, PublishInv
    <3>6. \A u \in todo : IsNext(u) => cache'.target[u] = run.version
      BY <3>1, <3>2, <3>3, NextIsUnique
    <3>7. QED
      BY <3>1, <3>4, <3>5, <3>6 DEF StepInv, PublishInv, IsNext
  <2>5. RollbackInv'
    BY DEF RollbackInv
  <2>6. QED
    BY <2>1, <2>2, <2>3, <2>4, <2>5 DEF StepInv
<1>6. QED
  BY <1>1, <1>2, <1>3, <1>4, <1>5

LEMMA PublishSyncKeeps ==
  ASSUME IInv, Sound, PublishSync, TypeOK'
  PROVE  IInv'
<1> USE ConstantsAssumption DEF IInv, TypeOK, Image, Goto, fs, local, bounds,
     PublishSync, IsNext, SyncTarget
<1>1. RunInv'
  BY DEF RunInv
<1>2. EmptyInv'
  BY DEF EmptyInv, Images
<1>3. CacheInv'
  BY DEF CacheInv, Guarded, JournalOf, Snapshot, Mixed, Whole, Want, StepInv,
       LockInv, StageInv, PrepareInv, PublishInv, RollbackInv
<1>4. DiskInv'
  BY DEF DiskInv, Guarded, JournalOf, Snapshot, CacheInv, Mixed, StepInv,
       LockInv, StageInv, PrepareInv, PublishInv, RollbackInv, Sound, EndSync
<1>5. StepInv'
  <2>1. LockInv'
    BY DEF LockInv
  <2>2. StageInv'
    BY DEF StageInv
  <2>3. PrepareInv'
    BY DEF PrepareInv, StepInv, InTry
  <2>4. PublishInv'
    BY DEF PublishInv, StepInv, InTry, CacheInv, Guarded, JournalOf, Snapshot
  <2>5. RollbackInv'
    BY DEF RollbackInv
  <2>6. QED
    BY <2>1, <2>2, <2>3, <2>4, <2>5 DEF StepInv
<1>6. QED
  BY <1>1, <1>2, <1>3, <1>4, <1>5

LEMMA FinishKeeps ==
  ASSUME IInv, Sound, Finish, TypeOK'
  PROVE  IInv'
<1> USE ConstantsAssumption DEF IInv, TypeOK, Image, Goto, fs, local, bounds,
     Finish
<1>1. RunInv'
  BY DEF RunInv
<1>2. EmptyInv'
  BY DEF EmptyInv, Images, CacheInv, DiskInv, StepInv, LockInv, StageInv,
       PrepareInv, PublishInv, RollbackInv, Guarded, InTry
<1>3. CacheInv'
  BY DEF CacheInv, Guarded, JournalOf, Snapshot, Mixed, Whole, Want, StepInv,
       LockInv, StageInv, PrepareInv, PublishInv, RollbackInv
<1>4. DiskInv'
  BY DEF DiskInv, Guarded, JournalOf, Snapshot, CacheInv, Mixed, StepInv,
       LockInv, StageInv, PrepareInv, PublishInv, RollbackInv, Sound, EndSync
<1>5. StepInv'
  <2>1. LockInv'
    BY DEF LockInv
  <2>2. StageInv'
    BY DEF StageInv
  <2>3. PrepareInv'
    BY DEF PrepareInv, StepInv, InTry
  <2>4. PublishInv'
    BY DEF StepInv, InTry, LockInv, StageInv, PrepareInv, PublishInv,
         RollbackInv, CacheInv, DiskInv, Guarded, JournalOf, NoJournal,
         EmptyInv, Images, Snapshot, Mixed, Want, RunInv
  <2>5. RollbackInv'
    BY DEF RollbackInv
  <2>6. QED
    BY <2>1, <2>2, <2>3, <2>4, <2>5 DEF StepInv
<1>6. QED
  BY <1>1, <1>2, <1>3, <1>4, <1>5

LEMMA FinishSyncKeeps ==
  ASSUME IInv, Sound, FinishSync, TypeOK'
  PROVE  IInv'
<1> USE ConstantsAssumption DEF IInv, TypeOK, Image, Goto, fs, local, bounds,
     FinishSync, SyncJournal
<1>1. RunInv'
  BY DEF RunInv
<1>2. EmptyInv'
  BY DEF EmptyInv, Images, CacheInv, Guarded, StepInv, StageInv, PrepareInv,
       InTry
<1>3. CacheInv'
  BY DEF CacheInv, Guarded, JournalOf, Snapshot, Mixed, Whole, Want
<1>4. DiskInv'
  BY DEF DiskInv, Guarded, JournalOf, Snapshot, CacheInv, Mixed
<1>5. StepInv'
  BY DEF StepInv, LockInv, StageInv, PrepareInv, PublishInv, RollbackInv, InTry
<1>6. QED
  BY <1>1, <1>2, <1>3, <1>4, <1>5

LEMMA RaiseKeeps ==
  ASSUME IInv, Sound, Raise, TypeOK'
  PROVE  IInv'
<1> USE ConstantsAssumption DEF IInv, TypeOK, Image, Goto, fs, local, bounds,
     Raise, Fault
<1>1. RunInv'
  BY DEF RunInv
<1>2. EmptyInv'
  BY DEF EmptyInv, Images
<1>3. CacheInv'
  BY DEF CacheInv, Guarded, JournalOf, Snapshot, Mixed, Whole, Want
<1>4. DiskInv'
  BY DEF DiskInv, Guarded, JournalOf, Snapshot, CacheInv, Mixed, StepInv,
       LockInv, StageInv, PrepareInv, PublishInv, RollbackInv, Sound, EndSync
<1>5. StepInv'
  BY DEF StepInv, LockInv, StageInv, PrepareInv, PublishInv, RollbackInv, InTry
<1>6. QED
  BY <1>1, <1>2, <1>3, <1>4, <1>5

LEMMA KillKeeps ==
  ASSUME IInv, Sound, Kill, TypeOK'
  PROVE  IInv'
<1> USE ConstantsAssumption DEF IInv, TypeOK, Image, Goto, fs, local, bounds,
     Kill, Fault
<1>1. RunInv'
  BY DEF RunInv
<1>2. EmptyInv'
  BY DEF EmptyInv, Images
<1>3. CacheInv'
  BY DEF CacheInv, Guarded, JournalOf, Snapshot, Mixed, Whole, Want
<1>4. DiskInv'
  BY DEF DiskInv, Guarded, JournalOf, Snapshot, CacheInv, Mixed, StepInv,
       LockInv, StageInv, PrepareInv, PublishInv, RollbackInv, Sound, EndSync
<1>5. StepInv'
  BY DEF StepInv, LockInv, StageInv, PrepareInv, PublishInv, RollbackInv, InTry
<1>6. QED
  BY <1>1, <1>2, <1>3, <1>4, <1>5

LEMMA PowerFailureKeeps ==
  ASSUME IInv, Sound, PowerFailure, TypeOK'
  PROVE  IInv'
<1> USE ConstantsAssumption DEF IInv, TypeOK, Image, Goto, fs, local, bounds,
     PowerFailure, Fault
<1>1. RunInv'
  BY DEF RunInv
<1>2. EmptyInv'
  BY DEF EmptyInv, Images
<1>3. CacheInv'
  <2>1. PowerLoss /\ cache' = disk /\ disk' = disk /\ run' = run /\ unflushed' = {}
    OBVIOUS
  <2>2. CASE disk.journal.state = "committing"
    <3>1. Mixed(disk.target)
      BY <2>2 DEF CacheInv, Whole, Mixed, Want
    <3>2. QED
      BY <2>1, <2>2, <3>1 DEF CacheInv, DiskInv, Guarded, JournalOf, Snapshot, Mixed
  <2>3. CASE disk.journal.state # "committing"
    <3>1. Whole(disk.target)
      BY <2>1, <2>3 DEF CacheInv, DiskInv, Whole
    <3>2. QED
      BY <2>1, <2>3, <3>1 DEF CacheInv, Guarded, Whole, Want
  <2>4. QED
    BY <2>2, <2>3
<1>4. DiskInv'
  BY DEF DiskInv, Guarded, JournalOf, Snapshot
<1>5. StepInv'
  BY DEF StepInv, LockInv, StageInv, PrepareInv, PublishInv, RollbackInv, InTry
<1>6. QED
  BY <1>1, <1>2, <1>3, <1>4, <1>5

LEMMA WritebackTargetKeeps ==
  ASSUME IInv, Sound, NEW t \in Targets, WritebackTarget(t), TypeOK'
  PROVE  IInv'
<1> USE ConstantsAssumption DEF IInv, TypeOK, Image, Goto, fs, local, bounds,
     WritebackTarget, Writeback, SyncTarget
<1>1. RunInv'
  BY DEF RunInv
<1>2. EmptyInv'
  BY DEF EmptyInv, Images
<1>3. CacheInv'
  BY DEF CacheInv, Guarded, JournalOf, Snapshot, Mixed, Whole, Want
<1>4. DiskInv'
  BY DEF DiskInv, Guarded, JournalOf, Snapshot
<1>5. StepInv'
  <2>1. LockInv'
    BY DEF LockInv, StepInv
  <2>2. StageInv'
    BY DEF StageInv, StepInv, InTry, CacheInv, Guarded, JournalOf, Snapshot
  <2>3. PrepareInv'
    BY DEF PrepareInv, StepInv, InTry, CacheInv, Guarded, JournalOf, Snapshot
  <2>4. PublishInv'
    <3>1. cache.journal.state = "committing"
      BY DEF CacheInv
    <3>2. t \notin unflushed
      BY <3>1 DEF CacheInv
    <3>3. disk' = [disk EXCEPT !.target[t] = cache.target[t]]
      BY <3>2
    <3>4. disk'.journal = disk.journal /\ disk'.target = [disk.target EXCEPT ![t] = cache.target[t]]
      BY <3>3
    <3>5. QED
      BY <3>1, <3>4 DEF StepInv, PublishInv, JournalOf, Want, IsNext
  <2>5. RollbackInv'
    <3>1. cache.journal.state = "committing"
      BY DEF CacheInv
    <3>2. t \notin unflushed
      BY <3>1 DEF CacheInv
    <3>3. disk' = [disk EXCEPT !.target[t] = cache.target[t]]
      BY <3>2
    <3>4. disk'.journal = disk.journal /\ disk'.target = [disk.target EXCEPT ![t] = cache.target[t]]
      BY <3>3
    <3>5. QED
      BY <3>1, <3>4 DEF StepInv, RollbackInv, JournalOf, IsNext
  <2>6. QED
    BY <2>1, <2>2, <2>3, <2>4, <2>5 DEF StepInv
<1>6. QED
  BY <1>1, <1>2, <1>3, <1>4, <1>5

LEMMA WritebackBackupKeeps ==
  ASSUME IInv, Sound, NEW t \in Targets, WritebackBackup(t), TypeOK'
  PROVE  IInv'
<1> USE ConstantsAssumption DEF IInv, TypeOK, Image, Goto, fs, local, bounds,
     WritebackBackup, Writeback
<1>1. RunInv'
  BY DEF RunInv
<1>2. EmptyInv'
  BY DEF EmptyInv, Images
<1>3. CacheInv'
  BY DEF CacheInv, Guarded, JournalOf, Snapshot, Mixed, Whole, Want
<1>4. DiskInv'
  BY DEF DiskInv, Guarded, JournalOf, Snapshot, CacheInv, Mixed
<1>5. StepInv'
  BY DEF StepInv, LockInv, StageInv, PrepareInv, PublishInv, RollbackInv,
       CacheInv, DiskInv, Guarded, InTry, JournalOf, NoJournal, EmptyInv,
       Snapshot, Mixed, Whole, Want, Sound, EndSync
<1>6. QED
  BY <1>1, <1>2, <1>3, <1>4, <1>5

LEMMA WritebackJournalKeeps ==
  ASSUME IInv, Sound, WritebackJournal, TypeOK'
  PROVE  IInv'
<1> USE ConstantsAssumption DEF IInv, TypeOK, Image, Goto, fs, local, bounds,
     WritebackJournal, Writeback, SyncJournal
<1>1. RunInv'
  BY DEF RunInv
<1>2. EmptyInv'
  BY DEF EmptyInv, Images
<1>3. CacheInv'
  BY DEF CacheInv, Guarded, JournalOf, Snapshot, Mixed, Whole, Want
<1>4. DiskInv'
  BY DEF DiskInv, Guarded, JournalOf, Snapshot, CacheInv, Mixed
<1>5. StepInv'
  BY DEF StepInv, LockInv, StageInv, PrepareInv, PublishInv, RollbackInv,
       CacheInv, DiskInv, Guarded, InTry, JournalOf, NoJournal, EmptyInv,
       Snapshot, Mixed, Whole, Want, Sound, EndSync
<1>6. QED
  BY <1>1, <1>2, <1>3, <1>4, <1>5

LEMMA WritebackRootKeeps ==
  ASSUME IInv, Sound, WritebackRoot, TypeOK'
  PROVE  IInv'
<1> USE ConstantsAssumption DEF IInv, TypeOK, Image, Goto, fs, local, bounds,
     WritebackRoot, Writeback, SyncRoot
<1>1. RunInv'
  BY DEF RunInv
<1>2. EmptyInv'
  BY DEF EmptyInv, Images
<1>3. CacheInv'
  BY DEF CacheInv, Guarded, JournalOf, Snapshot, Mixed, Whole, Want
<1>4. DiskInv'
  BY DEF DiskInv, CacheInv, Guarded, JournalOf, StepInv, LockInv, StageInv,
       PrepareInv, PublishInv, RollbackInv, NoJournal, EmptyInv, Snapshot,
       Sound, EndSync, Mixed
<1>5. StepInv'
  BY DEF StepInv, LockInv, StageInv, PrepareInv, PublishInv, RollbackInv,
       CacheInv, DiskInv, Guarded, InTry, JournalOf, NoJournal, EmptyInv,
       Snapshot, Mixed, Whole, Want, Sound, EndSync
<1>6. QED
  BY <1>1, <1>2, <1>3, <1>4, <1>5

LEMMA EditTargetKeeps ==
  ASSUME IInv, Sound, NEW t \in Targets, EditTarget(t), TypeOK'
  PROVE  IInv'
<1> USE ConstantsAssumption DEF IInv, TypeOK, Image, Goto, fs, local, bounds,
     EditTarget, Paths
<1>1. RunInv'
  BY DEF RunInv
<1>2. EmptyInv'
  BY DEF EmptyInv, Images
<1>3. CacheInv'
  BY DEF CacheInv, Guarded, JournalOf, Snapshot, Mixed, Whole, Want
<1>4. DiskInv'
  BY DEF DiskInv, Guarded, JournalOf, Snapshot
<1>5. StepInv'
  BY DEF StepInv, LockInv, StageInv, PrepareInv, PublishInv, RollbackInv, InTry
<1>6. QED
  BY <1>1, <1>2, <1>3, <1>4, <1>5

LEMMA RestoreByHandKeeps ==
  ASSUME IInv, Sound, NEW t \in Targets, RestoreByHand(t), TypeOK'
  PROVE  IInv'
<1> USE ConstantsAssumption DEF IInv, TypeOK, Image, Goto, fs, local, bounds,
     RestoreByHand
<1>1. RunInv'
  BY DEF RunInv
<1>2. EmptyInv'
  BY DEF EmptyInv, Images
<1>3. CacheInv'
  <2>1. cache.journal.state = "committing"
    BY DEF CacheInv, Whole, Want, RunInv, Foreign
  <2>2. t \in run.paths /\ cache.backup[t] = run.base[t]
    BY <2>1 DEF CacheInv, Guarded, Mixed, Snapshot, RunInv, Foreign
  <2>3. cache'.target = [cache.target EXCEPT ![t] = run.base[t]]
    BY <2>2
  <2>4. disk'.target = [disk.target EXCEPT ![t] = run.base[t]]
    BY <2>2
  <2>5. /\ cache'.journal = cache.journal /\ cache'.txn = cache.txn /\ cache'.backup = cache.backup
        /\ disk'.journal = disk.journal /\ disk'.txn = disk.txn /\ disk'.backup = disk.backup
        /\ run' = run
    OBVIOUS
  <2>6. Mixed(cache'.target) /\ Mixed(disk'.target)
    BY <2>1, <2>2, <2>3, <2>4 DEF CacheInv, Mixed
  <2>7. \A u \in Targets : disk'.target[u] = Foreign <=> cache'.target[u] = Foreign
    BY <2>1, <2>2, <2>3, <2>4 DEF CacheInv, RunInv
  <2>8. Guarded(cache)'
    BY <2>5 DEF CacheInv, Guarded, JournalOf, Snapshot
  <2>9. QED
    BY <2>1, <2>5, <2>6, <2>7, <2>8 DEF CacheInv, Mixed
<1>4. DiskInv'
  <2>1. cache.journal.state = "committing"
    BY DEF CacheInv, Whole, Want, RunInv, Foreign
  <2>2. t \in run.paths /\ cache.backup[t] = run.base[t]
    BY <2>1 DEF CacheInv, Guarded, Mixed, Snapshot, RunInv, Foreign
  <2>3. cache'.target = [cache.target EXCEPT ![t] = run.base[t]]
    BY <2>2
  <2>4. disk'.target = [disk.target EXCEPT ![t] = run.base[t]]
    BY <2>2
  <2>5. /\ cache'.journal = cache.journal /\ cache'.txn = cache.txn /\ cache'.backup = cache.backup
        /\ disk'.journal = disk.journal /\ disk'.txn = disk.txn /\ disk'.backup = disk.backup
        /\ run' = run
    OBVIOUS
  <2>6. ASSUME PowerLoss PROVE Guarded(disk)'
    BY <2>5, <2>6 DEF DiskInv, Guarded, JournalOf, Snapshot
  <2>7. ASSUME PowerLoss, disk.journal.state # "committing" PROVE FALSE
    BY <2>1, <2>7 DEF DiskInv, RunInv, Foreign
  <2>8. QED
    BY <2>1, <2>5, <2>6, <2>7 DEF DiskInv, Snapshot
<1>5. StepInv'
  BY DEF StepInv, LockInv, StageInv, PrepareInv, PublishInv, RollbackInv, InTry
<1>6. QED
  BY <1>1, <1>2, <1>3, <1>4, <1>5

-----------------------------------------------------------------------------
(* The theorems. *)

LEMMA InvInit == Init => IInv
<1> SUFFICES ASSUME Init PROVE IInv
  OBVIOUS
<1> USE ConstantsAssumption DEF Init, Images, NoJournal, Nothing
<1>1. TypeOK
  BY DEF TypeOK, Image, Content, JournalStates, Steps, InTry, Targets, Info
<1>2. RunInv /\ EmptyInv
  BY DEF RunInv, EmptyInv
<1>3. CacheInv /\ DiskInv
  BY DEF CacheInv, DiskInv, Guarded, Whole
<1>4. StepInv
  BY DEF StepInv, LockInv, StageInv, PrepareInv, PublishInv, RollbackInv, InTry
<1>5. QED
  BY <1>1, <1>2, <1>3, <1>4 DEF IInv

LEMMA InvStep == ASSUME Sound PROVE IInv /\ [Next]_vars => IInv'
<1> SUFFICES ASSUME IInv, [Next]_vars PROVE IInv'
  OBVIOUS
<1> USE Sound
<1>1. TypeOK'
  BY TypeStep DEF IInv
<1>2. CASE Recovery
  BY <1>1, <1>2, NothingToRecoverKeeps, OnlyCleanUpKeeps, StartRollbackKeeps,
     RefuseToRecoverKeeps, RollbackTargetKeeps, RollbackSyncKeeps,
     RollbackJournalKeeps, RollbackJournalSyncKeeps, RemoveEntryKeeps,
     RemoveDirectoryKeeps, RecoveryDoneKeeps DEF Recovery
<1>3. CASE Rewrite
  BY <1>1, <1>3, MkdirSyncKeeps, StageKeeps, BackUpKeeps, SyncDirectoriesKeeps,
     PrepareKeeps, PrepareSyncKeeps, StartCommitKeeps, StartCommitSyncKeeps,
     PublishKeeps, PublishSyncKeeps, FinishKeeps, FinishSyncKeeps DEF Rewrite
<1>4. CASE Acquire \/ EndRun \/ Begin
  BY <1>1, <1>4, AcquireKeeps, EndRunKeeps, BeginKeeps
<1>5. CASE Raise \/ Kill \/ PowerFailure
  BY <1>1, <1>5, RaiseKeeps, KillKeeps, PowerFailureKeeps
<1>6. ASSUME NEW t \in Targets, WritebackTarget(t) \/ WritebackBackup(t) PROVE IInv'
  BY <1>1, <1>6, WritebackTargetKeeps, WritebackBackupKeeps
<1>7. CASE WritebackJournal \/ WritebackRoot
  BY <1>1, <1>7, WritebackJournalKeeps, WritebackRootKeeps
<1>8. ASSUME NEW t \in Targets, EditTarget(t) \/ RestoreByHand(t) PROVE IInv'
  BY <1>1, <1>8, EditTargetKeeps, RestoreByHandKeeps
<1>9. CASE UNCHANGED vars
  <2> USE <1>9 DEF vars
  <2>1. RunInv' /\ EmptyInv'
    BY DEF IInv, RunInv, EmptyInv, Images
  <2>2. CacheInv'
    BY DEF IInv, CacheInv, Guarded, JournalOf, Snapshot, Mixed, Whole, Want
  <2>3. DiskInv'
    BY DEF IInv, DiskInv, Guarded, JournalOf, Snapshot
  <2>4. StepInv'
    BY DEF IInv, StepInv, LockInv, StageInv, PrepareInv, PublishInv, RollbackInv,
       JournalOf, Snapshot, Want, IsNext
  <2>5. QED
    BY <1>1, <2>1, <2>2, <2>3, <2>4 DEF IInv
<1>10. QED
  BY <1>2, <1>3, <1>4, <1>5, <1>6, <1>7, <1>8, <1>9 DEF Next

(* The invariant the other theorems follow from: what each image holds at  *)
(* every step of the protocol.                                             *)
THEOREM Invariance == ASSUME Sound PROVE Spec => []IInv
BY InvInit, InvStep, PTL DEF Spec

LEMMA DiskTargets ==
  ASSUME IInv, PowerLoss
  PROVE  IF disk.journal.state = "committing" THEN Mixed(disk.target)
                                              ELSE Whole(disk.target)
<1> USE DEF IInv
<1>1. CASE cache.journal.state = "committing"
  BY <1>1 DEF CacheInv, DiskInv, Whole
<1>2. CASE cache.journal.state # "committing"
  BY <1>2 DEF CacheInv, Mixed, Whole, Want
<1>3. QED
  BY <1>1, <1>2

(* Backups outlive every replacement: transaction.py's "originals survive  *)
(* every replacement until a durable commit".                              *)
THEOREM OriginalsAlwaysSurvive == ASSUME Sound PROVE Spec => []OriginalsSurvive
<1>1. IInv => OriginalsSurvive
  BY DEF IInv, OriginalsSurvive, Images, CacheInv, DiskInv, Guarded, JournalOf,
     Snapshot, Paths
<1>2. QED
  BY <1>1, Invariance, PTL

(* No image without a committing journal mixes two versions of the dataset.*)
THEOREM AlwaysWholeUnlessCommitting ==
  ASSUME Sound PROVE Spec => []WholeUnlessCommitting
<1>1. ASSUME IInv PROVE WholeUnlessCommitting
  BY <1>1, DiskTargets DEF IInv, WholeUnlessCommitting, Images, CacheInv, Whole
<1>2. QED
  BY <1>1, Invariance, PTL

(* A run that has recovered reads a dataset that is whole and that no      *)
(* later failure can change.                                               *)
THEOREM ReadsAlwaysSettled == ASSUME Sound PROVE Spec => []ReadsSettled
<1>1. ASSUME IInv PROVE ReadsSettled
  <2> SUFFICES ASSUME pc = "reading" PROVE ReadsSettled
    BY DEF ReadsSettled
  <2> USE <1>1 DEF IInv
  <2>1. ~cache.txn /\ cache.journal = NoJournal
    BY DEF StepInv, LockInv, EmptyInv, Images
  <2>2. Whole(cache.target) /\ disk.target = cache.target
    BY <2>1 DEF CacheInv, NoJournal
  <2>3. cache.target \in [Targets -> Nat]
    BY <2>2 DEF Whole, Want, RunInv, TypeOK
  <2>4. PowerLoss => disk.journal.state # "committing"
    BY <2>1 DEF DiskInv, EndSync, NoJournal
  <2>5. \A image \in Images : /\ image.target = cache.target
                              /\ image.journal.state # "committing"
    BY <2>1, <2>2, <2>4 DEF Images, NoJournal
  <2>6. \A image \in Images : Recovered(image) = cache.target
    BY <2>3, <2>5 DEF Recovered
  <2>7. QED
    BY <2>1, <2>2, <2>3, <2>6 DEF ReadsSettled, Whole
<1>2. QED
  BY <1>1, Invariance, PTL

(* Recovery of an image nobody edited always goes through.                 *)
THEOREM AlwaysRefusesOnlyForeign == ASSUME Sound PROVE Spec => []RefusesOnlyForeign
<1>1. ASSUME IInv PROVE RefusesOnlyForeign
  <2> SUFFICES ASSUME NEW image \in Images, image.journal.state = "committing",
                      \A t \in Targets : image.target[t] # Foreign
               PROVE  Verified(image)
    BY DEF RefusesOnlyForeign
  <2> USE <1>1 DEF IInv
  <2>1. Mixed(image.target)
    BY DiskTargets DEF Images, CacheInv
  <2>2. image.journal = JournalOf("committing") /\ image.backup = Snapshot
    BY DEF Images, CacheInv, DiskInv, Guarded
  <2>3. QED
    BY <2>1, <2>2 DEF Verified, Mixed, JournalOf, Paths, Snapshot, RunInv
<1>2. QED
  BY <1>1, Invariance, PTL

-----------------------------------------------------------------------------
(* Refinement: what a rewrite knows of the versions it has read.            *)

(* The version of a rewrite is newer than everything it read. *)
VersionInv ==
  /\ run.version <= attempts
  /\ \A t \in Targets : run.base[t] <= attempts
  /\ pc \in InTry \cup {"mkdirSync"} =>
       /\ Info \in run.paths
       /\ \A t \in Targets : run.base[t] < run.version

(* A rewrite that is about to return has left what it was to leave. *)
ReturnInv ==
  caller = "return" /\ pc # "idle" =>
    /\ pc \in {"recover", "rmtree", "rootSync"}
    /\ cache.journal.state # "committing"
    /\ cache.target = Want

RefInv == VersionInv /\ ReturnInv

-----------------------------------------------------------------------------
(* These two are invariants. *)

LEMMA ReadIsBounded ==
  ASSUME IInv, VersionInv, cache.journal.state # "committing"
  PROVE  \A t \in Targets : cache.target[t] <= attempts
<1>1. Whole(cache.target)
  BY DEF IInv, CacheInv
<1>2. QED
  BY <1>1 DEF IInv, TypeOK, RunInv, Whole, Want, VersionInv

LEMMA VersionStep == ASSUME IInv, VersionInv, [Next]_vars PROVE VersionInv'
<1> USE DEF IInv, TypeOK, RunInv, VersionInv, fs, local, bounds, Goto, InTry
<1>1. ASSUME UNCHANGED <<run, attempts>>,
             pc' \in InTry \cup {"mkdirSync"} => pc \in InTry \cup {"mkdirSync"}
      PROVE  VersionInv'
  BY <1>1
<1>2. CASE Begin
  <2>1. PICK shards \in SUBSET (1 .. NumShards) : BeginRewrite(shards)
    BY <1>2 DEF Begin
  <2>2. cache.journal.state # "committing"
    BY <2>1 DEF BeginRewrite, EmptyInv, Images, NoJournal
  <2>3. \A t \in Targets : cache.target[t] <= attempts
    BY <2>2, ReadIsBounded
  <2>4. cache.target \in [Targets -> Nat]
    BY <2>2 DEF CacheInv, Whole, Want
  <2>5. QED
    BY <2>1, <2>3, <2>4 DEF BeginRewrite
<1>3. CASE Recovery
  BY <1>1, <1>3 DEF Recovery, NothingToRecover, OnlyCleanUp, StartRollback, RefuseToRecover,
     RollbackTarget, RollbackSync, RollbackJournal, RollbackJournalSync, RemoveEntry,
     RemoveDirectory, RecoveryDone, Land
<1>4. CASE Rewrite
  BY <1>1, <1>4 DEF Rewrite, MkdirSync, Stage, BackUp, SyncDirectories, Prepare, PrepareSync,
     StartCommit, StartCommitSync, Publish, PublishSync, Finish, FinishSync
<1>5. CASE Acquire \/ EndRun
  BY <1>1, <1>5 DEF Acquire, EndRun
<1>6. CASE Raise \/ Kill \/ PowerFailure
  BY <1>1, <1>6 DEF Raise, Kill, PowerFailure, Fault
<1>7. ASSUME NEW t \in Targets,
             WritebackTarget(t) \/ WritebackBackup(t) \/ EditTarget(t) \/ RestoreByHand(t)
      PROVE  VersionInv'
  BY <1>1, <1>7 DEF WritebackTarget, WritebackBackup, Writeback, EditTarget, RestoreByHand
<1>8. CASE WritebackJournal \/ WritebackRoot
  BY <1>1, <1>8 DEF WritebackJournal, WritebackRoot, Writeback
<1>9. CASE UNCHANGED vars
  BY <1>1, <1>9 DEF vars
<1>10. QED
  BY <1>2, <1>3, <1>4, <1>5, <1>6, <1>7, <1>8, <1>9 DEF Next

LEMMA ReturnStep == ASSUME IInv, ReturnInv, [Next]_vars PROVE ReturnInv'
<1> USE DEF ReturnInv, fs, local, bounds, Goto
<1>1. ASSUME UNCHANGED <<pc, caller, run>>,
             cache'.target = cache.target \/ pc = "idle",
             cache'.journal = cache.journal \/ cache'.journal = NoJournal \/ pc = "idle"
      PROVE  ReturnInv'
  BY <1>1 DEF Want, NoJournal
<1>2. CASE Recovery
  <2>1. CASE NothingToRecover \/ RecoveryDone
    BY <2>1 DEF NothingToRecover, RecoveryDone, Land
  <2>2. CASE OnlyCleanUp \/ RemoveDirectory
    BY <2>2 DEF OnlyCleanUp, RemoveDirectory, Want, IInv, TypeOK, Image
  <2>3. CASE StartRollback \/ RefuseToRecover
    BY <2>3 DEF StartRollback, RefuseToRecover
  <2>4. CASE RollbackTarget \/ RollbackSync \/ RollbackJournal \/ RollbackJournalSync
    BY <2>4 DEF RollbackTarget, RollbackSync, RollbackJournal, RollbackJournalSync
  <2>5. CASE RemoveEntry
    BY <2>5, <1>1 DEF RemoveEntry, IInv, TypeOK, Image
  <2>6. QED
    BY <1>2, <2>1, <2>2, <2>3, <2>4, <2>5 DEF Recovery
<1>3. CASE Rewrite
  <2>1. CASE FinishSync
    BY <2>1 DEF FinishSync, IInv, StepInv, PublishInv, JournalOf, Want
  <2>2. CASE MkdirSync \/ Stage \/ BackUp \/ SyncDirectories
    BY <2>2 DEF MkdirSync, Stage, BackUp, SyncDirectories
  <2>3. CASE Prepare \/ PrepareSync \/ StartCommit \/ StartCommitSync
    BY <2>3 DEF Prepare, PrepareSync, StartCommit, StartCommitSync
  <2>4. CASE Publish \/ PublishSync \/ Finish
    BY <2>4 DEF Publish, PublishSync, Finish
  <2>5. QED
    BY <1>3, <2>1, <2>2, <2>3, <2>4 DEF Rewrite
<1>4. CASE Acquire \/ EndRun
  BY <1>4 DEF Acquire, EndRun
<1>5. CASE Begin
  BY <1>5 DEF Begin, BeginRewrite
<1>6. CASE Raise \/ Kill \/ PowerFailure
  BY <1>6 DEF Raise, Kill, PowerFailure, Fault
<1>7. ASSUME NEW t \in Targets,
             WritebackTarget(t) \/ WritebackBackup(t) \/ EditTarget(t) \/ RestoreByHand(t)
      PROVE  ReturnInv'
  BY <1>1, <1>7 DEF WritebackTarget, WritebackBackup, Writeback, EditTarget, RestoreByHand
<1>8. CASE WritebackJournal \/ WritebackRoot
  BY <1>1, <1>8 DEF WritebackJournal, WritebackRoot, Writeback
<1>9. CASE UNCHANGED vars
  BY <1>1, <1>9 DEF vars
<1>10. QED
  BY <1>2, <1>3, <1>4, <1>5, <1>6, <1>7, <1>8, <1>9 DEF Next

LEMMA RefInvariance == ASSUME Sound PROVE Spec => [](IInv /\ RefInv)
<1>1. Init => RefInv
  BY ConstantsAssumption DEF Init, RefInv, VersionInv, ReturnInv, InTry
<1>2. IInv /\ RefInv /\ [Next]_vars => RefInv'
  BY VersionStep, ReturnStep DEF RefInv
<1>3. QED
  BY <1>1, <1>2, Invariance, PTL DEF Spec

-----------------------------------------------------------------------------
(* What the dataset logically holds. *)

(* The image a later run would find if the fault came now. *)
Live == IF PowerLoss THEN disk ELSE cache

(* The dataset the run read, except for what somebody else overwrote.      *)
Settled(target) ==
  [t \in Targets |-> IF target[t] = Foreign THEN Foreign ELSE run.base[t]]

LEMMA LogicalIs ==
  ASSUME IInv
  PROVE  Logical = IF Live.journal.state = "committing"
                   THEN Settled(Live.target) ELSE Live.target
<1> USE DEF IInv
<1>1. Live.target \in [Targets -> Content]
  BY DEF Live, TypeOK, Image
<1>2. CASE Live.journal.state = "committing"
  <2>1. Mixed(Live.target)
    BY <1>2, DiskTargets DEF Live, CacheInv
  <2>2. Live.journal = JournalOf("committing")
    BY <1>2 DEF Live, CacheInv, DiskInv, Guarded
  <2>3. Paths(Live.journal) = run.paths
    BY <2>2 DEF Paths, JournalOf, Snapshot, RunInv, TypeOK, Absent
  <2>4. \A t \in run.paths : Live.journal.original[t] = run.base[t]
    BY <2>2 DEF JournalOf, Snapshot, TypeOK
  <2>5. \A t \in Targets : Recovered(Live)[t] = Settled(Live.target)[t]
    BY <1>2, <2>1, <2>3, <2>4 DEF Recovered, Settled, Mixed
  <2>6. QED
    BY <1>2, <2>5 DEF Logical, Live, Recovered, Settled
<1>3. CASE Live.journal.state # "committing"
  BY <1>1, <1>3 DEF Logical, Live, Recovered
<1>4. QED
  BY <1>2, <1>3

LEMMA CommittingImage ==
  ASSUME IInv, Live.journal.state = "committing"
  PROVE  Mixed(Live.target)
BY DiskTargets DEF IInv, Live, CacheInv

LEMMA SettledOfWhole ==
  ASSUME IInv
  PROVE  Settled(run.base) = run.base /\ Settled(Want) = run.base
BY DEF IInv, RunInv, TypeOK, Settled, Want, Foreign

(* A step that moves no file logically. *)
LEMMA SameImage ==
  ASSUME IInv, IInv', run' = run,
         Live'.journal.state = Live.journal.state,
         IF Live.journal.state = "committing"
         THEN \A t \in Targets : Live'.target[t] = Foreign <=> Live.target[t] = Foreign
         ELSE Live'.target = Live.target
  PROVE  Logical' = Logical
<1>1. (Logical = IF Live.journal.state = "committing"
                 THEN Settled(Live.target) ELSE Live.target)'
  BY LogicalIs, PTL
<1>2. QED
  BY <1>1, LogicalIs DEF Settled

-----------------------------------------------------------------------------
(* What each kind of step does to it. *)

AtomicStep == [Atomic!Next]_<<Logical, acked>>

LEMMA Stutters == ASSUME Logical' = Logical, acked' = acked PROVE AtomicStep
BY DEF AtomicStep

LEMMA UpdateStep ==
  ASSUME IInv, VersionInv, pc \in InTry,
         Logical = run.base, Logical' = Want, acked' = acked
  PROVE  AtomicStep
<1> USE DEF IInv, RunInv, TypeOK, VersionInv
<1>1. Info \in run.paths /\ run.paths \subseteq Targets /\ Info \in Targets
  BY DEF Targets, Info
<1>2. Logical'[Info] = run.version
  BY <1>1 DEF Want
<1>3. \A t \in Targets : Logical[t] < Logical'[Info]
  BY <1>2
<1>4. Logical' = [t \in Targets |-> IF t \in run.paths THEN Logical'[Info] ELSE Logical[t]]
  BY <1>2 DEF Want
<1>5. Atomic!Update(run.paths)
  BY <1>1, <1>3, <1>4 DEF Atomic!Update
<1>6. QED
  BY <1>1, <1>5 DEF AtomicStep, Atomic!Next

(* A journal reaches the disk: nothing, or the whole rewrite.              *)
LEMMA JournalStep ==
  ASSUME IInv, IInv', VersionInv, PowerLoss, acked' = acked, run' = run,
         disk' = [disk EXCEPT !.journal = cache.journal]
  PROVE  AtomicStep
<1>1. (Logical = IF Live.journal.state = "committing"
                 THEN Settled(Live.target) ELSE Live.target)'
  BY LogicalIs, PTL
<1>2. Live = disk /\ Live' = disk'
  BY DEF Live
<1>3. disk'.journal = cache.journal /\ disk'.target = disk.target
  BY DEF IInv, TypeOK, Image
<1>4. CASE (disk.journal.state = "committing") <=> (cache.journal.state = "committing")
  <2>1. Logical' = Logical
    BY <1>1, <1>2, <1>3, <1>4, LogicalIs DEF Settled
  <2>2. QED
    BY <2>1, Stutters
<1>5. CASE disk.journal.state # "committing" /\ cache.journal.state = "committing"
  <2>1. disk.target = run.base
    BY <1>5 DEF IInv, DiskInv
  <2>2. Logical' = Settled(run.base) /\ Logical = run.base
    BY <1>1, <1>2, <1>3, <1>5, <2>1, LogicalIs DEF Settled
  <2>3. QED
    BY <2>2, SettledOfWhole, Stutters
<1>6. CASE disk.journal.state = "committing" /\ cache.journal.state # "committing"
  <2>1. pc \in EndSync /\ disk.target = cache.target
    BY <1>6 DEF IInv, DiskInv, CacheInv
  <2>2. cache.target = IF pc = "finishSync" THEN Want ELSE run.base
    BY <2>1 DEF EndSync, IInv, StepInv, PublishInv, RollbackInv
  <2>3. Logical' = cache.target
    BY <1>1, <1>2, <1>3, <1>6, <2>1
  <2>4. Logical = run.base
    BY <1>2, <1>6, <2>1, <2>2, LogicalIs, SettledOfWhole
  <2>5. CASE pc = "finishSync"
    BY <2>2, <2>3, <2>4, <2>5, UpdateStep DEF InTry
  <2>6. CASE pc # "finishSync"
    BY <2>2, <2>3, <2>4, <2>6, Stutters
  <2>7. QED
    BY <2>5, <2>6
<1>7. QED
  BY <1>4, <1>5, <1>6

(* A target reaches the disk, in any way the kernel or an fsync chooses.   *)
LEMMA TargetStep ==
  ASSUME IInv, IInv', PowerLoss, acked' = acked, run' = run, cache' = cache,
         NEW t \in Targets, SyncTarget(t)
  PROVE  AtomicStep
<1>1. Live = disk /\ Live' = disk'
  BY DEF Live
<1>2. disk'.journal = disk.journal /\ disk.target \in [Targets -> Content]
  BY DEF SyncTarget, IInv, TypeOK, Image
<1>3. disk'.target \in [Targets -> Content]
      /\ \A u \in Targets : u # t => disk'.target[u] = disk.target[u]
  BY DEF SyncTarget, IInv, TypeOK, Image
<1>4. CASE disk.journal.state = "committing"
  <2>1. \A u \in Targets : disk'.target[u] = Foreign <=> disk.target[u] = Foreign
    BY <1>2, <1>4 DEF IInv, CacheInv, Whole, Want, RunInv, TypeOK, Foreign
  <2>2. QED
    BY <1>1, <1>2, <1>4, <2>1, SameImage, Stutters
<1>5. CASE disk.journal.state # "committing"
  <2>1. disk'.target = disk.target
    BY <1>2, <1>5 DEF IInv, DiskInv, CacheInv
  <2>2. QED
    BY <1>1, <1>2, <1>5, <2>1, SameImage, Stutters
<1>6. QED
  BY <1>4, <1>5

(* A step that leaves the targets and what the journals ask for alone.     *)
LEMMA QuietStep ==
  ASSUME IInv, IInv', acked' = acked,
         run' = run \/ Live.journal.state # "committing",
         Live'.journal.state = "committing" <=> Live.journal.state = "committing",
         Live'.target = Live.target
  PROVE  AtomicStep
<1>1. (Logical = IF Live.journal.state = "committing"
                 THEN Settled(Live.target) ELSE Live.target)'
  BY LogicalIs, PTL
<1>2. Logical' = Logical
  BY <1>1, LogicalIs DEF Settled
<1>3. QED
  BY <1>2, Stutters

-----------------------------------------------------------------------------
(* One step of the transaction is one step of the atomic update. *)

(* A recovery that returns to a rewrite reports what is there.             *)
LEMMA LandStep ==
  ASSUME IInv, IInv', ReturnInv, NEW from \in {"recover", "rootSync"}, Land(from),
         run' = run, Live'.target = Live.target,
         caller = "return" \/ from = "rootSync" => cache.journal.state # "committing",
         Live'.journal.state = "committing" <=> Live.journal.state = "committing"
  PROVE  AtomicStep
<1>1. CASE caller = "return"
  <2>1. cache.target = Want /\ cache.journal.state # "committing" /\ pc \notin EndSync
    BY <1>1 DEF ReturnInv, Land, Goto, EndSync
  <2>2. Live.target = Want /\ Live.journal.state # "committing"
    BY <2>1 DEF Live, IInv, CacheInv, DiskInv
  <2>3. (Logical = IF Live.journal.state = "committing"
                   THEN Settled(Live.target) ELSE Live.target)'
    BY LogicalIs, PTL
  <2>4. Logical = Want /\ Logical' = Want
    BY <2>2, <2>3, LogicalIs
  <2>5. acked' = Want
    BY <1>1 DEF Land
  <2>6. Atomic!Return
    BY <2>4, <2>5 DEF Atomic!Return
  <2>7. QED
    BY <2>6 DEF AtomicStep, Atomic!Next
<1>2. CASE caller # "return"
  <2>1. acked' = acked
    BY <1>2 DEF Land
  <2>2. QED
    BY <2>1, QuietStep
<1>3. QED
  BY <1>1, <1>2

LEMMA RecoverySteps ==
  ASSUME IInv, IInv', RefInv, Sound, Recovery PROVE AtomicStep
<1> USE DEF RefInv, fs, local, bounds
<1>1. CASE NothingToRecover
  BY <1>1, LandStep DEF NothingToRecover, Live, IInv, EmptyInv, Images, NoJournal
<1>2. CASE OnlyCleanUp \/ StartRollback \/ RefuseToRecover
  <2>1. cache' = cache /\ disk' = disk /\ run' = run /\ acked' = acked
    BY <1>2 DEF OnlyCleanUp, StartRollback, RefuseToRecover
  <2>2. QED
    BY <2>1, QuietStep DEF Live
<1>3. CASE RollbackTarget
  <2>1. PICK t \in todo : cache' = [cache EXCEPT !.target[t] = cache.backup[t]]
    BY <1>3 DEF RollbackTarget
  <2>2. cache.journal.state = "committing" /\ cache.backup = Snapshot /\ t \in run.paths
        /\ \A u \in Targets : cache.target[u] # Foreign
    BY <1>3 DEF RollbackTarget, Goto, IInv, StepInv, RollbackInv, CacheInv, Guarded
  <2>3. cache'.journal = cache.journal
        /\ \A u \in Targets : cache'.target[u] # Foreign
    BY <2>1, <2>2 DEF IInv, TypeOK, Image, Snapshot, RunInv, Foreign
  <2>4. Logical' = Logical
    BY <1>3, <2>2, <2>3, SameImage DEF RollbackTarget, Live
  <2>5. QED
    BY <1>3, <2>4, Stutters DEF RollbackTarget
<1>4. CASE RollbackSync
  <2>1. PICK t \in todo : SyncTarget(t)
    BY <1>4 DEF RollbackSync
  <2>2. CASE PowerLoss
    BY <1>4, <2>1, <2>2, TargetStep DEF RollbackSync, IInv, TypeOK
  <2>3. CASE ~PowerLoss
    BY <1>4, <2>3, QuietStep DEF RollbackSync, Live
  <2>4. QED
    BY <2>2, <2>3
<1>5. CASE RollbackJournal
  <2>1. CASE PowerLoss
    BY <1>5, <2>1, QuietStep DEF RollbackJournal, Live
  <2>2. CASE ~PowerLoss
    <3>1. cache.journal.state = "committing" /\ Mixed(cache.target)
      BY <1>5 DEF RollbackJournal, Goto, IInv, StepInv, RollbackInv, CacheInv
    <3>2. cache.target = run.base
      BY <1>5, <3>1 DEF RollbackJournal, Goto, IInv, StepInv, RollbackInv, Mixed, TypeOK,
         Image, RunInv
    <3>3. cache'.target = run.base /\ cache'.journal.state # "committing"
      BY <1>5, <3>2 DEF RollbackJournal, IInv, TypeOK, Image
    <3>4. (Logical = IF Live.journal.state = "committing"
                     THEN Settled(Live.target) ELSE Live.target)'
      BY LogicalIs, PTL
    <3>5. Logical' = run.base
      BY <2>2, <3>3, <3>4 DEF Live
    <3>6. Logical = run.base
      BY <2>2, <3>1, <3>2, LogicalIs, SettledOfWhole DEF Live
    <3>7. QED
      BY <1>5, <3>5, <3>6, Stutters DEF RollbackJournal
  <2>3. QED
    BY <2>1, <2>2
<1>6. CASE RollbackJournalSync
  <2>1. cache' = cache /\ run' = run /\ acked' = acked /\ SyncJournal
    BY <1>6 DEF RollbackJournalSync
  <2>2. CASE PowerLoss
    BY <2>1, <2>2, JournalStep DEF SyncJournal
  <2>3. CASE ~PowerLoss
    BY <2>1, <2>3, QuietStep DEF Live
  <2>4. QED
    BY <2>2, <2>3
<1>7. CASE RemoveEntry \/ RemoveDirectory
  <2>1. cache'.target = cache.target /\ disk' = disk /\ run' = run /\ acked' = acked
        /\ (cache'.journal = cache.journal \/ cache'.journal = NoJournal)
    BY <1>7 DEF RemoveEntry, RemoveDirectory, IInv, TypeOK, Image
  <2>2. cache.journal.state # "committing"
    BY <1>7 DEF RemoveEntry, RemoveDirectory, Goto, IInv, StepInv, LockInv
  <2>3. QED
    BY <2>1, <2>2, QuietStep DEF Live, NoJournal
<1>8. CASE RecoveryDone
  <2>1. ~cache.txn /\ pc \notin EndSync
    BY <1>8 DEF RecoveryDone, Land, Goto, IInv, StepInv, LockInv, EndSync
  <2>2. cache.journal.state # "committing" /\ (PowerLoss => disk.journal.state # "committing")
    BY <2>1 DEF IInv, EmptyInv, Images, NoJournal, DiskInv
  <2>3. disk'.target = disk.target /\ disk'.journal = NoJournal
    BY <1>8 DEF RecoveryDone, SyncRoot, IInv, TypeOK, Image
  <2>4. QED
    BY <1>8, <2>2, <2>3, LandStep DEF RecoveryDone, Live, NoJournal
<1>9. QED
  BY <1>1, <1>2, <1>3, <1>4, <1>5, <1>6, <1>7, <1>8 DEF Recovery

LEMMA RewriteSteps ==
  ASSUME IInv, IInv', VersionInv, Sound, Rewrite PROVE AtomicStep
<1> USE DEF fs, local, bounds
<1>1. CASE MkdirSync
  <2>1. disk.journal.state # "committing" \/ ~PowerLoss
    BY <1>1 DEF MkdirSync, Goto, IInv, StepInv, StageInv, DiskInv, NoJournal, EndSync
  <2>2. disk'.target = disk.target /\ disk'.journal = NoJournal
    BY <1>1 DEF MkdirSync, SyncRoot, IInv, TypeOK, Image
  <2>3. QED
    BY <1>1, <2>1, <2>2, QuietStep DEF MkdirSync, Live, NoJournal
<1>2. CASE Stage \/ BackUp \/ SyncDirectories
  <2>1. Live'.target = Live.target /\ Live'.journal = Live.journal
        /\ run' = run /\ acked' = acked
    BY <1>2 DEF Stage, BackUp, SyncDirectories, SyncBackups, Live, IInv, TypeOK, Image
  <2>2. QED
    BY <2>1, QuietStep
<1>3. CASE Prepare
  <2>1. cache.journal.state # "committing"
    BY <1>3 DEF Prepare, Goto, IInv, StepInv, PrepareInv, NoJournal
  <2>2. cache'.target = cache.target /\ cache'.journal.state = "prepared"
    BY <1>3 DEF Prepare, IInv, TypeOK, Image
  <2>3. QED
    BY <1>3, <2>1, <2>2, QuietStep DEF Prepare, Live
<1>4. CASE PrepareSync \/ StartCommitSync \/ FinishSync
  <2>1. cache' = cache /\ run' = run /\ acked' = acked /\ SyncJournal
    BY <1>4 DEF PrepareSync, StartCommitSync, FinishSync
  <2>2. CASE PowerLoss
    BY <2>1, <2>2, JournalStep DEF SyncJournal
  <2>3. CASE ~PowerLoss
    BY <2>1, <2>3, QuietStep DEF Live
  <2>4. QED
    BY <2>2, <2>3
<1>5. CASE StartCommit
  <2>1. CASE PowerLoss
    BY <1>5, <2>1, QuietStep DEF StartCommit, Live
  <2>2. CASE ~PowerLoss
    <3>1. cache.journal.state # "committing" /\ cache.target = run.base
      BY <1>5 DEF StartCommit, Goto, IInv, StepInv, PrepareInv, JournalOf
    <3>2. cache'.journal.state = "committing" /\ cache'.target = run.base
      BY <1>5, <3>1 DEF StartCommit, IInv, TypeOK, Image
    <3>3. (Logical = IF Live.journal.state = "committing"
                     THEN Settled(Live.target) ELSE Live.target)'
      BY LogicalIs, PTL
    <3>4. Logical' = Settled(run.base) /\ Logical = run.base
      BY <1>5, <2>2, <3>1, <3>2, <3>3, LogicalIs DEF Live, Settled, StartCommit
    <3>5. QED
      BY <1>5, <3>4, SettledOfWhole, Stutters DEF StartCommit
  <2>3. QED
    BY <2>1, <2>2
<1>6. CASE Publish
  <2>1. PICK t \in todo : cache' = [cache EXCEPT !.target[t] = run.version]
    BY <1>6 DEF Publish
  <2>2. cache.journal.state = "committing" /\ \A u \in Targets : cache.target[u] # Foreign
    BY <1>6 DEF Publish, Goto, IInv, StepInv, PublishInv
  <2>3. cache'.journal = cache.journal
        /\ \A u \in Targets : cache'.target[u] # Foreign
    BY <2>1, <2>2 DEF IInv, TypeOK, Image, Foreign
  <2>4. Logical' = Logical
    BY <1>6, <2>2, <2>3, SameImage DEF Publish, Live
  <2>5. QED
    BY <1>6, <2>4, Stutters DEF Publish
<1>7. CASE PublishSync
  <2>1. PICK t \in todo : SyncTarget(t)
    BY <1>7 DEF PublishSync
  <2>2. CASE PowerLoss
    BY <1>7, <2>1, <2>2, TargetStep DEF PublishSync, IInv, TypeOK
  <2>3. CASE ~PowerLoss
    BY <1>7, <2>3, QuietStep DEF PublishSync, Live
  <2>4. QED
    BY <2>2, <2>3
<1>8. CASE Finish
  <2>1. CASE PowerLoss
    BY <1>8, <2>1, QuietStep DEF Finish, Live
  <2>2. CASE ~PowerLoss
    <3>1. cache.journal.state = "committing" /\ pc \in InTry
          /\ \A t \in Targets : cache.target[t] # Foreign
      BY <1>8 DEF Finish, Goto, IInv, StepInv, PublishInv, InTry
    <3>2. cache.target = Want
      BY <1>8, <3>1 DEF Finish, Goto, IInv, StepInv, PublishInv, CacheInv, Mixed, TypeOK,
         Image, Want
    <3>3. cache'.target = Want /\ cache'.journal.state # "committing"
      BY <1>8, <3>2 DEF Finish, IInv, TypeOK, Image
    <3>4. (Logical = IF Live.journal.state = "committing"
                     THEN Settled(Live.target) ELSE Live.target)'
      BY LogicalIs, PTL
    <3>5. Logical' = Want
      BY <2>2, <3>3, <3>4, <1>8 DEF Live, Finish, Want
    <3>6. Logical = run.base
      BY <2>2, <3>1, <3>2, LogicalIs, SettledOfWhole DEF Live
    <3>7. QED
      BY <1>8, <3>1, <3>5, <3>6, UpdateStep DEF Finish
  <2>3. QED
    BY <2>1, <2>2
<1>9. QED
  BY <1>1, <1>2, <1>3, <1>4, <1>5, <1>6, <1>7, <1>8 DEF Rewrite

LEMMA WritebackSteps ==
  ASSUME IInv, IInv', Sound, VersionInv,
         \/ \E t \in Targets : WritebackTarget(t) \/ WritebackBackup(t)
         \/ WritebackJournal \/ WritebackRoot
  PROVE  AtomicStep
<1> USE DEF Writeback, fs, local, bounds
<1>1. ASSUME NEW t \in Targets, WritebackTarget(t) PROVE AtomicStep
  BY <1>1, TargetStep DEF WritebackTarget
<1>2. ASSUME NEW t \in Targets, WritebackBackup(t) PROVE AtomicStep
  <2>1. disk'.target = disk.target /\ disk'.journal = disk.journal
    BY <1>2 DEF WritebackBackup, IInv, TypeOK, Image
  <2>2. QED
    BY <1>2, <2>1, QuietStep DEF WritebackBackup, Live
<1>3. CASE WritebackJournal
  BY <1>3, JournalStep DEF WritebackJournal, SyncJournal
<1>4. CASE WritebackRoot
  <2>1. disk.journal.state # "committing"
    <3>1. CASE ~disk.txn
      BY <1>4, <3>1 DEF WritebackRoot, IInv, EmptyInv, Images, NoJournal
    <3>2. CASE disk.txn
      <4>1. ~cache.txn
        BY <1>4, <3>2 DEF WritebackRoot, IInv, TypeOK, Image
      <4>2. cache.journal = NoJournal /\ pc \notin EndSync
        BY <4>1 DEF IInv, EmptyInv, Images, StepInv, PublishInv, RollbackInv, EndSync
      <4>3. QED
        BY <1>4, <4>2 DEF WritebackRoot, IInv, DiskInv, NoJournal
    <3>3. QED
      BY <3>1, <3>2
  <2>2. disk'.target = disk.target /\ disk'.journal = NoJournal
    BY <1>4 DEF WritebackRoot, SyncRoot, IInv, TypeOK, Image
  <2>3. QED
    BY <1>4, <2>1, <2>2, QuietStep DEF WritebackRoot, Live, NoJournal
<1>5. QED
  BY <1>1, <1>2, <1>3, <1>4

LEMMA EditSteps ==
  ASSUME IInv, IInv', NEW t \in Targets, EditTarget(t) \/ RestoreByHand(t)
  PROVE  AtomicStep
<1> USE DEF fs, local, bounds
<1>1. (Logical = IF Live.journal.state = "committing"
                 THEN Settled(Live.target) ELSE Live.target)'
  BY LogicalIs, PTL
<1>2. \E c \in Content : /\ Live'.target = [Live.target EXCEPT ![t] = c]
                         /\ Live'.journal = Live.journal
                         /\ run' = run /\ acked' = acked
  <2>1. CASE EditTarget(t)
    BY <2>1 DEF EditTarget, Live, IInv, TypeOK, Image, Content
  <2>2. CASE RestoreByHand(t)
    <3>1. cache.backup[t] \in Content
      BY DEF IInv, TypeOK, Image
    <3>2. QED
      BY <2>2, <3>1 DEF RestoreByHand, Live, IInv, TypeOK, Image
  <2>3. QED
    BY <2>1, <2>2
<1>3. cache.journal.state = "committing" /\ Live.journal.state = "committing"
      /\ (EditTarget(t) \/ Live.target[t] = Foreign)
  <2>1. CASE EditTarget(t)
    BY <2>1 DEF EditTarget, Live
  <2>2. CASE RestoreByHand(t)
    <3>1. cache.journal.state = "committing" /\ disk.target[t] = Foreign
      BY <2>2 DEF RestoreByHand, IInv, CacheInv, Whole, Want, RunInv, TypeOK, Foreign
    <3>2. QED
      BY <2>2, <3>1 DEF RestoreByHand, IInv, DiskInv, RunInv, Live, Foreign
  <2>3. QED
    BY <2>1, <2>2
<1>4. Logical = Settled(Live.target) /\ Logical' = Settled(Live'.target)
  BY <1>1, <1>2, <1>3, LogicalIs DEF Settled
<1>5. Logical' = [Logical EXCEPT ![t] = Logical'[t]]
  BY <1>2, <1>4 DEF Settled, IInv, TypeOK, Image, Live
<1>6. Foreign \in {Logical[t], Logical'[t]}
  <2>1. CASE EditTarget(t)
    <3>1. Live'.target[t] = Foreign
      BY <2>1 DEF EditTarget, Live, IInv, TypeOK, Image
    <3>2. QED
      BY <1>4, <3>1 DEF Settled
  <2>2. CASE Live.target[t] = Foreign
    BY <1>4, <2>2 DEF Settled
  <2>3. QED
    BY <1>3, <2>1, <2>2
<1>7. Atomic!Edit(t)
  BY <1>2, <1>5, <1>6 DEF Atomic!Edit
<1>8. QED
  BY <1>7 DEF AtomicStep, Atomic!Next

LEMMA StepRefines ==
  ASSUME Sound, IInv, IInv', RefInv, [Next]_vars PROVE AtomicStep
<1> USE DEF RefInv, fs, local, bounds
<1>1. CASE Acquire \/ EndRun
  <2>1. cache' = cache /\ disk' = disk /\ run' = run /\ acked' = acked
    BY <1>1 DEF Acquire, EndRun
  <2>2. QED
    BY <2>1, QuietStep DEF Live
<1>2. CASE Begin
  <2>1. PICK shards \in SUBSET (1 .. NumShards) : BeginRewrite(shards)
    BY <1>2 DEF Begin
  <2>2. Live.journal.state # "committing"
    BY <2>1 DEF BeginRewrite, Goto, Live, IInv, EmptyInv, Images, NoJournal, DiskInv, EndSync
  <2>3. Live'.target = Live.target /\ Live'.journal = Live.journal /\ acked' = acked
    BY <2>1 DEF BeginRewrite, Live, IInv, TypeOK, Image
  <2>4. QED
    BY <2>2, <2>3, QuietStep
<1>3. CASE Raise \/ Kill \/ PowerFailure
  <2>1. Live' = Live /\ run' = run /\ acked' = acked
    BY <1>3 DEF Raise, Kill, PowerFailure, Fault, Live
  <2>2. QED
    BY <2>1, QuietStep
<1>4. CASE UNCHANGED vars
  BY <1>4, QuietStep DEF vars, Live
<1>5. QED
  BY <1>1, <1>2, <1>3, <1>4, RecoverySteps, RewriteSteps, WritebackSteps, EditSteps DEF Next

(* rewrite_dataset replaces its files all at once or not at all, across    *)
(* kills and power failures, and what it returned is never taken back.     *)
THEOREM AtomicityRefined == ASSUME Sound PROVE Spec => Implements
<1>1. ASSUME Init PROVE Atomic!Init
  BY <1>1 DEF Init, Atomic!Init, Logical, Recovered, NoJournal
<1>2. IInv /\ IInv' /\ RefInv /\ [Next]_vars => AtomicStep
  BY StepRefines
<1>3. QED
  BY <1>1, <1>2, RefInvariance, PTL DEF Spec, Implements, Atomic!Spec, AtomicStep

-----------------------------------------------------------------------------
(* In every image the dataset is whole unless a rollback is asked for, and *)
(* a run that has recovered reads one that no failure can change: what     *)
(* transaction.py's journal is for.                                        *)
THEOREM AlwaysReadable == ASSUME Sound PROVE Spec => []Readable
<1>1. TypeOK /\ WholeUnlessCommitting /\ ReadsSettled => Readable
  BY DEF Readable
<1>2. QED
  BY <1>1, TypeCorrect, AlwaysWholeUnlessCommitting, ReadsAlwaysSettled, PTL

(* Whatever recover_dataset finds, it can roll back, unless another        *)
(* program overwrote a target.                                             *)
THEOREM AlwaysRecoverable == ASSUME Sound PROVE Spec => []Recoverable
<1>1. OriginalsSurvive /\ RefusesOnlyForeign => Recoverable
  BY DEF Recoverable
<1>2. QED
  BY <1>1, OriginalsAlwaysSurvive, AlwaysRefusesOnlyForeign, PTL

-----------------------------------------------------------------------------
(* The targets that the publishing loop has not reached hold the originals,*)
(* in both images: only the file between its rename and its directory      *)
(* fsync may differ.                                                       *)
Untouched(t) == cache.target[t] = run.base[t] /\ disk.target[t] = run.base[t]

PendingInv ==
  /\ pc = "commitSync" => disk.target = run.base
  /\ pc = "publish" => \A t \in todo : Untouched(t)
  /\ pc = "publishSync" => \A t \in todo : IsNext(t) \/ Untouched(t)

(* A target on which the images differ while files are published is the    *)
(* one that has just been renamed.                                         *)
LEMMA OnlyNextDiffers ==
  ASSUME IInv, PendingInv, NEW t \in Targets, cache.target[t] # disk.target[t],
         pc \in {"commitSync", "publish", "publishSync"}
  PROVE  pc = "publishSync" /\ IsNext(t)
<1> USE DEF IInv, StepInv
<1>1. pc # "commitSync"
  BY DEF PrepareInv, PendingInv
<1>2. cache.journal.state = "committing" /\ Mixed(cache.target) /\ Mixed(disk.target)
  BY <1>1 DEF PublishInv, CacheInv
<1>3. t \in run.paths
  BY <1>2 DEF Mixed
<1>4. t \in todo
  BY <1>1, <1>3 DEF PublishInv
<1>5. QED
  BY <1>1, <1>4 DEF PendingInv, Untouched

(* While meta/info.json is next, every shard of the rewrite is published.  *)
LEMMA InfoIsLast ==
  ASSUME TypeOK, IsNext(Info)
  PROVE  todo = {Info}
<1>1. \A t \in Targets : t \in Int /\ t <= Info
  BY ConstantsAssumption DEF Targets, Info
<1>2. Info \in todo /\ \A t \in todo : t \in Targets /\ Info <= t
  BY DEF TypeOK, IsNext
<1>3. Info \in Int
  BY ConstantsAssumption DEF Info
<1>4. \A t \in todo : t = Info
  BY <1>1, <1>2, <1>3
<1>5. QED
  BY <1>2, <1>4

LEMMA PendingPublish ==
  ASSUME IInv, PendingInv, Publish
  PROVE  PendingInv'
<1>1. PICK t \in todo : /\ IsNext(t)
                        /\ cache' = [cache EXCEPT !.target[t] = run.version]
  BY DEF Publish
<1>2. \A u \in todo : u = t \/ (Untouched(u) /\ u # t)
  BY DEF Publish, Goto, PendingInv
<1>3. \A u \in todo : u # t => cache'.target[u] = cache.target[u]
  BY <1>1 DEF IInv, TypeOK, Image
<1>4. pc' = "publishSync" /\ UNCHANGED <<disk, todo, run>>
  BY DEF Publish, Goto, local
<1>5. IsNext(t)'
  BY <1>1, <1>4 DEF IsNext
<1>6. QED
  BY <1>2, <1>3, <1>4, <1>5 DEF PendingInv, Untouched

LEMMA PendingPublishSync ==
  ASSUME IInv, PendingInv, PublishSync
  PROVE  PendingInv'
<1>1. PICK t \in todo : IsNext(t) /\ SyncTarget(t) /\ todo' = todo \ {t}
  BY DEF PublishSync
<1>2. \A u \in todo' : u \in todo /\ u # t /\ ~IsNext(u)
  BY <1>1, NextIsUnique DEF IInv
<1>3. \A u \in todo' : Untouched(u)
  BY <1>2 DEF PublishSync, Goto, PendingInv
<1>4. \A u \in todo' : disk'.target[u] = disk.target[u]
  BY <1>1, <1>2 DEF SyncTarget, IInv, TypeOK, Image
<1>5. pc' = "publish" /\ UNCHANGED <<cache, run>>
  BY DEF PublishSync, Goto
<1>6. QED
  BY <1>3, <1>4, <1>5 DEF PendingInv, Untouched

LEMMA PendingWriteback ==
  ASSUME IInv, PendingInv, NEW t \in Targets, WritebackTarget(t)
  PROVE  PendingInv'
<1> USE DEF WritebackTarget, Writeback, local
<1>1. CASE pc \notin {"commitSync", "publish", "publishSync"}
  BY <1>1 DEF PendingInv
<1>2. CASE pc \in {"commitSync", "publish", "publishSync"}
  <2>1. pc = "publishSync" /\ IsNext(t)
    BY <1>2, OnlyNextDiffers
  <2>2. \A u \in todo : u # t => Untouched(u) /\ disk'.target[u] = disk.target[u]
    BY <2>1, NextIsUnique DEF PendingInv, SyncTarget, IInv, TypeOK, Image
  <2>3. QED
    BY <2>1, <2>2 DEF PendingInv, Untouched, IsNext
<1>3. QED
  BY <1>1, <1>2

LEMMA PendingStep == IInv /\ PendingInv /\ [Next]_vars => PendingInv'
<1> SUFFICES ASSUME IInv, PendingInv, [Next]_vars PROVE PendingInv'
  OBVIOUS
<1> USE DEF PendingInv, Goto, fs, local, bounds
<1>1. CASE Acquire \/ EndRun \/ Begin
  BY <1>1 DEF Acquire, EndRun, Begin, BeginRewrite
<1>2. CASE Recovery
  BY <1>2 DEF Recovery, NothingToRecover, OnlyCleanUp, StartRollback, RefuseToRecover,
     RollbackTarget, RollbackSync, RollbackJournal, RollbackJournalSync, RemoveEntry,
     RemoveDirectory, RecoveryDone, Land
<1>3. CASE Rewrite
  <2>1. CASE StartCommit
    <3>1. disk.target = run.base
      BY <2>1 DEF StartCommit, IInv, StepInv, PrepareInv, CacheInv, JournalOf
    <3>2. QED
      BY <2>1, <3>1 DEF StartCommit
  <2>2. CASE StartCommitSync
    <3>1. cache.target = run.base /\ disk'.target = run.base
      BY <2>2 DEF StartCommitSync, SyncJournal, IInv, StepInv, PrepareInv, TypeOK, Image
    <3>2. QED
      BY <2>2, <3>1 DEF StartCommitSync, Untouched
  <2>3. CASE Publish \/ PublishSync
    BY <2>3, PendingPublish, PendingPublishSync
  <2>4. CASE Finish \/ FinishSync
    BY <2>4 DEF Finish, FinishSync
  <2>5. CASE MkdirSync \/ Stage \/ BackUp \/ SyncDirectories \/ Prepare \/ PrepareSync
    BY <2>5 DEF MkdirSync, Stage, BackUp, SyncDirectories, Prepare, PrepareSync
  <2>6. QED
    BY <1>3, <2>1, <2>2, <2>3, <2>4, <2>5 DEF Rewrite
<1>4. CASE Raise \/ Kill \/ PowerFailure
  BY <1>4 DEF Raise, Kill, PowerFailure, Fault
<1>5. ASSUME NEW t \in Targets, WritebackTarget(t) PROVE PendingInv'
  BY <1>5, PendingWriteback
<1>6. ASSUME NEW t \in Targets, WritebackBackup(t) \/ WritebackJournal \/ WritebackRoot
      PROVE  PendingInv'
  <2>1. disk'.target = disk.target
    BY <1>6 DEF WritebackBackup, WritebackJournal, WritebackRoot, Writeback, SyncJournal,
       SyncRoot, IInv, TypeOK, Image
  <2>2. UNCHANGED <<cache, pc, todo, run>>
    BY <1>6 DEF WritebackBackup, WritebackJournal, WritebackRoot, Writeback
  <2>3. QED
    BY <2>1, <2>2 DEF Untouched, IsNext
<1>7. ASSUME NEW t \in Targets, EditTarget(t) \/ RestoreByHand(t) PROVE PendingInv'
  BY <1>7 DEF EditTarget, RestoreByHand
<1>8. CASE UNCHANGED vars
  BY <1>8 DEF vars, Untouched, IsNext
<1>9. Targets # {}
  BY ConstantsAssumption DEF Targets, Info
<1>10. QED
  BY <1>1, <1>2, <1>3, <1>4, <1>5, <1>6, <1>7, <1>8, <1>9 DEF Next

(* The invariant of the publishing loop.                                   *)
LEMMA PendingAlways == ASSUME Sound PROVE Spec => []PendingInv
<1>1. Init => PendingInv
  BY DEF Init, PendingInv
<1>2. QED
  BY <1>1, PendingStep, Invariance, PTL DEF Spec

-----------------------------------------------------------------------------
(* "metadata publication is always last", in what processes see and on the *)
(* disk.                                                                   *)

LEMMA InfoNextMakesWhole ==
  ASSUME IInv, pc \in {"publish", "publishSync"}, IsNext(Info)
  PROVE  \A t \in Targets \ {Info} : cache.target[t] = Want[t] /\ disk.target[t] = Want[t]
<1> USE DEF IInv, StepInv
<1>1. todo = {Info}
  BY InfoIsLast
<1>2. Mixed(cache.target) /\ Mixed(disk.target)
  BY DEF PublishInv, CacheInv
<1>3. QED
  BY <1>1, <1>2 DEF PublishInv, Mixed, Want

(* A step that changes no target puts no metadata before a shard.          *)
LEMMA SameTargets ==
  ASSUME NEW old, NEW new, new.target = old.target
  PROVE  InfoLast(old, new)
BY DEF InfoLast

LEMMA PublishInfoLast ==
  ASSUME IInv, PendingInv, Publish
  PROVE  MetadataLast
<1>1. PICK t \in todo : /\ IsNext(t)
                        /\ cache' = [cache EXCEPT !.target[t] = run.version]
  BY DEF Publish
<1>2. t \in Targets /\ cache \in Image /\ run.base \in [Targets -> Nat]
  BY DEF IInv, TypeOK, RunInv
<1>3. Info \in Targets
  BY ConstantsAssumption DEF Targets, Info
<1>4. pc = "publish" /\ disk' = disk
  BY DEF Publish, Goto
<1>5. CASE t = Info
  <2>1. t \in run.paths
    BY <1>4 DEF IInv, StepInv, PublishInv
  <2>2. \A u \in Targets : cache'.target[u] = Want[u]
    BY <1>1, <1>2, <1>4, <1>5, <2>1, InfoNextMakesWhole DEF Image, Want
  <2>3. cache'.target = Want
    BY <1>1, <1>2, <2>2 DEF Image, Want
  <2>4. QED
    BY <1>4, <2>3, SameTargets DEF MetadataLast, InfoLast
<1>6. CASE t # Info
  <2>1. cache'.target[Info] = cache.target[Info]
    BY <1>1, <1>2, <1>3, <1>6 DEF Image
  <2>2. QED
    BY <1>4, <2>1, SameTargets DEF MetadataLast, InfoLast
<1>7. QED
  BY <1>5, <1>6

(* The directory fsync of a published file, by the program or the kernel.  *)
LEMMA SyncInfoLast ==
  ASSUME IInv, NEW t \in Targets, pc = "publishSync", IsNext(t), SyncTarget(t), cache' = cache
  PROVE  MetadataLast
<1>1. /\ disk \in Image /\ run.base \in [Targets -> Nat]
      /\ unflushed = {} /\ cache.target[t] = run.version /\ t \in run.paths
  BY DEF IInv, TypeOK, RunInv, StepInv, PublishInv, CacheInv, IsNext
<1>2. disk' = [disk EXCEPT !.target[t] = run.version]
  BY <1>1 DEF SyncTarget
<1>3. Info \in Targets
  BY ConstantsAssumption DEF Targets, Info
<1>4. CASE t = Info
  <2>1. \A u \in Targets : disk'.target[u] = Want[u]
    BY <1>1, <1>2, <1>4, InfoNextMakesWhole DEF Image, Want
  <2>2. disk'.target = Want
    BY <1>1, <1>2, <2>1 DEF Image, Want
  <2>3. QED
    BY <2>2, SameTargets DEF MetadataLast, InfoLast
<1>5. CASE t # Info
  <2>1. disk'.target[Info] = disk.target[Info]
    BY <1>1, <1>2, <1>3, <1>5 DEF Image
  <2>2. QED
    BY <2>1, SameTargets DEF MetadataLast, InfoLast
<1>6. QED
  BY <1>4, <1>5

(* After a power failure processes see what was on the disk.               *)
LEMMA FailureInfoLast ==
  ASSUME IInv, PendingInv, PowerFailure
  PROVE  MetadataLast
<1> SUFFICES ASSUME pc \in {"publish", "publishSync"} PROVE MetadataLast
  BY DEF MetadataLast
<1>1. cache' = disk /\ disk' = disk
  BY DEF PowerFailure
<1>2. Info \in Targets
  BY ConstantsAssumption DEF Targets, Info
<1>3. CASE cache.target[Info] = disk.target[Info]
  BY <1>1, <1>3, SameTargets DEF MetadataLast, InfoLast
<1>4. CASE cache.target[Info] # disk.target[Info]
  <2>1. pc = "publishSync" /\ IsNext(Info)
    BY <1>2, <1>4, OnlyNextDiffers
  <2>2. cache.target[Info] = run.version
    BY <2>1 DEF IInv, StepInv, PublishInv, IsNext
  <2>3. QED
    BY <1>1, <2>2, SameTargets DEF MetadataLast, InfoLast
<1>5. QED
  BY <1>3, <1>4

LEMMA MetadataStep == IInv /\ PendingInv /\ [Next]_vars => [MetadataLast]_vars
<1> SUFFICES ASSUME IInv, PendingInv, Next, pc \in {"publish", "publishSync"}
             PROVE  MetadataLast
  BY DEF MetadataLast
<1> USE DEF Goto, fs, local, bounds
<1>1. CASE Acquire \/ EndRun \/ Begin \/ Recovery
  BY <1>1 DEF Acquire, EndRun, Begin, BeginRewrite, Recovery, NothingToRecover, OnlyCleanUp,
     StartRollback, RefuseToRecover, RollbackTarget, RollbackSync, RollbackJournal,
     RollbackJournalSync, RemoveEntry, RemoveDirectory, RecoveryDone, Land
<1>2. CASE Rewrite
  <2>1. CASE Publish
    BY <2>1, PublishInfoLast
  <2>2. CASE PublishSync
    <3>1. PICK t \in todo : IsNext(t) /\ SyncTarget(t)
      BY <2>2 DEF PublishSync
    <3>2. QED
      BY <2>2, <3>1, SyncInfoLast DEF PublishSync, IInv, TypeOK
  <2>3. CASE Finish
    <3>1. disk' = disk /\ cache'.target = cache.target
      BY <2>3 DEF Finish, IInv, TypeOK, Image
    <3>2. QED
      BY <3>1, SameTargets DEF MetadataLast
  <2>4. QED
    BY <1>2, <2>1, <2>2, <2>3 DEF Rewrite, MkdirSync, Stage, BackUp, SyncDirectories, Prepare,
       PrepareSync, StartCommit, StartCommitSync, FinishSync
<1>3. CASE Raise \/ Kill
  BY <1>3, SameTargets DEF Raise, Kill, MetadataLast
<1>4. CASE PowerFailure
  BY <1>4, FailureInfoLast
<1>5. ASSUME NEW t \in Targets, WritebackTarget(t) PROVE MetadataLast
  <2>1. cache' = cache /\ SyncTarget(t) /\ cache.target[t] # disk.target[t]
    BY <1>5 DEF WritebackTarget, Writeback
  <2>2. QED
    BY <2>1, OnlyNextDiffers, SyncInfoLast
<1>6. ASSUME NEW t \in Targets, WritebackBackup(t) \/ WritebackJournal \/ WritebackRoot
      PROVE  MetadataLast
  <2>1. disk'.target = disk.target /\ cache' = cache
    BY <1>6 DEF WritebackBackup, WritebackJournal, WritebackRoot, Writeback, SyncJournal,
       SyncRoot, IInv, TypeOK, Image
  <2>2. QED
    BY <2>1, SameTargets DEF MetadataLast
<1>7. ASSUME NEW t \in Targets, EditTarget(t) \/ RestoreByHand(t) PROVE MetadataLast
  BY <1>7 DEF EditTarget, RestoreByHand
<1>8. Targets # {}
  BY ConstantsAssumption DEF Targets, Info
<1>9. QED
  BY <1>1, <1>2, <1>3, <1>4, <1>5, <1>6, <1>7, <1>8 DEF Next

-----------------------------------------------------------------------------
(* A rollback verifies every target before it touches the first: what      *)
(* another program wrote stays.                                            *)

LEMMA ForeignStep == IInv /\ [Next]_vars => [ForeignKept]_vars
<1> SUFFICES ASSUME IInv, Next,
                    NEW t \in Targets, cache.target[t] = Foreign, cache'.target[t] # Foreign
             PROVE  pc = "idle" /\ pc' = "idle"
  BY DEF ForeignKept
<1> USE DEF Goto, fs, local, bounds
<1>1. cache.journal.state = "committing"
  <2>1. Want \in [Targets -> Nat] /\ run.base \in [Targets -> Nat]
    BY DEF Want, IInv, TypeOK, RunInv
  <2>2. QED
    BY <2>1 DEF IInv, CacheInv, Whole, Foreign
<1>2. disk.target[t] = Foreign
  BY <1>1 DEF IInv, CacheInv
<1>3. cache \in Image
  BY DEF IInv, TypeOK
<1>4. cache' # cache
  OBVIOUS
<1>5. cache'.target # cache.target
  OBVIOUS
<1>6. CASE Acquire \/ EndRun \/ Raise \/ Kill \/ PowerFailure
  BY <1>2, <1>4, <1>6 DEF Acquire, EndRun, Raise, Kill, PowerFailure
<1>7. CASE Begin
  BY <1>3, <1>5, <1>7 DEF Begin, BeginRewrite, Image
<1>8. CASE Recovery
  <2>1. ~RollbackTarget
    BY DEF RollbackTarget, IInv, StepInv, RollbackInv
  <2>2. QED
    BY <1>3, <1>4, <1>5, <1>8, <2>1 DEF Recovery, NothingToRecover, OnlyCleanUp, StartRollback,
       RefuseToRecover, RollbackSync, RollbackJournal, RollbackJournalSync, RemoveEntry,
       RemoveDirectory, RecoveryDone, Image
<1>9. CASE Rewrite
  <2>1. ~Publish
    BY DEF Publish, IInv, StepInv, PublishInv
  <2>2. QED
    BY <1>3, <1>4, <1>5, <1>9, <2>1 DEF Rewrite, MkdirSync, Stage, BackUp, SyncDirectories,
       Prepare, PrepareSync, StartCommit, StartCommitSync, PublishSync, Finish, FinishSync,
       Image
<1>10. ASSUME NEW u \in Targets,
              WritebackTarget(u) \/ WritebackBackup(u) \/ WritebackJournal \/ WritebackRoot
       PROVE  FALSE
  BY <1>4, <1>10 DEF WritebackTarget, WritebackBackup, WritebackJournal, WritebackRoot, Writeback
<1>11. ASSUME NEW u \in Targets, EditTarget(u) \/ RestoreByHand(u)
       PROVE  pc = "idle" /\ pc' = "idle"
  BY <1>11 DEF EditTarget, RestoreByHand
<1>12. Targets # {}
  OBVIOUS
<1>13. QED
  BY <1>6, <1>7, <1>8, <1>9, <1>10, <1>11, <1>12 DEF Next

(* No step publishes metadata before a shard it describes, whatever the    *)
(* kernel writes back first, or overwrites what somebody else put in place.*)
THEOREM StepsAlwaysSafe == ASSUME Sound PROVE Spec => StepsSafe
<1>1. IInv /\ PendingInv /\ [Next]_vars => [MetadataLast /\ ForeignKept]_vars
  BY MetadataStep, ForeignStep
<1>2. QED
  BY <1>1, Invariance, PendingAlways, PTL DEF Spec, StepsSafe
-----------------------------------------------------------------------------
(***************************************************************************)
(* The rows such a rewrite puts into a shard (LanguageColumns), for any     *)
(* shards, configurations and answers: whose rows are replaced, what a      *)
(* later run is allowed, and, from lemmas on lists of rows and on what each *)
(* module stages, that every row passes the checks and ends on its frame.   *)
(***************************************************************************)

AtWork == {"plan", "interjections", "update", "vqa"}

(* A run works on selected episodes only, what it writes is decided by the  *)
(* rows that are staged at the time of writing, and a shard that was        *)
(* written needs no migration.                                              *)
SelectedInv == DOMAIN records \subseteq selected

DecidedInv ==
  phase \in {"write", "done"} => skipped = {e \in DOMAIN records : Incomplete(e)}

MigratedInv == phase = "done" => Canonical(shard, config)

IsShard(sh) == sh = [rows |-> sh.rows, columns |-> sh.columns, storage |-> sh.storage]

ColumnsInv ==
  /\ phase \in AtWork \cup {"read", "validate", "write", "done", "failed", "refused"}
  /\ IsShard(shard)
  /\ SelectedInv /\ DecidedInv /\ MigratedInv

LEMMA ColumnsStart == ColumnsInit => ColumnsInv
BY ShardsAssumption
   DEF ColumnsInit, ColumnsInv, IsShard, SelectedInv, DecidedInv, MigratedInv, AtWork

(* Each module stages rows and does nothing else.                           *)
StagesOne(e) == phase \in AtWork /\ \E m, rows : StageRows(e, m, rows)

LEMMA ModulesStage ==
  ASSUME NEW e, PlanPhase(e) \/ InterjectionsPhase(e) \/ UpdatePhase(e) \/ VqaPhase(e)
  PROVE  StagesOne(e)
<1>1. CASE PlanPhase(e)
  <2>1. phase = "plan" /\ \E rows : StageRows(e, "plan", rows)
    BY <1>1, Zenon DEF PlanPhase
  <2>2. QED
    BY <2>1, Zenon DEF StagesOne, AtWork
<1>2. CASE InterjectionsPhase(e)
  <2>1. phase = "interjections" /\ \E rows : StageRows(e, "interjections", rows)
    BY <1>2, Zenon DEF InterjectionsPhase
  <2>2. QED
    BY <2>1, Zenon DEF StagesOne, AtWork
<1>3. CASE UpdatePhase(e)
  <2>1. phase = "update" /\ \E rows : StageRows(e, "plan", rows)
    BY <1>3, Zenon DEF UpdatePhase
  <2>2. QED
    BY <2>1, Zenon DEF StagesOne, AtWork
<1>4. CASE VqaPhase(e)
  <2>1. phase = "vqa" /\ \E rows : StageRows(e, "vqa", rows)
    BY <1>4, Zenon DEF VqaPhase
  <2>2. QED
    BY <2>1, Zenon DEF StagesOne, AtWork
<1>5. QED
  BY <1>1, <1>2, <1>3, <1>4

LEMMA StageStep ==
  ASSUME ColumnsInv, NEW e, NEW m, NEW rows, phase \in AtWork, StageRows(e, m, rows)
  PROVE  ColumnsInv'
<1>1. /\ shard' = shard /\ selected' = selected /\ records' = records
      /\ phase' \in AtWork \cup {"validate"}
  BY DEF StageRows, Advance, NextPhase, AtWork
<1>2. QED
  BY <1>1 DEF ColumnsInv, IsShard, SelectedInv, DecidedInv, MigratedInv, AtWork

LEMMA WriteStep ==
  ASSUME ColumnsInv, Write
  PROVE  ColumnsInv'
<1>1. CASE phase' = "failed" /\ UNCHANGED shard
  BY <1>1 DEF Write, ColumnsInv, IsShard, SelectedInv, DecidedInv, MigratedInv
<1>2. CASE /\ phase' = "done"
           /\ shard' = [shard EXCEPT !.rows = [i \in DOMAIN @ |-> Rewritten(@[i])],
                                     !.columns = Columns]
  <2>1. config' = config /\ selected' = selected /\ records' = records
    BY DEF Write
  <2>2. IsShard(shard') /\ shard'.columns = Columns
    BY <1>2 DEF ColumnsInv, IsShard
  <2>3. Canonical(shard', config)
    BY <2>2 DEF Canonical, Columns, Dropped
  <2>4. DecidedInv'
    <3>1. phase = "write" /\ UNCHANGED <<config, records, staged, skipped>>
      BY DEF Write
    <3>2. skipped = {e \in DOMAIN records : Incomplete(e)}
      BY <3>1 DEF ColumnsInv, DecidedInv
    <3>3. QED
      BY <3>1, <3>2 DEF DecidedInv, Incomplete
  <2>5. QED
    BY <1>2, <2>1, <2>2, <2>3, <2>4
       DEF ColumnsInv, IsShard, SelectedInv, MigratedInv, Canonical
<1>3. QED
  BY <1>1, <1>2 DEF Write

LEMMA ColumnsStep == ColumnsInv /\ [ColumnsNext]_columnVars => ColumnsInv'
<1> SUFFICES ASSUME ColumnsInv, [ColumnsNext]_columnVars PROVE ColumnsInv'
  OBVIOUS
<1> USE DEF ColumnsInv, IsShard, SelectedInv, DecidedInv, MigratedInv, AtWork
<1>1. CASE Read
  BY <1>1 DEF Read
<1>2. ASSUME NEW e \in waiting,
             PlanPhase(e) \/ InterjectionsPhase(e) \/ UpdatePhase(e) \/ VqaPhase(e)
      PROVE  ColumnsInv'
  <2>1. phase \in AtWork /\ \E m, rows : StageRows(e, m, rows)
    BY <1>2, ModulesStage DEF StagesOne
  <2>2. QED
    BY <2>1, StageStep
<1>3. CASE ModuleFails
  BY <1>3 DEF ModuleFails
<1>4. CASE Validate
  BY <1>4 DEF Validate, Incomplete
<1>5. CASE Write
  BY <1>5, WriteStep
<1>6. CASE UNCHANGED columnVars
  BY <1>6 DEF columnVars, Canonical, Incomplete
<1>7. QED
  BY <1>1, <1>2, <1>3, <1>4, <1>5, <1>6 DEF ColumnsNext

(* Only the write changes a row, and only one of an episode that it         *)
(* replaces.                                                                *)
LEMMA ReplacedOnly ==
  ASSUME ColumnsInv, [ColumnsNext]_columnVars,
         NEW i \in DOMAIN shard.rows, shard'.rows[i] # shard.rows[i]
  PROVE  phase = "write" /\ phase' = "done" /\ shard.rows[i].ep \in Replaced
<1>1. Write
  <2>1. CASE Read \/ ModuleFails \/ Validate \/ UNCHANGED columnVars
    BY <2>1 DEF columnVars, Read, ModuleFails, Validate
  <2>2. CASE \E e \in waiting :
               PlanPhase(e) \/ InterjectionsPhase(e) \/ UpdatePhase(e) \/ VqaPhase(e)
    BY <2>2, ModulesStage DEF StagesOne, StageRows
  <2>3. QED
    BY <2>1, <2>2 DEF ColumnsNext
<1>2. /\ phase' = "done"
      /\ shard' = [shard EXCEPT !.rows = [k \in DOMAIN @ |-> Rewritten(@[k])], !.columns = Columns]
  BY <1>1 DEF Write
<1>3. shard'.rows[i] = Rewritten(shard.rows[i])
  BY <1>2 DEF ColumnsInv, IsShard
<1>4. phase = "write"
  BY <1>1 DEF Write
<1>5. shard.rows[i].ep \in Replaced
  BY <1>3 DEF Rewritten
<1>6. QED
  BY <1>2, <1>4, <1>5

(* Episodes that a run did not select, or found incomplete, keep their rows *)
(* though their shard is rewritten as a whole, and a run that fails or is    *)
(* refused changes no row (write_all and _materialize_table of writer.py,   *)
(* _incomplete_episodes of the executor).                                   *)
THEOREM RowsOfOthersKept == ColumnsSpec => OthersKept
<1>1. ColumnsInv /\ [ColumnsNext]_columnVars =>
        \A i \in DOMAIN shard.rows :
          shard'.rows[i] # shard.rows[i] =>
            /\ phase' = "done"
            /\ shard.rows[i].ep \in selected
            /\ ~Incomplete(shard.rows[i].ep)
  <2> SUFFICES ASSUME ColumnsInv, [ColumnsNext]_columnVars,
                      NEW i \in DOMAIN shard.rows, shard'.rows[i] # shard.rows[i]
               PROVE  /\ phase' = "done"
                      /\ shard.rows[i].ep \in selected
                      /\ ~Incomplete(shard.rows[i].ep)
    OBVIOUS
  <2>1. phase = "write" /\ phase' = "done" /\ shard.rows[i].ep \in Replaced
    BY ReplacedOnly
  <2>2. QED
    BY <2>1 DEF Replaced, ColumnsInv, SelectedInv, DecidedInv
<1>2. QED
  BY <1>1, ColumnsStart, ColumnsStep, PTL DEF ColumnsSpec, OthersKept

(* The refusal of a partial run over a shard that needs migration promises   *)
(* that a full run mends it: after any run that wrote, no selection of       *)
(* episodes is refused (validate_write_scope of writer.py).                 *)
THEOREM PartialRunsAlwaysSafe == ColumnsSpec => []PartialRunsSafe
<1>1. ColumnsInv => PartialRunsSafe
  BY DEF ColumnsInv, MigratedInv, PartialRunsSafe, WriteScope
<1>2. QED
  BY <1>1, ColumnsStart, ColumnsStep, PTL DEF ColumnsSpec
-----------------------------------------------------------------------------
(* Natural numbers: the least of a set, and induction for a set.            *)

Below == {p \in Nat \X Nat : p[1] < p[2]}

LEMMA BelowWellFounded == IsWellFoundedOn(Below, Nat)
BY NatLessThanWellFounded DEF OpToRel, Below

LEMMA LeastNat ==
  ASSUME NEW S \in SUBSET Nat, S # {}
  PROVE  \E m \in S : \A i \in S : m <= i
<1>1. PICK m \in S : \A i \in S : << i, m >> \notin Below
  BY BelowWellFounded, WFMin
<1>2. \A i \in S : i \in Nat /\ m \in Nat /\ ~ (i < m)
  BY <1>1 DEF Below
<1>3. \A i \in S : m <= i
  BY <1>2
<1>4. QED
  BY <1>3

LEMMA LeastOfSome ==
  ASSUME NEW S \in SUBSET Nat, S # {}
  PROVE  Min(S) \in S /\ \A i \in S : Min(S) <= i
BY LeastNat DEF Min

LEMMA InductionOnSets ==
  \A S \in SUBSET Nat : 0 \in S /\ (\A i \in S : i + 1 \in S) => Nat \subseteq S
<1> TAKE S \in SUBSET Nat
<1> HAVE 0 \in S /\ \A i \in S : i + 1 \in S
<1> DEFINE T == Nat \ S
<1>1. ASSUME T # {} PROVE FALSE
  <2>1. PICK m \in T : \A i \in T : m <= i
    BY <1>1, LeastNat
  <2>2. m # 0 /\ m - 1 \in Nat /\ m = (m - 1) + 1 /\ ~ (m <= m - 1)
    BY <2>1
  <2>3. m - 1 \in S
    BY <2>1, <2>2
  <2>4. QED
    BY <2>1, <2>2, <2>3
<1>2. QED
  BY <1>1

-----------------------------------------------------------------------------
(* Functions that are defined by recursion over an interval.                *)

Iterates(f, S, base, step, size) ==
  /\ f \in [0 .. size -> S]
  /\ f[0] = base /\ \A i \in 1 .. size : f[i] = step[i][f[i - 1]]

LEMMA Iterated ==
  ASSUME NEW S, NEW base \in S, NEW size \in Nat, NEW step \in [1 .. size -> [S -> S]]
  PROVE  \E f : Iterates(f, S, base, step, size)
<1> DEFINE Runs(f, j) == f[0] = base /\ \A i \in 1 .. j : f[i] = step[i][f[i - 1]]
           K == {j \in Nat : j <= size => \E f \in [0 .. j -> S] : Runs(f, j)}
<1>1. 0 \in K
  <2>1. [i \in 0 .. 0 |-> base] \in [0 .. 0 -> S] /\ Runs([i \in 0 .. 0 |-> base], 0)
    OBVIOUS
  <2>2. QED
    BY <2>1
<1>2. ASSUME NEW j \in K PROVE j + 1 \in K
  <2> SUFFICES ASSUME j + 1 <= size PROVE \E f \in [0 .. j + 1 -> S] : Runs(f, j + 1)
    OBVIOUS
  <2>1. PICK f \in [0 .. j -> S] : Runs(f, j)
    OBVIOUS
  <2> DEFINE g == [i \in 0 .. j + 1 |-> IF i = j + 1 THEN step[i][f[j]] ELSE f[i]]
  <2>2. step[j + 1][f[j]] \in S
    OBVIOUS
  <2>3. g \in [0 .. j + 1 -> S]
    BY <2>2
  <2>4. g[0] = base
    BY <2>1
  <2>5. ASSUME NEW i \in 1 .. j + 1 PROVE g[i] = step[i][g[i - 1]]
    <3>1. g[i - 1] = f[i - 1]
      OBVIOUS
    <3>2. g[i] = IF i = j + 1 THEN step[i][f[j]] ELSE f[i]
      OBVIOUS
    <3> HIDE DEF g
    <3>3. QED
      BY <2>1, <3>1, <3>2
  <2> HIDE DEF g
  <2>6. QED
    BY <2>3, <2>4, <2>5
<1>3. Nat \subseteq K
  <2>1. K \in SUBSET Nat
    OBVIOUS
  <2> HIDE DEF K
  <2>2. QED
    BY <2>1, <1>1, <1>2, InductionOnSets
<1>4. QED
  BY <1>3 DEF Iterates

-----------------------------------------------------------------------------
(* Lists.                                                                   *)

IsList(s) == s \in Seq(ToSet(s))

LEMMA ListFacts ==
  ASSUME NEW s, IsList(s)
  PROVE  /\ Len(s) \in Nat /\ DOMAIN s = 1 .. Len(s) /\ s = [i \in 1 .. Len(s) |-> s[i]]
         /\ \A i \in 1 .. Len(s) : s[i] \in ToSet(s)
         /\ \A x \in ToSet(s) : \E i \in 1 .. Len(s) : s[i] = x
BY DEF IsList, ToSet

LEMMA ListOf ==
  ASSUME NEW T, NEW s \in Seq(T)
  PROVE  IsList(s) /\ ToSet(s) \subseteq T
<1>1. Len(s) \in Nat /\ DOMAIN s = 1 .. Len(s) /\ s \in [1 .. Len(s) -> T]
  OBVIOUS
<1>2. s \in [1 .. Len(s) -> ToSet(s)] /\ ToSet(s) \subseteq T
  BY <1>1 DEF ToSet
<1>3. QED
  BY <1>1, <1>2 DEF IsList

LEMMA ListMade ==
  ASSUME NEW n \in Nat, NEW f, f = [i \in 1 .. n |-> f[i]]
  PROVE  /\ IsList(f) /\ Len(f) = n /\ DOMAIN f = 1 .. n
         /\ ToSet(f) = {f[i] : i \in 1 .. n}
<1>1. DOMAIN f = 1 .. n /\ f \in [1 .. n -> ToSet(f)]
  BY DEF ToSet
<1>2. f \in Seq(ToSet(f))
  BY <1>1
<1>3. Len(f) = n
  BY <1>1, <1>2
<1>4. QED
  BY <1>1, <1>2, <1>3 DEF IsList, ToSet

LEMMA ListEmpty == IsList(<< >>) /\ Len(<< >>) = 0 /\ ToSet(<< >>) = {} /\ DOMAIN << >> = {}
<1>1. IsList(<< >>) /\ Len(<< >>) = 0 /\ DOMAIN << >> = {}
  BY DEF IsList
<1>2. QED
  BY <1>1 DEF ToSet

LEMMA ListSingle ==
  ASSUME NEW x
  PROVE  /\ IsList(<<x>>) /\ Len(<<x>>) = 1 /\ ToSet(<<x>>) = {x} /\ <<x>>[1] = x
         /\ DOMAIN <<x>> = 1 .. 1
<1>1. <<x>> \in Seq({x}) /\ Len(<<x>>) = 1 /\ <<x>>[1] = x /\ DOMAIN <<x>> = 1 .. 1
  OBVIOUS
<1>2. ToSet(<<x>>) = {x}
  BY <1>1 DEF ToSet
<1>3. QED
  BY <1>1, <1>2 DEF IsList

(* One list after another.                                                  *)
LEMMA Joined ==
  ASSUME NEW a, NEW b, IsList(a), IsList(b)
  PROVE  /\ IsList(a \o b) /\ Len(a \o b) = Len(a) + Len(b)
         /\ ToSet(a \o b) = ToSet(a) \cup ToSet(b)
         /\ \A i \in 1 .. Len(a) : (a \o b)[i] = a[i]
         /\ \A i \in 1 .. Len(b) : (a \o b)[Len(a) + i] = b[i]
         /\ \A i \in 1 .. Len(a) + Len(b) :
              (a \o b)[i] = IF i <= Len(a) THEN a[i] ELSE b[i - Len(a)]
<1> DEFINE T == ToSet(a) \cup ToSet(b)
           c == a \o b
<1>1. a \in Seq(T) /\ b \in Seq(T)
  BY DEF IsList
<1> HIDE DEF T
<1>2. /\ c \in Seq(T) /\ Len(c) = Len(a) + Len(b)
      /\ \A i \in 1 .. Len(a) + Len(b) : c[i] = IF i <= Len(a) THEN a[i] ELSE b[i - Len(a)]
  BY <1>1
<1>3. Len(a) \in Nat /\ Len(b) \in Nat /\ DOMAIN a = 1 .. Len(a) /\ DOMAIN b = 1 .. Len(b)
  BY <1>1
<1>4. IsList(c) /\ ToSet(c) \subseteq T
  BY <1>2, ListOf
<1> HIDE DEF c
<1>5. \A i \in 1 .. Len(a) : c[i] = a[i]
  BY <1>2, <1>3
<1>6. \A i \in 1 .. Len(b) : c[Len(a) + i] = b[i]
  <2> TAKE i \in 1 .. Len(b)
  <2>1. Len(a) + i \in 1 .. Len(a) + Len(b) /\ ~(Len(a) + i <= Len(a)) /\ (Len(a) + i) - Len(a) = i
    BY <1>3
  <2>2. QED
    BY <1>2, <2>1
<1>7. T \subseteq ToSet(c)
  <2>1. DOMAIN c = 1 .. Len(a) + Len(b)
    BY <1>2
  <2>2. ASSUME NEW x \in ToSet(a) PROVE x \in ToSet(c)
    <3>1. PICK i \in 1 .. Len(a) : a[i] = x
      BY <1>3 DEF ToSet
    <3>2. i \in DOMAIN c /\ c[i] = x
      BY <1>3, <1>5, <2>1, <3>1
    <3>3. QED
      BY <3>2 DEF ToSet
  <2>3. ASSUME NEW x \in ToSet(b) PROVE x \in ToSet(c)
    <3>1. PICK i \in 1 .. Len(b) : b[i] = x
      BY <1>3 DEF ToSet
    <3>2. Len(a) + i \in DOMAIN c /\ c[Len(a) + i] = x
      BY <1>3, <1>6, <2>1, <3>1
    <3>3. QED
      BY <3>2 DEF ToSet
  <2>4. QED
    BY <2>2, <2>3 DEF T
<1>8. ToSet(c) = ToSet(a) \cup ToSet(b)
  BY <1>4, <1>7 DEF T
<1>9. QED
  BY <1>2, <1>4, <1>5, <1>6, <1>8 DEF c

-----------------------------------------------------------------------------
(* What is left of a list, and where it was there.                          *)
Chosen(f, q, s, size, set) ==
  /\ f \in [1 .. Len(q) -> 1 .. size] /\ \A a, b \in 1 .. Len(q) : a < b => f[a] < f[b]
  /\ \A k \in 1 .. Len(q) : q[k] = s[f[k]] /\ q[k] \in set
  /\ \A i \in 1 .. size : s[i] \in set => \E k \in 1 .. Len(q) : f[k] = i

LEMMA ChosenLonger ==
  ASSUME NEW T, NEW s \in Seq(T), NEW set, NEW i \in 1 .. Len(s), NEW q \in Seq(T), NEW f,
         Chosen(f, q, s, i - 1, set)
  PROVE  \E g : Chosen(g, IF s[i] \in set THEN Append(q, s[i]) ELSE q, s, i, set)
<1>1. CASE s[i] \notin set
  <2>1. /\ f \in [1 .. Len(q) -> 1 .. i]
        /\ \A j \in 1 .. i : s[j] \in set => j \in 1 .. i - 1
    BY <1>1 DEF Chosen
  <2>2. Chosen(f, q, s, i, set)
    BY <2>1 DEF Chosen
  <2>3. QED
    BY <1>1, <2>2
<1>2. CASE s[i] \in set
  <2> DEFINE m == Len(q) + 1
             g == [k \in 1 .. m |-> IF k = m THEN i ELSE f[k]]
             r == Append(q, s[i])
  <2>1. /\ Len(q) \in Nat /\ Len(r) = m /\ r[m] = s[i] /\ \A k \in 1 .. Len(q) : r[k] = q[k]
        /\ m \in 1 .. m /\ \A k \in 1 .. m : k = m \/ k \in 1 .. Len(q)
    OBVIOUS
  <2>2. /\ \A k \in 1 .. Len(q) : f[k] \in 1 .. i - 1
        /\ \A a, b \in 1 .. Len(q) : a < b => f[a] < f[b]
    BY DEF Chosen
  <2>3. g[m] = i /\ \A k \in 1 .. Len(q) : k \in 1 .. m /\ g[k] = f[k]
    BY <2>1
  <2>4. g \in [1 .. m -> 1 .. i]
    BY <2>1, <2>2
  <2> HIDE DEF g, m, r
  <2>5. \A a, b \in 1 .. m : a < b => g[a] < g[b]
    <3> TAKE a, b \in 1 .. m
    <3> HAVE a < b
    <3>1. a \in 1 .. Len(q)
      BY <2>1 DEF m
    <3>2. CASE b = m
      BY <2>2, <2>3, <3>1, <3>2
    <3>3. CASE b # m
      BY <2>1, <2>2, <2>3, <3>1, <3>3
    <3>4. QED
      BY <3>2, <3>3
  <2>6. \A k \in 1 .. m : r[k] = s[g[k]] /\ r[k] \in set
    <3> TAKE k \in 1 .. m
    <3>1. CASE k = m
      BY <1>2, <2>1, <2>3, <3>1
    <3>2. CASE k # m
      BY <2>1, <2>3, <3>2 DEF Chosen
    <3>3. QED
      BY <3>1, <3>2
  <2>7. ASSUME NEW j \in 1 .. i, s[j] \in set PROVE \E k \in 1 .. m : g[k] = j
    <3>1. CASE j = i
      BY <2>1, <2>3, <3>1
    <3>2. CASE j # i
      <4>1. j \in 1 .. i - 1
        BY <3>2
      <4>2. PICK k \in 1 .. Len(q) : f[k] = j
        BY <4>1, <2>7 DEF Chosen
      <4>3. QED
        BY <2>3, <4>2
    <3>3. QED
      BY <3>1, <3>2
  <2>8. Chosen(g, r, s, i, set)
    BY <2>1, <2>4, <2>5, <2>6, <2>7 DEF Chosen
  <2>9. QED
    BY <1>2, <2>8 DEF r
<1>3. QED
  BY <1>1, <1>2

LEMMA OnlyChooses ==
  ASSUME NEW T, NEW s \in Seq(T), NEW set
  PROVE  Only(s, set) \in Seq(T) /\ \E f : Chosen(f, Only(s, set), s, Len(s), set)
<1> DEFINE size == Len(s)
           longer(i, q) == IF s[i] \in set THEN Append(q, s[i]) ELSE q
           step == [i \in 1 .. size |-> [q \in Seq(T) |-> longer(i, q)]]
           Kept(f) == f = [i \in 0 .. size |-> IF i = 0 THEN << >> ELSE longer(i, f[i - 1])]
<1>1. size \in Nat /\ << >> \in Seq(T) /\ \A i \in 1 .. size, q \in Seq(T) : longer(i, q) \in Seq(T)
  OBVIOUS
<1>2. step \in [1 .. size -> [Seq(T) -> Seq(T)]]
  BY <1>1
<1>3. PICK f : Iterates(f, Seq(T), << >>, step, size)
  <2> HIDE DEF step
  <2> QED
    BY <1>1, <1>2, Iterated
<1>4. \A i \in 1 .. size : f[i] = longer(i, f[i - 1])
  <2> TAKE i \in 1 .. size
  <2>1. i - 1 \in 0 .. size
    OBVIOUS
  <2>2. f[i - 1] \in Seq(T)
    BY <1>3, <2>1 DEF Iterates
  <2>3. f[i] = step[i][f[i - 1]]
    <3> HIDE DEF step
    <3> QED
      BY <1>3 DEF Iterates
  <2> HIDE DEF longer
  <2>4. QED
    BY <2>2, <2>3
<1>5. Kept(f)
  <2> HIDE DEF longer
  <2>1. \A i \in 0 .. size : f[i] = IF i = 0 THEN << >> ELSE longer(i, f[i - 1])
    BY <1>3, <1>4 DEF Iterates
  <2>2. f = [i \in 0 .. size |-> f[i]]
    BY <1>3 DEF Iterates
  <2>3. QED
    BY <2>1, <2>2
<1> DEFINE g == CHOOSE g : Kept(g)
<1>6. Kept(g)
  <2> HIDE DEF Kept
  <2> QED
    BY <1>5
<1>7. Only(s, set) = g[size]
  BY DEF Only
<1> HIDE DEF g
<1>8. g[0] = << >> /\ \A i \in 1 .. size : g[i] = longer(i, g[i - 1])
  <2> HIDE DEF longer
  <2> QED
    BY <1>6, <1>1
<1> DEFINE K == {i \in Nat : i <= size => g[i] \in Seq(T) /\ \E c : Chosen(c, g[i], s, i, set)}
<1>9. 0 \in K
  <2>1. Chosen(<< >>, << >>, s, 0, set)
    BY DEF Chosen
  <2>2. QED
    BY <1>1, <1>8, <2>1
<1>10. ASSUME NEW i \in K PROVE i + 1 \in K
  <2> SUFFICES ASSUME i + 1 <= size
               PROVE  g[i + 1] \in Seq(T) /\ \E c : Chosen(c, g[i + 1], s, i + 1, set)
    OBVIOUS
  <2>1. i + 1 \in 1 .. size /\ (i + 1) - 1 = i /\ g[i] \in Seq(T)
    OBVIOUS
  <2>2. PICK c : Chosen(c, g[i], s, i, set)
    OBVIOUS
  <2>3. g[i + 1] = longer(i + 1, g[i])
    <3> HIDE DEF longer
    <3> QED
      BY <1>8, <2>1
  <2>4. \E d : Chosen(d, longer(i + 1, g[i]), s, i + 1, set)
    <3> DEFINE n == i + 1
               q == g[i]
    <3>1. n \in 1 .. Len(s) /\ q \in Seq(T) /\ Chosen(c, q, s, n - 1, set)
      BY <2>1, <2>2
    <3> HIDE DEF n, q
    <3>2. \E d : Chosen(d, longer(n, q), s, n, set)
      BY <3>1, ChosenLonger
    <3>3. QED
      BY <3>2 DEF n, q
  <2>5. QED
    <3>1. longer(i + 1, g[i]) \in Seq(T)
      BY <1>1, <2>1
    <3> HIDE DEF longer
    <3>2. QED
      BY <2>3, <2>4, <3>1
<1>11. Nat \subseteq K
  <2>1. K \in SUBSET Nat
    OBVIOUS
  <2> HIDE DEF K
  <2>2. QED
    BY <2>1, <1>9, <1>10, InductionOnSets
<1>12. QED
  BY <1>1, <1>7, <1>11

(* A list comprehension with a condition.                                   *)
LEMMA OnlyGives ==
  ASSUME NEW s, IsList(s), NEW set
  PROVE  /\ IsList(Only(s, set)) /\ ToSet(Only(s, set)) = ToSet(s) \cap set
         /\ \E f : Chosen(f, Only(s, set), s, Len(s), set)
<1> DEFINE q == Only(s, set)
<1>1. q \in Seq(ToSet(s)) /\ \E f : Chosen(f, q, s, Len(s), set)
  BY OnlyChooses DEF IsList
<1> HIDE DEF q
<1>2. IsList(q) /\ ToSet(q) \subseteq ToSet(s)
  BY <1>1, ListOf
<1>3. PICK f : Chosen(f, q, s, Len(s), set)
  BY <1>1
<1>4. ToSet(q) \subseteq set
  BY <1>2, <1>3, ListFacts DEF Chosen
<1>5. ASSUME NEW x \in ToSet(s) \cap set PROVE x \in ToSet(q)
  <2>1. PICK i \in 1 .. Len(s) : s[i] = x
    BY ListFacts
  <2>2. PICK k \in 1 .. Len(q) : f[k] = i
    BY <1>3, <1>5, <2>1 DEF Chosen
  <2>3. q[k] = x
    BY <1>3, <2>1, <2>2 DEF Chosen
  <2>4. QED
    BY <1>2, <2>3, ListFacts
<1>6. ToSet(q) = ToSet(s) \cap set
  BY <1>2, <1>4, <1>5
<1>7. QED
  BY <1>2, <1>3, <1>6 DEF q

(* Different places stay different.                                         *)
LEMMA ChosenApart ==
  ASSUME NEW q, NEW s, NEW size, NEW set, NEW f, Chosen(f, q, s, size, set),
         Len(q) \in Nat, size \in Nat,
         NEW i \in 1 .. Len(q), NEW j \in 1 .. Len(q), i # j
  PROVE  f[i] \in 1 .. size /\ f[j] \in 1 .. size /\ f[i] # f[j] /\ (i < j => f[i] < f[j])
<1>1. f[i] \in 1 .. size /\ f[j] \in 1 .. size /\ (i < j => f[i] < f[j]) /\ (j < i => f[j] < f[i])
  BY DEF Chosen
<1>2. i < j \/ j < i
  OBVIOUS
<1>3. QED
  BY <1>1, <1>2
-----------------------------------------------------------------------------
(* Of a list of lists: in which of them an element was, and where there.    *)
Spread(a, b, flat, seqs, n) ==
  /\ a \in [1 .. Len(flat) -> 1 .. n] /\ b \in [1 .. Len(flat) -> Nat]
  /\ \A p \in 1 .. Len(flat) : b[p] \in 1 .. Len(seqs[a[p]]) /\ flat[p] = seqs[a[p]][b[p]]
  /\ \A p, r \in 1 .. Len(flat) : a[p] = a[r] /\ b[p] = b[r] => p = r
  /\ \A k \in 1 .. n : \A o \in 1 .. Len(seqs[k]) :
       \E p \in 1 .. Len(flat) : a[p] = k /\ b[p] = o

LEMMA SpreadLonger ==
  ASSUME NEW T, NEW n \in Nat, NEW seqs \in Seq(Seq(T)), n + 1 \in 1 .. Len(seqs),
         NEW flat \in Seq(T), NEW a, NEW b, Spread(a, b, flat, seqs, n)
  PROVE  \E c, d : Spread(c, d, flat \o seqs[n + 1], seqs, n + 1)
<1> DEFINE s == seqs[n + 1]
           m == Len(flat)
           r == flat \o s
           c == [p \in 1 .. m + Len(s) |-> IF p <= m THEN a[p] ELSE n + 1]
           d == [p \in 1 .. m + Len(s) |-> IF p <= m THEN b[p] ELSE p - m]
<1>1. s \in Seq(T)
  OBVIOUS
<1>2. /\ m \in Nat /\ Len(s) \in Nat /\ Len(r) = m + Len(s)
      /\ \A p \in 1 .. m : r[p] = flat[p]
      /\ \A p \in 1 .. m + Len(s) : ~(p <= m) => r[p] = s[p - m]
  BY <1>1
<1>3. \A k \in 1 .. n : seqs[k] \in Seq(T)
  OBVIOUS
<1>4. /\ \A p \in 1 .. m : a[p] \in 1 .. n /\ b[p] \in Nat
      /\ \A p \in 1 .. m : b[p] \in 1 .. Len(seqs[a[p]]) /\ flat[p] = seqs[a[p]][b[p]]
  BY DEF Spread
<1>5. /\ \A p \in 1 .. m : p \in 1 .. m + Len(s) /\ p <= m /\ c[p] = a[p] /\ d[p] = b[p]
      /\ \A p \in 1 .. m + Len(s) : ~(p <= m) => c[p] = n + 1 /\ d[p] = p - m /\ p - m \in 1 .. Len(s)
      /\ \A p \in 1 .. m + Len(s) : p <= m => p \in 1 .. m
  BY <1>2
<1>6. c \in [1 .. m + Len(s) -> 1 .. n + 1] /\ d \in [1 .. m + Len(s) -> Nat]
  BY <1>2, <1>4
<1> HIDE DEF c, d, r
<1>7. ASSUME NEW p \in 1 .. m + Len(s)
      PROVE  d[p] \in 1 .. Len(seqs[c[p]]) /\ r[p] = seqs[c[p]][d[p]]
  <2>1. CASE p <= m
    BY <1>2, <1>4, <1>5, <2>1
  <2>2. CASE ~(p <= m)
    BY <1>2, <1>5, <2>2
  <2>3. QED
    BY <2>1, <2>2
<1>8. ASSUME NEW p \in 1 .. m + Len(s), NEW q \in 1 .. m + Len(s), c[p] = c[q], d[p] = d[q]
      PROVE  p = q
  <2>1. CASE p <= m /\ q <= m
    BY <1>5, <1>8, <2>1 DEF Spread
  <2>2. CASE p <= m /\ ~(q <= m)
    <3>1. a[p] = n + 1 /\ a[p] \in 1 .. n
      BY <1>4, <1>5, <1>8, <2>2
    <3>2. QED
      BY <3>1
  <2>3. CASE ~(p <= m) /\ q <= m
    <3>1. a[q] = n + 1 /\ a[q] \in 1 .. n
      BY <1>4, <1>5, <1>8, <2>3
    <3>2. QED
      BY <3>1
  <2>4. CASE ~(p <= m) /\ ~(q <= m)
    <3>1. p - m = q - m
      BY <1>5, <1>8, <2>4
    <3>2. QED
      BY <1>2, <3>1
  <2>5. QED
    BY <2>1, <2>2, <2>3, <2>4
<1>9. ASSUME NEW k \in 1 .. n + 1, NEW o \in 1 .. Len(seqs[k])
      PROVE  \E p \in 1 .. m + Len(s) : c[p] = k /\ d[p] = o
  <2>1. CASE k = n + 1
    <3>1. /\ m + o \in 1 .. m + Len(s) /\ ~(m + o <= m) /\ (m + o) - m = o
      BY <1>2, <1>9, <2>1
    <3>2. QED
      BY <1>5, <2>1, <3>1
  <2>2. CASE k # n + 1
    <3>1. k \in 1 .. n
      BY <2>2
    <3>2. PICK p \in 1 .. m : a[p] = k /\ b[p] = o
      BY <1>9, <3>1 DEF Spread
    <3>3. QED
      BY <1>5, <3>2
  <2>3. QED
    BY <2>1, <2>2
<1>10. Spread(c, d, r, seqs, n + 1)
  BY <1>2, <1>6, <1>7, <1>8, <1>9 DEF Spread
<1>11. QED
  BY <1>10 DEF r

LEMMA FlattenSpreads ==
  ASSUME NEW T, NEW seqs \in Seq(Seq(T)), Len(seqs) # 0
  PROVE  FlattenSeq(seqs) \in Seq(T) /\ \E a, b : Spread(a, b, FlattenSeq(seqs), seqs, Len(seqs))
<1> DEFINE size == Len(seqs)
           less == size - 1
           step == [i \in 1 .. less |-> [q \in Seq(T) |-> q \o seqs[i + 1]]]
           Flat(f) == f = [i \in 1 .. size |-> IF i = 1 THEN seqs[i] ELSE f[i - 1] \o seqs[i]]
<1>1. size \in Nat \ {0} /\ seqs[1] \in Seq(T) /\ less \in Nat
  OBVIOUS
<1>2. step \in [1 .. less -> [Seq(T) -> Seq(T)]]
  OBVIOUS
<1>3. PICK h : Iterates(h, Seq(T), seqs[1], step, less)
  <2> HIDE DEF step, size, less
  <2> QED
    BY <1>1, <1>2, Iterated
<1> DEFINE f == [i \in 1 .. size |-> h[i - 1]]
<1>4. Flat(f)
  <2>1. ASSUME NEW i \in 1 .. size PROVE f[i] = IF i = 1 THEN seqs[i] ELSE f[i - 1] \o seqs[i]
    <3>1. CASE i = 1
      BY <1>3, <3>1 DEF Iterates
    <3>2. CASE i # 1
      <4> DEFINE j == i - 1
      <4>1. j \in 1 .. size /\ j \in 1 .. less /\ j - 1 \in 0 .. less /\ j + 1 = i
        BY <3>2
      <4>2. h[j - 1] \in Seq(T)
        BY <1>3, <4>1 DEF Iterates
      <4>3. step[j][h[j - 1]] = h[j - 1] \o seqs[i]
        BY <4>1, <4>2
      <4>4. f[i] = h[j] /\ f[j] = h[j - 1]
        BY <4>1
      <4> HIDE DEF step, size, less, j, f
      <4>5. h[j] = step[j][h[j - 1]]
        BY <1>3, <4>1 DEF Iterates
      <4>6. QED
        BY <3>2, <4>3, <4>4, <4>5 DEF j
    <3>3. QED
      BY <3>1, <3>2
  <2> HIDE DEF size
  <2>2. QED
    BY <2>1
<1> HIDE DEF f
<1> DEFINE g == CHOOSE g : Flat(g)
<1>5. Flat(g)
  <2> HIDE DEF Flat
  <2> QED
    BY <1>4
<1>6. FlattenSeq(seqs) = g[size]
  BY DEF FlattenSeq
<1> HIDE DEF g
<1>7. /\ g[1] = seqs[1]
      /\ \A i \in 1 .. size : i # 1 => g[i] = g[i - 1] \o seqs[i]
  <2>1. \A i \in 1 .. size : g[i] = IF i = 1 THEN seqs[i] ELSE g[i - 1] \o seqs[i]
    BY <1>5
  <2>2. 1 \in 1 .. size
    BY <1>1
  <2>3. QED
    BY <2>1, <2>2
<1> DEFINE Done(i) == g[i + 1] \in Seq(T) /\ \E a, b : Spread(a, b, g[i + 1], seqs, i + 1)
           K == {i \in Nat : i + 1 <= size => Done(i)}
<1>8. 0 \in K
  <2> DEFINE s == seqs[1]
             a == [p \in 1 .. Len(s) |-> 1]
             b == [p \in 1 .. Len(s) |-> p]
  <2>1. s \in Seq(T) /\ Len(s) \in Nat /\ \A k \in 1 .. 1 : k = 1
    BY <1>1
  <2>2. Spread(a, b, s, seqs, 1)
    BY <2>1 DEF Spread
  <2>3. g[0 + 1] = s /\ 0 + 1 = 1
    BY <1>7
  <2> HIDE DEF s, a, b
  <2>4. Done(0)
    BY <2>1, <2>2, <2>3
  <2>5. QED
    BY <2>4
<1>9. ASSUME NEW i \in K PROVE i + 1 \in K
  <2> SUFFICES ASSUME (i + 1) + 1 <= size PROVE Done(i + 1)
    OBVIOUS
  <2> DEFINE n == i + 1
  <2>1. n \in Nat /\ n + 1 \in 1 .. Len(seqs) /\ n + 1 # 1 /\ (n + 1) - 1 = n /\ n <= size
    BY <1>1
  <2>2. Done(i)
    BY <1>1
  <2>3. g[n + 1] = g[n] \o seqs[n + 1]
    BY <1>7, <2>1
  <2>4. g[n] \in Seq(T) /\ seqs[n + 1] \in Seq(T)
    BY <2>1, <2>2
  <2>5. PICK a, b : Spread(a, b, g[n], seqs, n)
    BY <2>2
  <2> HIDE DEF n
  <2>6. \E c, d : Spread(c, d, g[n] \o seqs[n + 1], seqs, n + 1)
    BY <2>1, <2>4, <2>5, SpreadLonger
  <2>7. g[n + 1] \in Seq(T)
    BY <2>3, <2>4
  <2>8. QED
    BY <2>3, <2>6, <2>7 DEF n
<1>10. Nat \subseteq K
  <2>1. K \in SUBSET Nat
    OBVIOUS
  <2> HIDE DEF K
  <2>2. QED
    BY <2>1, <1>8, <1>9, InductionOnSets
<1>11. less \in K /\ less + 1 = size
  <2> HIDE DEF K
  <2> QED
    BY <1>1, <1>10
<1>12. QED
  BY <1>6, <1>11

(* Lists one after another, whatever they hold.                             *)
LEMMA FlattenGives ==
  ASSUME NEW n \in Nat, NEW seqs, seqs = [k \in 1 .. n |-> seqs[k]],
         \A k \in 1 .. n : IsList(seqs[k])
  PROVE  /\ IsList(FlattenSeq(seqs))
         /\ \E a, b : Spread(a, b, FlattenSeq(seqs), seqs, n)
<1>1. Len(seqs) = n
  BY ListMade
<1>2. CASE n = 0
  <2>1. FlattenSeq(seqs) = seqs
    BY <1>1, <1>2 DEF FlattenSeq
  <2>2. IsList(seqs)
    BY ListMade
  <2>3. Spread(seqs, seqs, seqs, seqs, 0)
    <3>1. seqs \in [1 .. 0 -> 1 .. 0] /\ seqs \in [1 .. 0 -> Nat] /\ 1 .. 0 = {}
      BY <1>2
    <3>2. QED
      BY <1>1, <1>2, <3>1 DEF Spread
  <2>4. QED
    BY <1>2, <2>1, <2>2, <2>3
<1>3. CASE n # 0
  <2> DEFINE T == UNION {ToSet(seqs[k]) : k \in 1 .. n}
  <2>1. \A k \in 1 .. n : seqs[k] \in Seq(T)
    <3> TAKE k \in 1 .. n
    <3>1. ToSet(seqs[k]) \subseteq T
      OBVIOUS
    <3> HIDE DEF T
    <3>2. QED
      BY <3>1 DEF IsList
  <2> HIDE DEF T
  <2>2. seqs \in Seq(Seq(T))
    BY <2>1
  <2>3. FlattenSeq(seqs) \in Seq(T) /\ \E a, b : Spread(a, b, FlattenSeq(seqs), seqs, n)
    BY <1>1, <1>3, <2>2, FlattenSpreads
  <2>4. QED
    BY <2>3, ListOf
<1>4. QED
  BY <1>2, <1>3

-----------------------------------------------------------------------------
(* Sorting.                                                                 *)
Permutes(f, n) ==
  /\ f \in [1 .. n -> 1 .. n]
  /\ \A i, j \in 1 .. n : f[i] = f[j] => i = j
  /\ \A i \in 1 .. n : \E k \in 1 .. n : f[k] = i

(* How a list was sorted: where each element was, and that no key falls.    *)
SortedBy(f, q, s, key) ==
  /\ Permutes(f, Len(s)) /\ Len(q) = Len(s)
  /\ \A k \in 1 .. Len(s) : q[k] = s[f[k]]
  /\ \A j, k \in 1 .. Len(s) : j < k => key[f[j]] <= key[f[k]]

LEMMA FiniteInterval ==
  ASSUME NEW n \in Nat
  PROVE  IsFiniteSet(1 .. n) /\ Cardinality(1 .. n) = n
BY FS_Interval

LEMMA PlacesApart ==
  ASSUME NEW n \in Nat, NEW key \in [1 .. n -> Int]
  PROVE  /\ \A i \in 1 .. n : Place(key, i) \in 1 .. n
         /\ \A i, j \in 1 .. n : key[i] < key[j] => Place(key, i) < Place(key, j)
         /\ \A i, j \in 1 .. n : Place(key, i) = Place(key, j) => i = j
<1> DEFINE Before(i) == {j \in 1 .. n : key[j] < key[i]} \cup {j \in 1 .. i : key[j] = key[i]}
<1>1. \A i \in 1 .. n : Place(key, i) = Cardinality(Before(i))
  BY DEF Place
<1>2. \A i \in 1 .. n : key[i] \in Int
  OBVIOUS
<1>3. ASSUME NEW i \in 1 .. n PROVE Before(i) \in SUBSET (1 .. n) /\ i \in Before(i)
  OBVIOUS
<1>4. ASSUME NEW i \in 1 .. n, NEW j \in 1 .. n, key[i] < key[j] \/ (key[i] = key[j] /\ i < j)
      PROVE  Before(i) \subseteq Before(j) /\ j \notin Before(i)
  <2>1. ASSUME NEW k \in Before(i) PROVE k \in Before(j)
    <3>1. k \in 1 .. n /\ key[k] \in Int /\ (key[k] < key[i] \/ (key[k] = key[i] /\ k <= i))
      BY <1>2
    <3>2. key[k] < key[j] \/ (key[k] = key[j] /\ k <= j)
      BY <1>2, <1>4, <3>1
    <3>3. k <= j => k \in 1 .. j
      BY <3>1
    <3>4. QED
      BY <3>1, <3>2, <3>3
  <2>2. j \notin Before(i)
    BY <1>2, <1>4
  <2>3. QED
    BY <2>1, <2>2
<1> HIDE DEF Before
<1>5. \A i \in 1 .. n : IsFiniteSet(Before(i)) /\ Cardinality(Before(i)) \in 1 .. n
  <2> TAKE i \in 1 .. n
  <2>1. IsFiniteSet(Before(i)) /\ Cardinality(Before(i)) <= n
    BY <1>3, FiniteInterval, FS_Subset
  <2>2. Cardinality(Before(i)) \in Nat /\ Cardinality(Before(i)) # 0
    BY <1>3, <2>1, FS_CardinalityType, FS_EmptySet
  <2>3. QED
    BY <2>1, <2>2
<1>6. ASSUME NEW i \in 1 .. n, NEW j \in 1 .. n, key[i] < key[j] \/ (key[i] = key[j] /\ i < j)
      PROVE  Place(key, i) < Place(key, j)
  <2>1. Before(i) \in SUBSET Before(j) /\ Before(i) # Before(j)
    BY <1>3, <1>4, <1>6
  <2>2. Cardinality(Before(i)) <= Cardinality(Before(j)) /\ Cardinality(Before(i)) # Cardinality(Before(j))
    BY <1>5, <2>1, FS_Subset
  <2>3. QED
    BY <1>1, <1>5, <2>2
<1>7. ASSUME NEW i \in 1 .. n, NEW j \in 1 .. n, Place(key, i) = Place(key, j) PROVE i = j
  <2>1. Place(key, i) \in Int
    BY <1>1, <1>5
  <2>2. /\ ~(key[i] < key[j] \/ (key[i] = key[j] /\ i < j))
        /\ ~(key[j] < key[i] \/ (key[j] = key[i] /\ j < i))
    BY <1>6, <1>7, <2>1
  <2>3. QED
    BY <1>2, <2>2
<1>8. QED
  BY <1>1, <1>5, <1>6, <1>7

LEMMA SortedIs ==
  ASSUME NEW s, IsList(s), NEW key \in [1 .. Len(s) -> Int]
  PROVE  /\ IsList(Sorted(s, key)) /\ ToSet(Sorted(s, key)) = ToSet(s)
         /\ \E f : SortedBy(f, Sorted(s, key), s, key)
<1> DEFINE n == Len(s)
           p == [i \in 1 .. n |-> Place(key, i)]
           f == [k \in 1 .. n |-> CHOOSE i \in 1 .. n : Place(key, i) = k]
           q == Sorted(s, key)
<1>1. n \in Nat /\ DOMAIN s = 1 .. n
  BY ListFacts
<1>2. /\ \A i \in 1 .. n : Place(key, i) \in 1 .. n
      /\ \A i, j \in 1 .. n : key[i] < key[j] => Place(key, i) < Place(key, j)
      /\ \A i, j \in 1 .. n : Place(key, i) = Place(key, j) => i = j
  BY <1>1, PlacesApart
<1>3. p \in Surjection(1 .. n, 1 .. n)
  <2>1. p \in Injection(1 .. n, 1 .. n)
    BY <1>2 DEF Injection, IsInjective
  <2> HIDE DEF p
  <2>2. QED
    BY <1>1, <2>1, FiniteInterval, FS_Injection
<1>4. \A k \in 1 .. n : \E i \in 1 .. n : Place(key, i) = k
  BY <1>3 DEF Surjection
<1>5. \A k \in 1 .. n : f[k] \in 1 .. n /\ Place(key, f[k]) = k
  <2> TAKE k \in 1 .. n
  <2> DEFINE i == CHOOSE i \in 1 .. n : Place(key, i) = k
  <2>1. i \in 1 .. n /\ Place(key, i) = k
    BY <1>4
  <2>2. QED
    BY <2>1
<1>6. q = [k \in 1 .. n |-> s[f[k]]]
  BY <1>1 DEF Sorted
<1>7. f = [k \in 1 .. n |-> f[k]]
  OBVIOUS
<1> HIDE DEF f, q, p
<1>8. Permutes(f, n)
  <2>1. f \in [1 .. n -> 1 .. n]
    BY <1>5, <1>7
  <2>2. \A i, j \in 1 .. n : f[i] = f[j] => i = j
    BY <1>5
  <2>3. ASSUME NEW i \in 1 .. n PROVE \E k \in 1 .. n : f[k] = i
    <3>1. Place(key, i) \in 1 .. n
      BY <1>2
    <3>2. Place(key, f[Place(key, i)]) = Place(key, i)
      BY <1>5, <3>1
    <3>3. f[Place(key, i)] = i
      BY <1>2, <1>5, <3>1, <3>2
    <3>4. QED
      BY <3>1, <3>3
  <2>4. QED
    BY <2>1, <2>2, <2>3 DEF Permutes
<1>9. ASSUME NEW j \in 1 .. n, NEW k \in 1 .. n, j < k PROVE key[f[j]] <= key[f[k]]
  <2> DEFINE u == f[j]
             v == f[k]
  <2>1. u \in 1 .. n /\ v \in 1 .. n /\ Place(key, u) = j /\ Place(key, v) = k
    BY <1>5
  <2> HIDE DEF u, v
  <2>2. key[v] < key[u] => Place(key, v) < Place(key, u)
    BY <1>2, <2>1
  <2>3. ~(key[v] < key[u])
    <3>1. j \in Int /\ k \in Int
      BY <1>1
    <3>2. QED
      BY <1>9, <2>1, <2>2, <3>1
  <2>4. key[v] \in Int /\ key[u] \in Int
    BY <2>1
  <2>5. key[u] <= key[v]
    BY <2>3, <2>4
  <2>6. QED
    BY <2>5 DEF u, v
<1>10. IsList(q) /\ Len(q) = n /\ ToSet(q) = {q[k] : k \in 1 .. n}
  <2>1. q = [k \in 1 .. n |-> q[k]]
    BY <1>6
  <2>2. QED
    BY <1>1, <2>1, ListMade
<1>11. \A k \in 1 .. n : q[k] = s[f[k]]
  BY <1>6
<1>12. ToSet(q) = ToSet(s)
  <2>1. ToSet(s) = {s[i] : i \in 1 .. n}
    BY <1>1 DEF ToSet
  <2>2. \A k \in 1 .. n : f[k] \in 1 .. n
    BY <1>5
  <2>3. \A i \in 1 .. n : \E k \in 1 .. n : f[k] = i
    BY <1>8 DEF Permutes
  <2>4. ToSet(q) \subseteq ToSet(s)
    BY <1>10, <1>11, <2>1, <2>2
  <2>5. ASSUME NEW x \in ToSet(s) PROVE x \in ToSet(q)
    <3>1. PICK i \in 1 .. n : s[i] = x
      BY <2>1
    <3>2. PICK k \in 1 .. n : f[k] = i
      BY <2>3
    <3>3. q[k] = x
      BY <1>11, <3>1, <3>2
    <3>4. QED
      BY <1>10, <3>3
  <2>6. QED
    BY <2>4, <2>5
<1>13. SortedBy(f, q, s, key)
  BY <1>8, <1>9, <1>10, <1>11 DEF SortedBy
<1>14. QED
  BY <1>10, <1>12, <1>13 DEF q

(* Each row as often.                                                       *)
LEMMA PermutedSame ==
  ASSUME NEW a, NEW b, NEW f, NEW n \in Nat, IsList(a), IsList(b), Len(a) = n, Len(b) = n,
         Permutes(f, n), \A k \in 1 .. n : a[k] = b[f[k]]
  PROVE  SameRows(a, b)
<1> DEFINE At1(s, r) == {i \in DOMAIN s : s[i] = r}
<1>1. DOMAIN a = 1 .. n /\ DOMAIN b = 1 .. n
  BY ListFacts
<1>2. ASSUME NEW r PROVE Cardinality(At1(a, r)) = Cardinality(At1(b, r))
  <2> DEFINE g == [k \in At1(a, r) |-> f[k]]
             A == At1(a, r)
             B == At1(b, r)
  <2>1. /\ \A k \in A : k \in 1 .. n /\ a[k] = r
        /\ \A k \in B : k \in 1 .. n /\ b[k] = r
        /\ \A k \in 1 .. n : a[k] = r => k \in A
        /\ \A k \in 1 .. n : b[k] = r => k \in B
    BY <1>1
  <2>2. /\ g = [k \in A |-> f[k]] /\ IsFiniteSet(A)
    BY <1>1, FiniteInterval, FS_Subset
  <2> HIDE DEF A, B, g
  <2>3. \A k \in A : f[k] \in B
    BY <2>1 DEF Permutes
  <2>4. g \in Injection(A, B)
    <3>1. g \in [A -> B]
      BY <2>2, <2>3
    <3>2. \A i, j \in A : g[i] = g[j] => i = j
      BY <2>1, <2>2 DEF Permutes
    <3>3. QED
      BY <3>1, <3>2 DEF Injection, IsInjective
  <2>5. g \in Surjection(A, B)
    <3>1. ASSUME NEW i \in B PROVE \E k \in A : g[k] = i
      <4>1. PICK k \in 1 .. n : f[k] = i
        BY <2>1 DEF Permutes
      <4>2. k \in A
        BY <2>1, <4>1
      <4>3. QED
        BY <2>2, <4>1, <4>2
    <3>2. QED
      BY <2>2, <2>3, <3>1 DEF Surjection
  <2>6. ExistsBijection(A, B)
    BY <2>4, <2>5 DEF ExistsBijection, Bijection
  <2>7. QED
    BY <2>2, <2>6, FS_Bijection DEF A, B
<1>3. QED
  BY <1>2 DEF SameRows
-----------------------------------------------------------------------------
(* Lists in strictly increasing order.                                      *)
Rises(key, n) == key \in [1 .. n -> Int] /\ \A i, j \in 1 .. n : i < j => key[i] < key[j]

LEMMA RisesAbove ==
  ASSUME NEW n \in Nat, NEW f \in [1 .. n -> Nat \ {0}], \A i, j \in 1 .. n : i < j => f[i] < f[j]
  PROVE  \A i \in 1 .. n : i <= f[i]
<1> DEFINE K == {i \in Nat : i + 1 <= n => i + 1 <= f[i + 1]}
<1>1. 0 \in K
  OBVIOUS
<1>2. ASSUME NEW i \in K PROVE i + 1 \in K
  <2> SUFFICES ASSUME (i + 1) + 1 <= n PROVE (i + 1) + 1 <= f[(i + 1) + 1]
    OBVIOUS
  <2> DEFINE a == i + 1
             b == a + 1
  <2>1. a \in 1 .. n /\ b \in 1 .. n /\ a < b /\ a <= f[a] /\ b = a + 1
    OBVIOUS
  <2> HIDE DEF a, b
  <2>2. f[a] < f[b] /\ f[a] \in Int /\ f[b] \in Int
    BY <2>1
  <2>3. b <= f[b]
    BY <2>1, <2>2
  <2>4. QED
    BY <2>3 DEF a, b
<1>3. Nat \subseteq K
  <2>1. K \in SUBSET Nat
    OBVIOUS
  <2> HIDE DEF K
  <2>2. QED
    BY <2>1, <1>1, <1>2, InductionOnSets
<1>4. ASSUME NEW i \in 1 .. n PROVE i <= f[i]
  <2>1. i - 1 \in K /\ (i - 1) + 1 = i
    <3> HIDE DEF K
    <3> QED
      BY <1>3
  <2>2. QED
    BY <2>1
<1>5. QED
  BY <1>4

(* Two such lists with the same elements and keys are one list.             *)
LEMMA RisingSame ==
  ASSUME NEW p, NEW q, IsList(p), IsList(q), NEW kp, NEW kq,
         Rises(kp, Len(p)), Rises(kq, Len(q)),
         \A i \in 1 .. Len(p) : \E j \in 1 .. Len(q) : p[i] = q[j] /\ kp[i] = kq[j],
         \A j \in 1 .. Len(q) : \E i \in 1 .. Len(p) : p[i] = q[j] /\ kp[i] = kq[j]
  PROVE  p = q
<1> DEFINE m == Len(p)
           n == Len(q)
           f == [i \in 1 .. m |-> CHOOSE j \in 1 .. n : p[i] = q[j] /\ kp[i] = kq[j]]
           g == [j \in 1 .. n |-> CHOOSE i \in 1 .. m : p[i] = q[j] /\ kp[i] = kq[j]]
<1>1. /\ m \in Nat /\ n \in Nat
      /\ p = [i \in 1 .. m |-> p[i]] /\ q = [i \in 1 .. n |-> q[i]]
  BY ListFacts
<1>2. \A i \in 1 .. m : f[i] \in 1 .. n /\ p[i] = q[f[i]] /\ kp[i] = kq[f[i]]
  <2> TAKE i \in 1 .. m
  <2> DEFINE c == CHOOSE j \in 1 .. n : p[i] = q[j] /\ kp[i] = kq[j]
  <2>1. c \in 1 .. n /\ p[i] = q[c] /\ kp[i] = kq[c]
    OBVIOUS
  <2>2. f[i] = c
    OBVIOUS
  <2> HIDE DEF c, f
  <2>3. QED
    BY <2>1, <2>2
<1>3. \A j \in 1 .. n : g[j] \in 1 .. m /\ p[g[j]] = q[j] /\ kp[g[j]] = kq[j]
  <2> TAKE j \in 1 .. n
  <2> DEFINE c == CHOOSE i \in 1 .. m : p[i] = q[j] /\ kp[i] = kq[j]
  <2>1. c \in 1 .. m /\ p[c] = q[j] /\ kp[c] = kq[j]
    OBVIOUS
  <2>2. g[j] = c
    OBVIOUS
  <2> HIDE DEF c, g
  <2>3. QED
    BY <2>1, <2>2
<1>4. f = [i \in 1 .. m |-> f[i]] /\ g = [j \in 1 .. n |-> g[j]]
  <2>1. f = [i \in 1 .. m |-> f[i]]
    OBVIOUS
  <2>2. g = [j \in 1 .. n |-> g[j]]
    OBVIOUS
  <2> HIDE DEF f, g
  <2>3. QED
    BY <2>1, <2>2
<1> HIDE DEF f, g
<1>5. /\ \A i \in 1 .. m : kp[i] \in Int
      /\ \A j \in 1 .. n : kq[j] \in Int
      /\ \A i, j \in 1 .. m : i < j => kp[i] < kp[j]
      /\ \A i, j \in 1 .. n : i < j => kq[i] < kq[j]
  BY DEF Rises
<1> HIDE DEF m, n
<1>6. \A i, j \in 1 .. m : i < j => f[i] < f[j]
  <2> TAKE i, j \in 1 .. m
  <2> HAVE i < j
  <2> DEFINE a == f[i]
             b == f[j]
  <2>1. a \in 1 .. n /\ b \in 1 .. n /\ kq[a] < kq[b]
    BY <1>2, <1>5
  <2> HIDE DEF a, b
  <2>2. ~(b < a) /\ a # b
    BY <1>5, <2>1
  <2>3. a < b
    BY <1>1, <2>1, <2>2
  <2>4. QED
    BY <2>3 DEF a, b
<1>7. \A i, j \in 1 .. n : i < j => g[i] < g[j]
  <2> TAKE i, j \in 1 .. n
  <2> HAVE i < j
  <2> DEFINE a == g[i]
             b == g[j]
  <2>1. a \in 1 .. m /\ b \in 1 .. m /\ kp[a] < kp[b]
    BY <1>3, <1>5
  <2> HIDE DEF a, b
  <2>2. ~(b < a) /\ a # b
    BY <1>5, <2>1
  <2>3. a < b
    BY <1>1, <2>1, <2>2
  <2>4. QED
    BY <2>3 DEF a, b
<1>8. f \in [1 .. m -> Nat \ {0}] /\ g \in [1 .. n -> Nat \ {0}]
  <2>1. 1 .. n \subseteq Nat \ {0} /\ 1 .. m \subseteq Nat \ {0}
    BY <1>1
  <2>2. (\A i \in 1 .. m : f[i] \in Nat \ {0}) /\ (\A j \in 1 .. n : g[j] \in Nat \ {0})
    BY <1>2, <1>3, <2>1
  <2>3. QED
    BY <1>4, <2>2
<1>9. \A i \in 1 .. m : i <= f[i]
  BY <1>1, <1>6, <1>8, RisesAbove
<1>10. \A j \in 1 .. n : j <= g[j]
  BY <1>1, <1>7, <1>8, RisesAbove
<1>11. m <= n
  <2>1. CASE m = 0
    BY <1>1, <2>1
  <2>2. CASE m # 0
    <3>1. m \in 1 .. m
      BY <1>1, <2>2
    <3>2. QED
      <4>1. f[m] \in 1 .. n /\ m <= f[m]
        BY <1>2, <1>9, <3>1
      <4>2. QED
        BY <1>1, <4>1
  <2>3. QED
    BY <2>1, <2>2
<1>12. n <= m
  <2>1. CASE n = 0
    BY <1>1, <2>1
  <2>2. CASE n # 0
    <3>1. n \in 1 .. n
      BY <1>1, <2>2
    <3>2. QED
      <4>1. g[n] \in 1 .. m /\ n <= g[n]
        BY <1>3, <1>10, <3>1
      <4>2. QED
        BY <1>1, <4>1
  <2>3. QED
    BY <2>1, <2>2
<1>13. m = n
  BY <1>1, <1>11, <1>12
<1>14. \A i \in 1 .. m : p[i] = q[i]
  <2> TAKE i \in 1 .. m
  <2> DEFINE a == f[i]
  <2>1. a \in 1 .. n /\ a \in 1 .. m /\ p[i] = q[a] /\ kp[i] = kq[a] /\ i <= a
    BY <1>2, <1>9, <1>13
  <2> HIDE DEF a
  <2> DEFINE b == g[a]
  <2>2. b \in 1 .. m /\ kp[b] = kq[a] /\ a <= b
    BY <1>3, <1>10, <2>1
  <2> HIDE DEF b
  <2>3. ~(i < b)
    BY <1>5, <2>1, <2>2
  <2>4. a = i
    <3>1. i \in Int /\ a \in Int /\ b \in Int
      BY <1>1, <2>1, <2>2
    <3>2. QED
      BY <2>1, <2>2, <2>3, <3>1
  <2>5. QED
    BY <2>1, <2>4
<1>15. QED
  <2>1. [i \in 1 .. m |-> p[i]] = [i \in 1 .. n |-> q[i]]
    BY <1>13, <1>14
  <2>2. QED
    BY <1>1, <2>1
-----------------------------------------------------------------------------
(* Frames and the nearest of them.                                          *)
Clock(times) ==
  /\ times \in Seq(Nat) /\ Len(times) # 0
  /\ \A i, j \in 1 .. Len(times) : i < j => times[i] < times[j]

LEMMA ClockFacts ==
  ASSUME NEW times, Clock(times)
  PROVE  /\ IsList(times) /\ Len(times) \in Nat \ {0} /\ DOMAIN times = 1 .. Len(times)
         /\ 1 \in 1 .. Len(times) /\ Head(times) = times[1] /\ Head(times) \in ToSet(times)
         /\ ToSet(times) \subseteq Nat
         /\ \A i \in 1 .. Len(times) : times[i] \in Nat /\ times[1] <= times[i]
         /\ \A i, j \in 1 .. Len(times) : i # j => times[i] # times[j]
<1>1. /\ times \in Seq(Nat) /\ Len(times) \in Nat \ {0} /\ DOMAIN times = 1 .. Len(times)
      /\ 1 \in 1 .. Len(times) /\ Head(times) = times[1]
      /\ \A i \in 1 .. Len(times) : times[i] \in Nat
  BY DEF Clock
<1>2. IsList(times) /\ ToSet(times) \subseteq Nat
  BY <1>1, ListOf
<1>3. \A i \in 1 .. Len(times) : times[1] <= times[i]
  BY <1>1 DEF Clock
<1>4. ASSUME NEW i \in 1 .. Len(times), NEW j \in 1 .. Len(times), i # j PROVE times[i] # times[j]
  <2>1. i < j \/ j < i
    BY <1>1, <1>4
  <2>2. times[i] \in Nat /\ times[j] \in Nat
    BY <1>1
  <2>3. QED
    BY <2>1, <2>2 DEF Clock
<1>5. times[1] \in ToSet(times)
  BY <1>1, <1>2, ListFacts
<1>6. QED
  BY <1>1, <1>2, <1>3, <1>4, <1>5

LEMMA Nearest ==
  ASSUME NEW times, Clock(times), NEW t \in Int
  PROVE  /\ NearestIndex(times, t) \in 1 .. Len(times)
         /\ Snap(times, t) \in ToSet(times)
         /\ t \in ToSet(times) => Snap(times, t) = t
<1> DEFINE n == Len(times)
           D == {Distance(times[i], t) : i \in DOMAIN times}
           best == Min(D)
           I == {i \in DOMAIN times : Distance(times[i], t) = best}
           c == NearestIndex(times, t)
<1>1. /\ n \in Nat \ {0} /\ DOMAIN times = 1 .. n /\ 1 \in 1 .. n
      /\ \A i \in 1 .. n : times[i] \in Nat
  BY ClockFacts
<1>2. \A i \in 1 .. n : Distance(times[i], t) \in Nat /\ (Distance(times[i], t) <= 0 => times[i] = t)
  <2> TAKE i \in 1 .. n
  <2>1. times[i] \in Int
    BY <1>1
  <2>2. QED
    BY <2>1 DEF Distance
<1>3. D \in SUBSET Nat /\ D # {}
  BY <1>1, <1>2
<1>4. best \in D /\ \A d \in D : best <= d
  <2> HIDE DEF D
  <2> QED
    BY <1>3, LeastOfSome
<1>5. I \in SUBSET Nat /\ I # {} /\ I \subseteq 1 .. n
  <2> HIDE DEF best
  <2>1. PICK i \in 1 .. n : Distance(times[i], t) = best
    BY <1>1, <1>4
  <2>2. i \in I
    BY <1>1, <2>1
  <2>3. QED
    BY <1>1, <2>2
<1>6. Min(I) \in I
  <2> HIDE DEF I
  <2> QED
    BY <1>5, LeastOfSome
<1>7. c = Min(I)
  BY DEF NearestIndex
<1> HIDE DEF c
<1>8. c \in 1 .. n /\ Distance(times[c], t) = best
  BY <1>1, <1>6, <1>7
<1>9. Snap(times, t) = times[c]
  BY DEF Snap, c
<1>10. times[c] \in ToSet(times)
  BY <1>8, ClockFacts, ListFacts
<1>11. ASSUME t \in ToSet(times) PROVE times[c] = t
  <2>1. PICK i \in 1 .. n : times[i] = t
    BY <1>11, ClockFacts, ListFacts
  <2>2. Distance(times[i], t) = 0
    BY <1>1, <2>1 DEF Distance
  <2>3. 0 \in D
    BY <1>1, <2>2
  <2>4. best <= 0
    BY <1>4, <2>3
  <2>5. QED
    BY <1>2, <1>8, <2>4
<1>12. QED
  BY <1>8, <1>9, <1>10, <1>11 DEF c

(* No element twice, and none lost.                                         *)
LEMMA DistinctIs ==
  ASSUME NEW s, IsList(s)
  PROVE  /\ IsList(Distinct(s)) /\ ToSet(Distinct(s)) = ToSet(s)
         /\ \A i, j \in 1 .. Len(Distinct(s)) : i # j => Distinct(s)[i] # Distinct(s)[j]
<1> DEFINE n == Len(s)
           ids == [i \in DOMAIN s |-> i]
           new == {i \in DOMAIN s : \A j \in 1 .. i - 1 : s[j] # s[i]}
           first == Only(ids, new)
           q == Distinct(s)
<1>1. n \in Nat /\ DOMAIN s = 1 .. n /\ \A x \in ToSet(s) : \E i \in 1 .. n : s[i] = x
  BY ListFacts
<1>2. IsList(ids) /\ Len(ids) = n /\ ToSet(ids) = 1 .. n /\ \A i \in 1 .. n : ids[i] = i
  <2>1. ids = [i \in 1 .. n |-> ids[i]] /\ \A i \in 1 .. n : ids[i] = i
    BY <1>1
  <2> HIDE DEF ids
  <2>2. IsList(ids) /\ Len(ids) = n /\ ToSet(ids) = {ids[i] : i \in 1 .. n}
    BY <1>1, <2>1, ListMade
  <2>3. QED
    BY <2>1, <2>2
<1>3. q = [k \in DOMAIN first |-> s[first[k]]]
  BY DEF Distinct
<1>4. \A i \in new : i \in 1 .. n /\ \A j \in 1 .. i - 1 : s[j] # s[i]
  BY <1>1
<1>5. ASSUME NEW x \in ToSet(s) PROVE \E i \in new : s[i] = x
  <2> DEFINE S == {i \in 1 .. n : s[i] = x}
  <2>1. S \in SUBSET Nat /\ S # {}
    BY <1>1
  <2>2. PICK i \in S : \A j \in S : i <= j
    BY <2>1, LeastNat
  <2>3. \A j \in 1 .. i - 1 : j \in 1 .. n /\ ~(i <= j)
    BY <1>1
  <2>4. i \in new
    BY <1>1, <2>2, <2>3
  <2>5. QED
    BY <2>4
<1> HIDE DEF ids, new, first, q
<1>6. /\ IsList(first) /\ ToSet(first) = ToSet(ids) \cap new
      /\ \E f : Chosen(f, first, ids, n, new)
  BY <1>2, OnlyGives DEF first
<1>7. PICK f : Chosen(f, first, ids, n, new)
  BY <1>6
<1> DEFINE m == Len(first)
<1>8. /\ m \in Nat /\ DOMAIN first = 1 .. m
      /\ \A k \in 1 .. m : first[k] \in new
      /\ \A x \in new : \E k \in 1 .. m : first[k] = x
  BY <1>2, <1>4, <1>6, ListFacts
<1>9. \A i, j \in 1 .. m : i # j => first[i] # first[j]
  <2>1. \A k \in 1 .. m : first[k] = f[k]
    BY <1>2, <1>7 DEF Chosen
  <2>2. \A i, j \in 1 .. m : i # j => f[i] # f[j]
    BY <1>1, <1>7, <1>8, ChosenApart
  <2>3. QED
    BY <2>1, <2>2
<1>10. q = [k \in 1 .. m |-> q[k]] /\ \A k \in 1 .. m : q[k] = s[first[k]]
  BY <1>3, <1>8
<1>11. IsList(q) /\ Len(q) = m /\ ToSet(q) = {q[k] : k \in 1 .. m}
  BY <1>8, <1>10, ListMade
<1>12. \A k \in 1 .. m : s[first[k]] \in ToSet(s)
  BY <1>4, <1>8, ListFacts
<1>13. ToSet(q) = ToSet(s)
  <2>1. ToSet(q) \subseteq ToSet(s)
    BY <1>10, <1>11, <1>12
  <2>2. ASSUME NEW x \in ToSet(s) PROVE x \in ToSet(q)
    <3>1. PICK i \in new : s[i] = x
      BY <1>5
    <3>2. PICK k \in 1 .. m : first[k] = i
      BY <1>8
    <3>3. QED
      BY <1>10, <1>11, <3>1, <3>2
  <2>3. QED
    BY <2>1, <2>2
<1>14. ASSUME NEW i \in 1 .. m, NEW j \in 1 .. m, i # j PROVE q[i] # q[j]
  <2> DEFINE a == first[i]
             b == first[j]
  <2>1. a \in new /\ b \in new /\ a # b /\ q[i] = s[a] /\ q[j] = s[b]
    BY <1>8, <1>9, <1>10, <1>14
  <2> HIDE DEF a, b
  <2>2. a \in 1 .. n /\ b \in 1 .. n
    BY <1>4, <2>1
  <2>3. a \in 1 .. b - 1 \/ b \in 1 .. a - 1
    BY <1>1, <2>1, <2>2
  <2>4. QED
    BY <1>4, <2>1, <2>3
<1>15. QED
  BY <1>11, <1>13, <1>14 DEF q
-----------------------------------------------------------------------------
(* Rows of a style that no two of a list share time, camera and role.       *)
Mark(r) == <<r.ts, r.camera, r.role>>

ApartIn(rows, style) ==
  \A i, j \in 1 .. Len(rows) :
    i # j /\ rows[i].style = style /\ rows[j].style = style => Mark(rows[i]) # Mark(rows[j])

Lacks(rows, style) == \A r \in ToSet(rows) : r.style # style

LEMMA LacksApart ==
  ASSUME NEW rows, IsList(rows), NEW style, Lacks(rows, style)
  PROVE  ApartIn(rows, style)
BY ListFacts DEF ApartIn, Lacks

LEMMA JoinedApart ==
  ASSUME NEW a, NEW b, IsList(a), IsList(b), NEW style, ApartIn(a, style), ApartIn(b, style),
         Lacks(a, style) \/ Lacks(b, style)
  PROVE  ApartIn(a \o b, style)
<1> DEFINE c == a \o b
           m == Len(a)
<1>1. /\ m \in Nat /\ Len(b) \in Nat /\ Len(c) = m + Len(b)
      /\ \A i \in 1 .. m + Len(b) : c[i] = IF i <= m THEN a[i] ELSE b[i - m]
  BY Joined, ListFacts
<1>2. /\ \A i \in 1 .. m : a[i] \in ToSet(a)
      /\ \A i \in 1 .. Len(b) : b[i] \in ToSet(b)
  BY ListFacts
<1> HIDE DEF c
<1> SUFFICES ASSUME NEW i \in 1 .. m + Len(b), NEW j \in 1 .. m + Len(b), i # j,
                    c[i].style = style, c[j].style = style
             PROVE  Mark(c[i]) # Mark(c[j])
  BY <1>1 DEF ApartIn, c
<1> HIDE DEF m
<1>3. CASE i <= m /\ j <= m
  <2>1. i \in 1 .. m /\ j \in 1 .. m /\ c[i] = a[i] /\ c[j] = a[j]
    BY <1>1, <1>3
  <2>2. QED
    BY <2>1 DEF ApartIn, m
<1>4. CASE ~(i <= m) /\ ~(j <= m)
  <2> DEFINE k == i - m
             l == j - m
  <2>1. k \in 1 .. Len(b) /\ l \in 1 .. Len(b) /\ c[i] = b[k] /\ c[j] = b[l] /\ k # l
    BY <1>1, <1>4
  <2> HIDE DEF k, l
  <2>2. QED
    BY <2>1 DEF ApartIn
<1>5. CASE i <= m /\ ~(j <= m)
  <2>1. i \in 1 .. m /\ j - m \in 1 .. Len(b) /\ c[i] = a[i] /\ c[j] = b[j - m]
    BY <1>1, <1>5
  <2>2. QED
    BY <1>2, <2>1 DEF Lacks
<1>6. CASE ~(i <= m) /\ j <= m
  <2>1. j \in 1 .. m /\ i - m \in 1 .. Len(b) /\ c[j] = a[j] /\ c[i] = b[i - m]
    BY <1>1, <1>6
  <2>2. QED
    BY <1>2, <2>1 DEF Lacks
<1>7. QED
  BY <1>3, <1>4, <1>5, <1>6

LEMMA OnlyApart ==
  ASSUME NEW rows, IsList(rows), NEW set, NEW style, ApartIn(rows, style)
  PROVE  ApartIn(Only(rows, set), style)
<1> DEFINE q == Only(rows, set)
<1>1. IsList(q) /\ \E f : Chosen(f, q, rows, Len(rows), set)
  BY OnlyGives
<1> HIDE DEF q
<1>2. PICK f : Chosen(f, q, rows, Len(rows), set)
  BY <1>1
<1>3. Len(q) \in Nat /\ Len(rows) \in Nat
  BY <1>1, ListFacts
<1>4. SUFFICES ASSUME NEW i \in 1 .. Len(q), NEW j \in 1 .. Len(q), i # j,
                      q[i].style = style, q[j].style = style
               PROVE  Mark(q[i]) # Mark(q[j])
  BY DEF ApartIn, q
<1>5. /\ f[i] \in 1 .. Len(rows) /\ f[j] \in 1 .. Len(rows) /\ f[i] # f[j]
      /\ q[i] = rows[f[i]] /\ q[j] = rows[f[j]]
  BY <1>2, <1>3, <1>4, ChosenApart DEF Chosen
<1>6. QED
  BY <1>4, <1>5 DEF ApartIn

LEMMA SortedApart ==
  ASSUME NEW rows, IsList(rows), NEW key \in [1 .. Len(rows) -> Int],
         NEW style, ApartIn(rows, style)
  PROVE  ApartIn(Sorted(rows, key), style)
<1> DEFINE q == Sorted(rows, key)
<1>1. PICK f : SortedBy(f, q, rows, key)
  BY SortedIs
<1> HIDE DEF q
<1>2. /\ Len(q) = Len(rows)
      /\ \A i \in 1 .. Len(rows) : f[i] \in 1 .. Len(rows) /\ q[i] = rows[f[i]]
      /\ \A i, j \in 1 .. Len(rows) : f[i] = f[j] => i = j
  BY <1>1 DEF SortedBy, Permutes
<1>3. ApartIn(q, style)
  <2> SUFFICES ASSUME NEW i \in 1 .. Len(rows), NEW j \in 1 .. Len(rows), i # j,
                      q[i].style = style, q[j].style = style
               PROVE  Mark(q[i]) # Mark(q[j])
    BY <1>2 DEF ApartIn
  <2>1. f[i] \in 1 .. Len(rows) /\ f[j] \in 1 .. Len(rows) /\ f[i] # f[j]
    BY <1>2
  <2>2. q[i] = rows[f[i]] /\ q[j] = rows[f[j]]
    BY <1>2
  <2>3. QED
    BY <2>1, <2>2 DEF ApartIn
<1>4. QED
  BY <1>3 DEF q

(* The times of a style.                                                    *)
TimesOf(rows, style) == {r.ts : r \in {r \in ToSet(rows) : r.style = style}}

LEMMA StyledIs ==
  ASSUME NEW rows, IsList(rows), NEW style
  PROVE  /\ IsList(Styled(rows, style))
         /\ ToSet(Styled(rows, style)) = {r \in ToSet(rows) : r.style = style}
         /\ TimesIn(Styled(rows, style)) = TimesOf(rows, style)
<1>1. /\ IsList(Styled(rows, style))
      /\ ToSet(Styled(rows, style)) = {r \in ToSet(rows) : r.style = style}
  <2> DEFINE set == {r \in ToSet(rows) : r.style = style}
  <2>1. set \subseteq ToSet(rows) /\ Styled(rows, style) = Only(rows, set)
    BY DEF Styled
  <2> HIDE DEF set
  <2>2. IsList(Styled(rows, style)) /\ ToSet(Styled(rows, style)) = set
    BY <2>1, OnlyGives
  <2>3. QED
    BY <2>2 DEF set
<1>2. TimesIn(Styled(rows, style)) = {r.ts : r \in ToSet(Styled(rows, style))}
  <2> DEFINE q == Styled(rows, style)
  <2>1. ToSet(q) = {q[i] : i \in DOMAIN q} /\ TimesIn(q) = {q[i].ts : i \in DOMAIN q}
    BY DEF TimesIn, ToSet
  <2> HIDE DEF q
  <2>2. TimesIn(q) = {r.ts : r \in ToSet(q)}
    BY <2>1
  <2>3. QED
    BY <2>2 DEF q
<1>3. QED
  BY <1>1, <1>2 DEF TimesOf
-----------------------------------------------------------------------------
(* What the plan module stages.                                             *)
Starts(spans) == {spans[i].start : i \in 1 .. Len(spans)}

(* The spans of an episode: the first on the first frame, then in order,    *)
(* each on a frame.                                                         *)
Spanned(spans, times) ==
  /\ IsList(spans) /\ Len(spans) # 0 /\ spans[1].start = times[1]
  /\ \A i \in 1 .. Len(spans) :
       /\ spans[i] = [start |-> spans[i].start, text |-> spans[i].text]
       /\ spans[i].start \in ToSet(times)
  /\ \A i, j \in 1 .. Len(spans) : i < j => spans[i].start < spans[j].start

LEMMA SpannedFacts ==
  ASSUME NEW times, Clock(times), NEW spans, Spanned(spans, times)
  PROVE  /\ Len(spans) \in Nat \ {0} /\ DOMAIN spans = 1 .. Len(spans)
         /\ \A i \in 1 .. Len(spans) :
              /\ spans[i].start \in Nat /\ spans[i].start \in ToSet(times)
              /\ Snap(times, spans[i].start) = spans[i].start
         /\ \A i, j \in 1 .. Len(spans) : i # j => spans[i].start # spans[j].start
         /\ times[1] \in Starts(spans) /\ Starts(spans) \subseteq ToSet(times)
<1>1. Len(spans) \in Nat \ {0} /\ DOMAIN spans = 1 .. Len(spans)
  BY ListFacts DEF Spanned
<1>2. \A i \in 1 .. Len(spans) : spans[i].start \in ToSet(times) /\ spans[i].start \in Nat
  BY ClockFacts DEF Spanned
<1>3. \A i \in 1 .. Len(spans) : Snap(times, spans[i].start) = spans[i].start
  BY <1>2, Nearest
<1>4. ASSUME NEW i \in 1 .. Len(spans), NEW j \in 1 .. Len(spans), i # j
      PROVE  spans[i].start # spans[j].start
  <2>1. i < j \/ j < i
    BY <1>1, <1>4
  <2>2. QED
    BY <1>2, <2>1 DEF Spanned
<1>5. times[1] \in Starts(spans)
  BY <1>1 DEF Starts, Spanned
<1>6. Starts(spans) \subseteq ToSet(times)
  BY <1>2 DEF Starts
<1>7. QED
  BY <1>1, <1>2, <1>3, <1>4, <1>5, <1>6

(* Rows of one style that a module stages at starts of spans.               *)
OneStyle(rows, style, spans) ==
  /\ IsList(rows) /\ ApartIn(rows, style)
  /\ \A r \in ToSet(rows) :
       r.role = "assistant" /\ r.style = style /\ r.camera = NoCamera /\ r.ts \in Starts(spans)

LEMMA OneStyleMade ==
  ASSUME NEW times, Clock(times), NEW spans, Spanned(spans, times), NEW n \in Nat,
         NEW at \in [1 .. n -> 1 .. Len(spans)], \A i, j \in 1 .. n : i # j => at[i] # at[j],
         NEW rows, rows = [i \in 1 .. n |-> rows[i]], NEW style,
         \A i \in 1 .. n : /\ rows[i].role = "assistant" /\ rows[i].style = style
                           /\ rows[i].camera = NoCamera /\ rows[i].ts = spans[at[i]].start
  PROVE  OneStyle(rows, style, spans)
<1>1. IsList(rows) /\ Len(rows) = n /\ ToSet(rows) = {rows[i] : i \in 1 .. n}
  BY ListMade
<1>2. ApartIn(rows, style)
  <2> SUFFICES ASSUME NEW i \in 1 .. n, NEW j \in 1 .. n, i # j
               PROVE  Mark(rows[i]) # Mark(rows[j])
    BY <1>1 DEF ApartIn
  <2>1. at[i] \in 1 .. Len(spans) /\ at[j] \in 1 .. Len(spans) /\ at[i] # at[j]
    OBVIOUS
  <2>2. rows[i].ts = spans[at[i]].start /\ rows[j].ts = spans[at[j]].start
    OBVIOUS
  <2>3. spans[at[i]].start # spans[at[j]].start
    BY <2>1, SpannedFacts
  <2>4. QED
    BY <2>2, <2>3 DEF Mark
<1>3. ASSUME NEW r \in ToSet(rows)
      PROVE  /\ r.role = "assistant" /\ r.style = style /\ r.camera = NoCamera
             /\ r.ts \in Starts(spans)
  <2>1. PICK i \in 1 .. n : r = rows[i]
    BY <1>1, <1>3
  <2>2. at[i] \in 1 .. Len(spans)
    OBVIOUS
  <2>3. QED
    BY <2>1, <2>2 DEF Starts
<1>4. QED
  BY <1>1, <1>2, <1>3 DEF OneStyle

LEMMA SubtaskRowsAre ==
  ASSUME NEW times, Clock(times), NEW spans, Spanned(spans, times)
  PROVE  LET rows == SubtaskRows(spans, times)
         IN  /\ OneStyle(rows, "subtask", spans) /\ Len(rows) = Len(spans)
             /\ ToSet(rows) = {rows[i] : i \in 1 .. Len(spans)}
             /\ \A i \in 1 .. Len(spans) : rows[i].ts = spans[i].start /\ rows[i].text = <<spans[i].text>>
<1> DEFINE n == Len(spans)
           rows == SubtaskRows(spans, times)
           at == [i \in 1 .. n |-> i]
<1>1. n \in Nat /\ DOMAIN spans = 1 .. n /\ \A i \in 1 .. n : Snap(times, spans[i].start) = spans[i].start
  BY SpannedFacts
<1>2. /\ rows = [i \in 1 .. n |-> rows[i]]
      /\ \A i \in 1 .. n : rows[i] = Row("assistant", "subtask", spans[i].start, NoCamera,
                                         <<spans[i].text>>, Null)
  BY <1>1 DEF SubtaskRows
<1>3. at \in [1 .. n -> 1 .. Len(spans)] /\ \A i, j \in 1 .. n : i # j => at[i] # at[j]
  OBVIOUS
<1>4. \A i \in 1 .. n : /\ rows[i].role = "assistant" /\ rows[i].style = "subtask"
                        /\ rows[i].camera = NoCamera /\ rows[i].ts = spans[at[i]].start
  BY <1>2 DEF Row
<1>5. \A i \in 1 .. n : rows[i].ts = spans[i].start /\ rows[i].text = <<spans[i].text>>
  BY <1>2 DEF Row
<1>6. n \in Nat /\ rows = [i \in 1 .. n |-> rows[i]]
  BY <1>1, <1>2
<1> HIDE DEF rows, at, n
<1>7. OneStyle(rows, "subtask", spans)
  BY <1>3, <1>4, <1>6, OneStyleMade
<1>8. Len(rows) = n /\ ToSet(rows) = {rows[i] : i \in 1 .. n}
  BY <1>6, ListMade
<1>9. QED
  BY <1>5, <1>7, <1>8 DEF rows, n

LEMMA PlanRowsAre ==
  ASSUME NEW times, Clock(times), NEW spans, Spanned(spans, times)
  PROVE  LET rows == PlanRows(spans, times)
         IN  /\ OneStyle(rows, "plan", spans) /\ Len(rows) = Len(spans)
             /\ ToSet(rows) = {rows[i] : i \in 1 .. Len(spans)}
             /\ \A i \in 1 .. Len(spans) :
                  rows[i].ts = spans[i].start /\ rows[i].text = Plan(spans, spans[i].start)
<1> DEFINE n == Len(spans)
           rows == PlanRows(spans, times)
           at == [i \in 1 .. n |-> i]
<1>1. n \in Nat /\ DOMAIN spans = 1 .. n /\ \A i \in 1 .. n : Snap(times, spans[i].start) = spans[i].start
  BY SpannedFacts
<1>2. /\ rows = [i \in 1 .. n |-> rows[i]]
      /\ \A i \in 1 .. n : rows[i] = PlanRow(spans, spans[i].start)
  BY <1>1 DEF PlanRows
<1>3. at \in [1 .. n -> 1 .. Len(spans)] /\ \A i, j \in 1 .. n : i # j => at[i] # at[j]
  OBVIOUS
<1>4. \A i \in 1 .. n : /\ rows[i].role = "assistant" /\ rows[i].style = "plan"
                        /\ rows[i].camera = NoCamera /\ rows[i].ts = spans[at[i]].start
  BY <1>2 DEF Row, PlanRow
<1>5. \A i \in 1 .. n : rows[i].ts = spans[i].start /\ rows[i].text = Plan(spans, spans[i].start)
  BY <1>2 DEF Row, PlanRow
<1>6. n \in Nat /\ rows = [i \in 1 .. n |-> rows[i]]
  BY <1>1, <1>2
<1> HIDE DEF rows, at, n
<1>7. OneStyle(rows, "plan", spans)
  BY <1>3, <1>4, <1>6, OneStyleMade
<1>8. Len(rows) = n /\ ToSet(rows) = {rows[i] : i \in 1 .. n}
  BY <1>6, ListMade
<1>9. QED
  BY <1>5, <1>7, <1>8 DEF rows, n

LEMMA MemoryRowsAre ==
  ASSUME NEW times, Clock(times), NEW spans, Spanned(spans, times), NEW remembered
  PROVE  OneStyle(MemoryRows(spans, times, remembered), "memory", spans)
<1> DEFINE n == Len(spans)
           rows == MemoryRows(spans, times, remembered)
           ids == [i \in DOMAIN spans |-> i]
           kept == Only(ids, remembered)
           m == Len(kept)
<1>1. n \in Nat /\ DOMAIN spans = 1 .. n /\ \A i \in 1 .. n : Snap(times, spans[i].start) = spans[i].start
  BY SpannedFacts
<1>2. IsList(ids) /\ Len(ids) = n /\ \A i \in 1 .. n : ids[i] = i
  <2>1. ids = [i \in 1 .. n |-> ids[i]] /\ \A i \in 1 .. n : ids[i] = i
    BY <1>1
  <2> HIDE DEF ids
  <2>2. QED
    BY <1>1, <2>1, ListMade
<1>3. rows = [k \in DOMAIN kept |-> Row("assistant", "memory", Snap(times, spans[kept[k]].start),
                                        NoCamera, <<"so far">>, Null)]
  BY DEF MemoryRows
<1> HIDE DEF rows, ids
<1>4. IsList(kept) /\ \E f : Chosen(f, kept, ids, n, remembered)
  BY <1>2, OnlyGives
<1> HIDE DEF kept
<1>5. m \in Nat /\ DOMAIN kept = 1 .. m /\ kept = [k \in 1 .. m |-> kept[k]]
  BY <1>4, ListFacts
<1>6. PICK f : Chosen(f, kept, ids, n, remembered)
  BY <1>4
<1>7. \A k \in 1 .. m : kept[k] = f[k] /\ kept[k] \in 1 .. n
  BY <1>2, <1>6 DEF Chosen
<1>8. \A i, j \in 1 .. m : i # j => kept[i] # kept[j]
  BY <1>1, <1>5, <1>6, <1>7, ChosenApart
<1>9. kept \in [1 .. m -> 1 .. n]
  BY <1>5, <1>7
<1>10. rows = [k \in 1 .. m |-> rows[k]]
  BY <1>3, <1>5
<1>11. \A k \in 1 .. m : /\ rows[k].role = "assistant" /\ rows[k].style = "memory"
                         /\ rows[k].camera = NoCamera /\ rows[k].ts = spans[kept[k]].start
  <2> TAKE k \in 1 .. m
  <2> DEFINE words == <<"so far">>
             t == spans[kept[k]].start
  <2>1. rows[k] = Row("assistant", "memory", Snap(times, t), NoCamera, words, Null)
    BY <1>3, <1>5
  <2>2. Snap(times, t) = t
    BY <1>1, <1>7
  <2> HIDE DEF words, t
  <2>3. rows[k] = Row("assistant", "memory", t, NoCamera, words, Null)
    BY <2>1, <2>2
  <2>4. /\ rows[k].role = "assistant" /\ rows[k].style = "memory"
        /\ rows[k].camera = NoCamera /\ rows[k].ts = t
    BY <2>3 DEF Row
  <2>5. QED
    BY <2>4 DEF t
<1> HIDE DEF m, n
<1>12. OneStyle(rows, "memory", spans)
  BY <1>5, <1>8, <1>9, <1>10, <1>11, OneStyleMade DEF n
<1>13. QED
  BY <1>12 DEF rows
LEMMA TaskAugRowsAre ==
  ASSUME NEW times, Clock(times), NEW task, NEW variants, IsList(variants)
  PROVE  LET rows == TaskAugRows(task, variants, times)
         IN  /\ IsList(rows)
             /\ \A r \in ToSet(rows) : /\ r.role = "user" /\ r.style = "task_aug"
                                       /\ r.camera = NoCamera /\ r.ts = times[1]
<1> DEFINE all == <<task>> \o variants
           said == Only(all, ToSet(all) \ {""})
           phrasings == Distinct(said)
           rows == TaskAugRows(task, variants, times)
           n == Len(phrasings)
<1>1. IsList(all)
  BY ListSingle, Joined
<1>2. IsList(said)
  <2> HIDE DEF all
  <2> QED
    BY <1>1, OnlyGives
<1>3. IsList(phrasings)
  <2> HIDE DEF said
  <2> QED
    BY <1>2, DistinctIs
<1>4. rows = [i \in DOMAIN phrasings |->
                Row("user", "task_aug", Head(times), NoCamera, <<phrasings[i]>>, Null)]
  BY DEF TaskAugRows
<1> HIDE DEF phrasings, rows
<1>5. n \in Nat /\ DOMAIN phrasings = 1 .. n
  BY <1>3, ListFacts
<1>6. rows = [i \in 1 .. n |-> rows[i]]
  BY <1>4, <1>5
<1>7. IsList(rows) /\ ToSet(rows) = {rows[i] : i \in 1 .. n}
  BY <1>5, <1>6, ListMade
<1>8. ASSUME NEW r \in ToSet(rows)
      PROVE  r.role = "user" /\ r.style = "task_aug" /\ r.camera = NoCamera /\ r.ts = times[1]
  <2>1. PICK i \in 1 .. n : r = rows[i]
    BY <1>7
  <2> DEFINE words == <<phrasings[i]>>
  <2>2. rows[i] = Row("user", "task_aug", Head(times), NoCamera, words, Null)
    BY <1>4, <1>5
  <2> HIDE DEF words
  <2>3. Head(times) = times[1]
    BY ClockFacts
  <2>4. QED
    BY <2>1, <2>2, <2>3 DEF Row
<1>9. QED
  BY <1>7, <1>8 DEF rows

LEMMA VariantsListed ==
  ASSUME NEW cfg \in Configs, cfg.augment # "off", NEW task, NEW raw \in Seq(STRING), NEW axes,
         axes.synonyms \in Seq(STRING), axes.omissions \in Seq(STRING)
  PROVE  IsList(Variants(task, cfg, raw, axes))
<1>1. cfg.augment \in {"free", "axes"} /\ cfg.phrasings \in Nat
  BY ConfigsAssumption
<1>2. CASE cfg.augment = "axes"
  <2>1. Variants(task, cfg, raw, axes) = axes.synonyms \o axes.omissions
    BY <1>2 DEF Variants
  <2>2. axes.synonyms \o axes.omissions \in Seq(STRING)
    OBVIOUS
  <2>3. QED
    BY <2>1, <2>2, ListOf
<1>3. CASE cfg.augment = "free"
  <2> DEFINE said == Only(raw, ToSet(raw) \ {""})
             n == cfg.phrasings
             m == Min({n, Len(said)})
  <2>1. Variants(task, cfg, raw, axes) = SubSeq(said, 1, m)
    BY <1>3 DEF Variants, Rephrasings
  <2>2. said \in Seq(STRING)
    BY OnlyChooses
  <2> HIDE DEF said
  <2>3. {n, Len(said)} \in SUBSET Nat /\ {n, Len(said)} # {}
    BY <1>1, <2>2
  <2>4. m \in {n, Len(said)} /\ m <= Len(said)
    BY <2>3, LeastOfSome
  <2>5. m \in Nat
    BY <2>3, <2>4
  <2> HIDE DEF m
  <2>6. SubSeq(said, 1, m) \in Seq(STRING)
    BY <2>2, <2>4, <2>5
  <2>7. QED
    BY <2>1, <2>6, ListOf
<1>4. QED
  BY <1>1, <1>2, <1>3

(* The rows of an episode that the plan module may leave behind.            *)
PlanOK(rows, times, cfg) ==
  /\ IsList(rows)
  /\ \A r \in ToSet(rows) :
       /\ r.style \in Persistent /\ r.camera = NoCamera /\ r.ts \in ToSet(times)
       /\ r.role = IF r.style = "task_aug" THEN "user" ELSE "assistant"
  /\ \A style \in {"subtask", "plan", "memory"} : ApartIn(rows, style)
  /\ rows # << >> => times[1] \in TimesOf(rows, "subtask")
  /\ cfg.emitPlan => TimesOf(rows, "plan") = TimesOf(rows, "subtask")
  /\ TimesOf(rows, "memory") \subseteq TimesOf(rows, "subtask")
  /\ cfg.emitPlan =>
       \A r \in ToSet(rows) : r.style = "plan" => r.text = Plan(Spans(rows), r.ts)

LEMMA EmptyPlanOK ==
  ASSUME NEW times, NEW cfg
  PROVE  PlanOK(<< >>, times, cfg)
<1>1. IsList(<< >>) /\ Len(<< >>) = 0 /\ ToSet(<< >>) = {}
  BY ListEmpty
<1>2. \A style : TimesOf(<< >>, style) = {} /\ ApartIn(<< >>, style)
  BY <1>1 DEF TimesOf, ApartIn
<1>3. QED
  BY <1>1, <1>2 DEF PlanOK
-----------------------------------------------------------------------------
(* A list of rows of one style, no two of them at a time.                   *)
Uniform(rows, style) ==
  /\ IsList(rows) /\ ApartIn(rows, style)
  /\ \A r \in ToSet(rows) :
       r.style = style /\ r.camera = NoCamera /\ r.role = "assistant" /\ r.ts \in Nat

LEMMA UniformApart ==
  ASSUME NEW rows, NEW style, Uniform(rows, style),
         NEW i \in 1 .. Len(rows), NEW j \in 1 .. Len(rows), i # j
  PROVE  rows[i].ts # rows[j].ts
<1>1. rows[i] \in ToSet(rows) /\ rows[j] \in ToSet(rows)
  BY ListFacts DEF Uniform
<1>2. Mark(rows[i]) # Mark(rows[j])
  BY <1>1 DEF Uniform, ApartIn
<1>3. /\ rows[i].camera = rows[j].camera /\ rows[i].role = rows[j].role
  BY <1>1 DEF Uniform
<1>4. QED
  BY <1>2, <1>3 DEF Mark

LEMMA StyledUniform ==
  ASSUME NEW rows, IsList(rows), NEW style, ApartIn(rows, style),
         \A r \in ToSet(rows) :
           r.style = style => r.camera = NoCamera /\ r.role = "assistant" /\ r.ts \in Nat
  PROVE  Uniform(Styled(rows, style), style)
<1>1. ApartIn(Styled(rows, style), style)
  BY OnlyApart DEF Styled
<1>2. /\ IsList(Styled(rows, style))
      /\ ToSet(Styled(rows, style)) = {r \in ToSet(rows) : r.style = style}
  BY StyledIs
<1>3. QED
  BY <1>1, <1>2 DEF Uniform

(* Such a list sorted by time.                                              *)
LEMMA ByTime ==
  ASSUME NEW rows, NEW style, Uniform(rows, style),
         NEW key \in [1 .. Len(rows) -> Int],
         \A i, j \in 1 .. Len(rows) : rows[i].ts < rows[j].ts => key[i] < key[j]
  PROVE  LET q == Sorted(rows, key)
         IN  /\ IsList(q) /\ ToSet(q) = ToSet(rows) /\ Len(q) = Len(rows)
             /\ \A j, k \in 1 .. Len(q) : j < k => q[j].ts < q[k].ts
<1> DEFINE q == Sorted(rows, key)
           n == Len(rows)
<1>1. IsList(rows) /\ n \in Nat
  BY ListFacts DEF Uniform
<1>2. IsList(q) /\ ToSet(q) = ToSet(rows) /\ \E f : SortedBy(f, q, rows, key)
  BY <1>1, SortedIs
<1> HIDE DEF q
<1>3. PICK f : SortedBy(f, q, rows, key)
  BY <1>2
<1>4. /\ Len(q) = n
      /\ \A k \in 1 .. n : f[k] \in 1 .. n /\ q[k] = rows[f[k]]
      /\ \A i, j \in 1 .. n : f[i] = f[j] => i = j
      /\ \A j, k \in 1 .. n : j < k => key[f[j]] <= key[f[k]]
  BY <1>3 DEF SortedBy, Permutes
<1>5. \A i \in 1 .. n : rows[i].ts \in Nat
  BY <1>1, ListFacts DEF Uniform
<1> HIDE DEF n
<1>6. ASSUME NEW j \in 1 .. n, NEW k \in 1 .. n, j < k PROVE q[j].ts < q[k].ts
  <2> DEFINE a == f[j]
             b == f[k]
  <2>1. /\ a \in 1 .. n /\ b \in 1 .. n /\ key[a] <= key[b]
        /\ q[j] = rows[a] /\ q[k] = rows[b]
    BY <1>4, <1>6
  <2>2. a # b
    BY <1>1, <1>4, <1>6
  <2> HIDE DEF a, b
  <2>3. rows[a].ts # rows[b].ts
    BY <2>1, <2>2, UniformApart DEF n
  <2>4. ~(rows[b].ts < rows[a].ts)
    <3>1. key[a] \in Int /\ key[b] \in Int
      BY <2>1 DEF n
    <3>2. ~(key[b] < key[a])
      BY <2>1, <3>1
    <3>3. QED
      BY <2>1, <3>2 DEF n
  <2>5. rows[a].ts \in Nat /\ rows[b].ts \in Nat
    BY <1>5, <2>1
  <2>6. QED
    BY <2>1, <2>3, <2>4, <2>5
<1>7. QED
  BY <1>2, <1>4, <1>6 DEF q, n

(* Subtask rows by their time.                                              *)
InTime(rows) ==
  LET subtasks == Styled(rows, "subtask")
  IN  Sorted(subtasks, [i \in DOMAIN subtasks |-> subtasks[i].ts])

LEMMA InTimeIs ==
  ASSUME NEW rows, Uniform(Styled(rows, "subtask"), "subtask")
  PROVE  LET q == InTime(rows)
         IN  /\ IsList(q) /\ ToSet(q) = ToSet(Styled(rows, "subtask"))
             /\ \A j, k \in 1 .. Len(q) : j < k => q[j].ts < q[k].ts
             /\ Spans(rows) = [i \in 1 .. Len(q) |-> [start |-> q[i].ts, text |-> Head(q[i].text)]]
<1> DEFINE s == Styled(rows, "subtask")
           key == [i \in DOMAIN s |-> s[i].ts]
           q == InTime(rows)
<1>1. q = Sorted(s, key)
  BY DEF InTime
<1>2. Spans(rows) = [i \in DOMAIN q |-> [start |-> q[i].ts, text |-> Head(q[i].text)]]
  BY <1>1 DEF Spans
<1> HIDE DEF s, q
<1>3. Uniform(s, "subtask")
  BY DEF s
<1>4. /\ DOMAIN s = 1 .. Len(s) /\ Len(s) \in Nat
      /\ \A i \in 1 .. Len(s) : s[i].ts \in Nat
  BY <1>3, ListFacts DEF Uniform
<1>5. key \in [1 .. Len(s) -> Int] /\ \A i, j \in 1 .. Len(s) : s[i].ts < s[j].ts => key[i] < key[j]
  BY <1>4
<1> HIDE DEF key
<1>6. /\ IsList(q) /\ ToSet(q) = ToSet(s)
      /\ \A j, k \in 1 .. Len(q) : j < k => q[j].ts < q[k].ts
  BY <1>1, <1>3, <1>5, ByTime
<1>7. DOMAIN q = 1 .. Len(q)
  BY <1>6, ListFacts
<1>8. QED
  BY <1>2, <1>6, <1>7 DEF q, s

(* What was staged as subtasks is read back as the same spans.              *)
LEMMA SpansRead ==
  ASSUME NEW times, Clock(times), NEW spans, Spanned(spans, times),
         NEW rows, Uniform(Styled(rows, "subtask"), "subtask"),
         \A r \in ToSet(Styled(rows, "subtask")) :
           \E i \in 1 .. Len(spans) : r.ts = spans[i].start /\ r.text = <<spans[i].text>>,
         \A i \in 1 .. Len(spans) :
           \E r \in ToSet(Styled(rows, "subtask")) :
             r.ts = spans[i].start /\ r.text = <<spans[i].text>>
  PROVE  Spans(rows) = spans
<1> DEFINE q == InTime(rows)
           S == ToSet(Styled(rows, "subtask"))
           p == Spans(rows)
           n == Len(q)
           kp == [i \in 1 .. n |-> q[i].ts]
           ks == [i \in 1 .. Len(spans) |-> spans[i].start]
<1>1. /\ IsList(q) /\ ToSet(q) = S
      /\ \A j, k \in 1 .. n : j < k => q[j].ts < q[k].ts
      /\ p = [i \in 1 .. n |-> [start |-> q[i].ts, text |-> Head(q[i].text)]]
  BY InTimeIs
<1> HIDE DEF q, p
<1>2. n \in Nat /\ (\A i \in 1 .. n : q[i] \in S) /\ \A x \in S : \E i \in 1 .. n : q[i] = x
  BY <1>1, ListFacts
<1>3. \A r \in S : r.ts \in Nat
  BY DEF Uniform
<1>4. \A i \in 1 .. n : \E j \in 1 .. Len(spans) :
        q[i].ts = spans[j].start /\ q[i].text = <<spans[j].text>>
  BY <1>2
<1>5. \A j \in 1 .. Len(spans) : \E i \in 1 .. n :
        q[i].ts = spans[j].start /\ q[i].text = <<spans[j].text>>
  <2> TAKE j \in 1 .. Len(spans)
  <2>1. PICK r \in S : r.ts = spans[j].start /\ r.text = <<spans[j].text>>
    OBVIOUS
  <2>2. PICK i \in 1 .. n : q[i] = r
    BY <1>2
  <2>3. QED
    BY <2>1, <2>2
<1> HIDE DEF S
<1>6. IsList(p) /\ Len(p) = n /\ \A i \in 1 .. n : p[i] = [start |-> q[i].ts, text |-> Head(q[i].text)]
  <2>1. p = [i \in 1 .. n |-> p[i]] /\ \A i \in 1 .. n : p[i] = [start |-> q[i].ts, text |-> Head(q[i].text)]
    BY <1>1
  <2>2. IsList(p) /\ Len(p) = n
    BY <1>2, <2>1, ListMade
  <2>3. QED
    BY <2>1, <2>2
<1>7. ASSUME NEW i \in 1 .. n, NEW j \in 1 .. Len(spans),
             q[i].ts = spans[j].start, q[i].text = <<spans[j].text>>
      PROVE  p[i] = spans[j] /\ kp[i] = ks[j]
  <2>1. Head(q[i].text) = spans[j].text
    BY <1>7
  <2>2. p[i] = [start |-> spans[j].start, text |-> spans[j].text]
    BY <1>6, <1>7, <2>1
  <2>3. spans[j] = [start |-> spans[j].start, text |-> spans[j].text]
    BY DEF Spanned
  <2>4. QED
    BY <1>7, <2>2, <2>3
<1>8. Rises(kp, n)
  BY <1>1, <1>2, <1>3 DEF Rises
<1>9. Rises(ks, Len(spans))
  BY SpannedFacts DEF Rises, Spanned
<1> HIDE DEF kp, ks, n
<1>10. \A i \in 1 .. n : \E j \in 1 .. Len(spans) : p[i] = spans[j] /\ kp[i] = ks[j]
  BY <1>4, <1>7
<1>11. \A j \in 1 .. Len(spans) : \E i \in 1 .. n : p[i] = spans[j] /\ kp[i] = ks[j]
  BY <1>5, <1>7
<1>12. IsList(spans)
  BY DEF Spanned
<1>13. p = spans
  BY <1>6, <1>8, <1>9, <1>10, <1>11, <1>12, RisingSame
<1>14. QED
  BY <1>13 DEF p
-----------------------------------------------------------------------------
(* The plan module stages such rows.                                        *)
LEMMA EmptyOneStyle ==
  ASSUME NEW style, NEW spans
  PROVE  OneStyle(<< >>, style, spans)
BY ListEmpty DEF OneStyle, ApartIn

LEMMA OneStyleLacks ==
  ASSUME NEW rows, NEW style, NEW spans, OneStyle(rows, style, spans), NEW other, other # style
  PROVE  Lacks(rows, other) /\ ApartIn(rows, other)
<1>1. Lacks(rows, other) /\ IsList(rows)
  BY DEF OneStyle, Lacks
<1>2. QED
  BY <1>1, LacksApart

LEMMA PlanModuleOK ==
  ASSUME NEW record, Clock(record.times), NEW cfg \in Configs, NEW said,
         Spanned(said.spans, record.times), said.raw \in Seq(STRING),
         said.axes.synonyms \in Seq(STRING), said.axes.omissions \in Seq(STRING)
  PROVE  PlanOK(PlanModule(record, cfg, said), record.times, cfg)
<1> DEFINE times == record.times
           spans == said.spans
           n == Len(spans)
           task == EffectiveTask(record.task, cfg, said.derived)
           A == IF cfg.augment # "off" /\ task # ""
                THEN TaskAugRows(task, Variants(task, cfg, said.raw, said.axes), times)
                ELSE << >>
           B == SubtaskRows(spans, times)
           C == IF cfg.emitPlan THEN PlanRows(spans, times) ELSE << >>
           D == IF cfg.emitMemory THEN MemoryRows(spans, times, said.remembered) ELSE << >>
           AB == A \o B
           ABC == AB \o C
           R == PlanModule(record, cfg, said)
<1>1. R = ABC \o D
  BY DEF PlanModule
<1>2. /\ IsList(A)
      /\ \A r \in ToSet(A) : /\ r.role = "user" /\ r.style = "task_aug"
                             /\ r.camera = NoCamera /\ r.ts = times[1]
  <2>1. CASE cfg.augment # "off" /\ task # ""
    <3> DEFINE variants == Variants(task, cfg, said.raw, said.axes)
    <3>1. IsList(variants)
      BY <2>1, VariantsListed
    <3>2. A = TaskAugRows(task, variants, times)
      BY <2>1
    <3> HIDE DEF variants, task, A
    <3>3. QED
      BY <3>1, <3>2, TaskAugRowsAre
  <2>2. CASE ~(cfg.augment # "off" /\ task # "")
    BY <2>2, ListEmpty
  <2>3. QED
    BY <2>1, <2>2
<1>3. /\ OneStyle(B, "subtask", spans) /\ Len(B) = n /\ ToSet(B) = {B[i] : i \in 1 .. n}
      /\ \A i \in 1 .. n : B[i].ts = spans[i].start /\ B[i].text = <<spans[i].text>>
  BY SubtaskRowsAre
<1>4. /\ OneStyle(C, "plan", spans)
      /\ cfg.emitPlan =>
           /\ \A r \in ToSet(C) : r.text = Plan(spans, r.ts)
           /\ \A i \in 1 .. n : \E r \in ToSet(C) : r.ts = spans[i].start
  <2>1. CASE cfg.emitPlan
    <3> DEFINE P == PlanRows(spans, times)
    <3>1. /\ OneStyle(P, "plan", spans) /\ ToSet(P) = {P[i] : i \in 1 .. n}
          /\ \A i \in 1 .. n : P[i].ts = spans[i].start /\ P[i].text = Plan(spans, spans[i].start)
      BY PlanRowsAre
    <3>2. C = P
      BY <2>1
    <3> HIDE DEF P, C
    <3>3. \A r \in ToSet(P) : r.text = Plan(spans, r.ts)
      BY <3>1
    <3>4. \A i \in 1 .. n : \E r \in ToSet(P) : r.ts = spans[i].start
      BY <3>1
    <3>5. QED
      BY <3>1, <3>2, <3>3, <3>4
  <2>2. CASE ~cfg.emitPlan
    BY <2>2, EmptyOneStyle
  <2>3. QED
    BY <2>1, <2>2
<1>5. OneStyle(D, "memory", spans)
  BY MemoryRowsAre, EmptyOneStyle
<1> HIDE DEF A, B, C, D, task
<1>6. IsList(B) /\ IsList(C) /\ IsList(D)
  BY <1>3, <1>4, <1>5 DEF OneStyle
<1>7. IsList(AB) /\ ToSet(AB) = ToSet(A) \cup ToSet(B) /\ Len(AB) = Len(A) + Len(B)
  BY <1>2, <1>6, Joined
<1> HIDE DEF AB
<1>8. IsList(ABC) /\ ToSet(ABC) = ToSet(AB) \cup ToSet(C) /\ Len(ABC) = Len(AB) + Len(C)
  BY <1>6, <1>7, Joined
<1> HIDE DEF ABC, R
<1>9. IsList(R) /\ ToSet(R) = ToSet(ABC) \cup ToSet(D)
  BY <1>1, <1>6, <1>8, Joined
<1>10. ToSet(R) = ToSet(A) \cup ToSet(B) \cup ToSet(C) \cup ToSet(D)
  BY <1>7, <1>8, <1>9
<1>11. /\ times[1] \in Starts(spans) /\ Starts(spans) \subseteq ToSet(times)
       /\ ToSet(times) \subseteq Nat /\ times[1] \in ToSet(times) /\ n \in Nat
  BY SpannedFacts, ClockFacts
<1>12. ASSUME NEW r \in ToSet(R)
       PROVE  /\ r.style \in Persistent /\ r.camera = NoCamera /\ r.ts \in ToSet(times)
              /\ r.role = IF r.style = "task_aug" THEN "user" ELSE "assistant"
  <2>1. CASE r \in ToSet(A)
    BY <1>2, <1>11, <2>1 DEF Persistent
  <2>2. CASE r \in ToSet(B)
    BY <1>3, <1>11, <2>2 DEF Persistent, OneStyle
  <2>3. CASE r \in ToSet(C)
    BY <1>4, <1>11, <2>3 DEF Persistent, OneStyle
  <2>4. CASE r \in ToSet(D)
    BY <1>5, <1>11, <2>4 DEF Persistent, OneStyle
  <2>5. QED
    BY <1>10, <1>12, <2>1, <2>2, <2>3, <2>4
<1>13. /\ {r \in ToSet(R) : r.style = "subtask"} = ToSet(B)
       /\ {r \in ToSet(R) : r.style = "plan"} = ToSet(C)
       /\ {r \in ToSet(R) : r.style = "memory"} = ToSet(D)
  BY <1>2, <1>3, <1>4, <1>5, <1>10 DEF OneStyle
<1>14. \A style \in {"subtask", "plan", "memory"} : ApartIn(R, style)
  <2> TAKE style \in {"subtask", "plan", "memory"}
  <2>1. Lacks(A, style) /\ ApartIn(A, style)
    <3>1. Lacks(A, style)
      BY <1>2 DEF Lacks
    <3>2. QED
      BY <1>2, <3>1, LacksApart
  <2>2. CASE style = "subtask"
    <3>1. ApartIn(B, style) /\ Lacks(C, style) /\ ApartIn(C, style) /\ Lacks(D, style) /\ ApartIn(D, style)
      BY <1>3, <1>4, <1>5, <2>2, OneStyleLacks DEF OneStyle
    <3>2. ApartIn(AB, style)
      BY <1>2, <1>6, <2>1, <3>1, JoinedApart DEF AB
    <3>3. ApartIn(ABC, style)
      BY <1>6, <1>7, <3>1, <3>2, JoinedApart DEF ABC
    <3>4. QED
      BY <1>1, <1>6, <1>8, <3>1, <3>3, JoinedApart
  <2>3. CASE style = "plan"
    <3>1. Lacks(B, style) /\ ApartIn(B, style) /\ ApartIn(C, style) /\ Lacks(D, style) /\ ApartIn(D, style)
      BY <1>3, <1>4, <1>5, <2>3, OneStyleLacks DEF OneStyle
    <3>2. ApartIn(AB, style)
      BY <1>2, <1>6, <2>1, <3>1, JoinedApart DEF AB
    <3>3. Lacks(AB, style)
      BY <1>7, <2>1, <3>1 DEF Lacks
    <3>4. ApartIn(ABC, style)
      BY <1>6, <1>7, <3>1, <3>2, <3>3, JoinedApart DEF ABC
    <3>5. QED
      BY <1>1, <1>6, <1>8, <3>1, <3>4, JoinedApart
  <2>4. CASE style = "memory"
    <3>1. Lacks(B, style) /\ ApartIn(B, style) /\ Lacks(C, style) /\ ApartIn(C, style) /\ ApartIn(D, style)
      BY <1>3, <1>4, <1>5, <2>4, OneStyleLacks DEF OneStyle
    <3>2. ApartIn(AB, style)
      BY <1>2, <1>6, <2>1, <3>1, JoinedApart DEF AB
    <3>3. ApartIn(ABC, style)
      BY <1>6, <1>7, <3>1, <3>2, JoinedApart DEF ABC
    <3>4. Lacks(ABC, style)
      BY <1>7, <1>8, <2>1, <3>1 DEF Lacks
    <3>5. QED
      BY <1>1, <1>6, <1>8, <3>1, <3>3, <3>4, JoinedApart
  <2>5. QED
    BY <2>2, <2>3, <2>4
<1>15. \A i \in 1 .. n : \E r \in ToSet(B) : r.ts = spans[i].start /\ r.text = <<spans[i].text>>
  BY <1>3
<1>16. \A r \in ToSet(B) : \E i \in 1 .. n : r.ts = spans[i].start /\ r.text = <<spans[i].text>>
  BY <1>3
<1>17. TimesOf(R, "subtask") = Starts(spans)
  <2>1. TimesOf(R, "subtask") = {r.ts : r \in ToSet(B)}
    BY <1>13 DEF TimesOf
  <2>2. \A r \in ToSet(B) : r.ts \in Starts(spans)
    BY <1>16 DEF Starts
  <2>3. \A t \in Starts(spans) : \E r \in ToSet(B) : r.ts = t
    BY <1>15 DEF Starts
  <2>4. QED
    BY <2>1, <2>2, <2>3
<1>18. cfg.emitPlan => TimesOf(R, "plan") = Starts(spans)
  <2>1. TimesOf(R, "plan") = {r.ts : r \in ToSet(C)}
    BY <1>13 DEF TimesOf
  <2>2. \A r \in ToSet(C) : r.ts \in Starts(spans)
    BY <1>4 DEF OneStyle
  <2>3. QED
    BY <1>4, <2>1, <2>2 DEF Starts
<1>19. TimesOf(R, "memory") \subseteq Starts(spans)
  <2>1. TimesOf(R, "memory") = {r.ts : r \in ToSet(D)}
    BY <1>13 DEF TimesOf
  <2>2. QED
    BY <1>5, <2>1 DEF OneStyle
<1>20. Spans(R) = spans
  <2>1. ToSet(Styled(R, "subtask")) = ToSet(B)
    <3>1. ToSet(Styled(R, "subtask")) = {r \in ToSet(R) : r.style = "subtask"}
      BY <1>9, StyledIs
    <3>2. QED
      BY <1>13, <3>1
  <2>2. Uniform(Styled(R, "subtask"), "subtask")
    <3>1. ApartIn(R, "subtask")
      BY <1>14
    <3>2. \A r \in ToSet(R) :
            r.style = "subtask" => r.camera = NoCamera /\ r.role = "assistant" /\ r.ts \in Nat
      BY <1>11, <1>12
    <3>3. QED
      BY <1>9, <3>1, <3>2, StyledUniform
  <2>3. QED
    BY <1>15, <1>16, <2>1, <2>2, SpansRead
<1>21. cfg.emitPlan => \A r \in ToSet(R) : r.style = "plan" => r.text = Plan(Spans(R), r.ts)
  BY <1>4, <1>13, <1>20
<1>22. PlanOK(R, times, cfg)
  BY <1>9, <1>11, <1>12, <1>14, <1>17, <1>18, <1>19, <1>21 DEF PlanOK
<1>23. QED
  BY <1>22 DEF R
LEMMA ListPair ==
  ASSUME NEW x, NEW y
  PROVE  /\ IsList(<<x, y>>) /\ Len(<<x, y>>) = 2 /\ ToSet(<<x, y>>) = {x, y}
         /\ <<x, y>>[1] = x /\ <<x, y>>[2] = y
<1>1. /\ <<x, y>> \in Seq({x, y}) /\ Len(<<x, y>>) = 2 /\ <<x, y>>[1] = x /\ <<x, y>>[2] = y
      /\ DOMAIN <<x, y>> = {1, 2}
  OBVIOUS
<1>2. ToSet(<<x, y>>) = {x, y}
  BY <1>1 DEF ToSet
<1>3. QED
  BY <1>1, <1>2 DEF IsList

(* What is in one of the lists is in all of them together.                  *)
LEMMA FlattenElements ==
  ASSUME NEW n \in Nat, NEW seqs, seqs = [k \in 1 .. n |-> seqs[k]],
         \A k \in 1 .. n : IsList(seqs[k])
  PROVE  /\ IsList(FlattenSeq(seqs))
         /\ ToSet(FlattenSeq(seqs)) = UNION {ToSet(seqs[k]) : k \in 1 .. n}
<1> DEFINE q == FlattenSeq(seqs)
           U == UNION {ToSet(seqs[k]) : k \in 1 .. n}
<1>1. IsList(q) /\ \E a, b : Spread(a, b, q, seqs, n)
  BY FlattenGives
<1> HIDE DEF q
<1>2. PICK a, b : Spread(a, b, q, seqs, n)
  BY <1>1
<1>3. ASSUME NEW x \in ToSet(q) PROVE x \in U
  <2>1. PICK p \in 1 .. Len(q) : q[p] = x
    BY <1>1, ListFacts
  <2>2. a[p] \in 1 .. n /\ b[p] \in 1 .. Len(seqs[a[p]]) /\ x = seqs[a[p]][b[p]]
    BY <1>2, <2>1 DEF Spread
  <2>3. x \in ToSet(seqs[a[p]])
    BY <2>2, ListFacts
  <2>4. QED
    BY <2>2, <2>3
<1>4. ASSUME NEW k \in 1 .. n, NEW x \in ToSet(seqs[k]) PROVE x \in ToSet(q)
  <2>1. PICK o \in 1 .. Len(seqs[k]) : seqs[k][o] = x
    BY <1>4, ListFacts
  <2>2. PICK p \in 1 .. Len(q) : a[p] = k /\ b[p] = o
    BY <1>2, <2>1 DEF Spread
  <2>3. q[p] = x
    BY <1>2, <2>1, <2>2 DEF Spread
  <2>4. QED
    BY <1>1, <2>3, ListFacts
<1>5. ToSet(q) = U
  BY <1>3, <1>4
<1>6. QED
  BY <1>1, <1>5 DEF q

-----------------------------------------------------------------------------
(* What the interjections module stages.                                    *)
SpokenAt(rows, t) == \E s \in rows : s.style = "" /\ s.ts = t

InterjectionRowOK(r, rows, times, starts) ==
  /\ r.camera = NoCamera /\ r.ts \in ToSet(times)
  /\ r.style \in {"", "interjection"}
  /\ r.role = IF r.style = "" THEN "assistant" ELSE "user"
  /\ r.style = "interjection" => r.ts \in starts /\ SpokenAt(rows, r.ts)

InterjectionsOK(rows, times, starts) ==
  IsList(rows) /\ \A r \in ToSet(rows) : InterjectionRowOK(r, ToSet(rows), times, starts)

LEMMA InterjectionRowKept ==
  ASSUME NEW r, NEW rows, NEW more, rows \subseteq more, NEW times, NEW starts,
         InterjectionRowOK(r, rows, times, starts)
  PROVE  InterjectionRowOK(r, more, times, starts)
BY DEF InterjectionRowOK, SpokenAt

LEMMA EmptyInterjectionsOK ==
  ASSUME NEW times, NEW starts
  PROVE  InterjectionsOK(<< >>, times, starts)
BY ListEmpty DEF InterjectionsOK

LEMMA SpokenRow ==
  ASSUME NEW t, NEW words
  PROVE  LET y == SpeechAtom(t, words)
         IN  y.camera = NoCamera /\ y.ts = t /\ y.style = "" /\ y.role = "assistant"
BY DEF Row, SpeechAtom

LEMMA InterjectionsModuleOK ==
  ASSUME NEW record, Clock(record.times), NEW spans, IsList(spans), NEW drawn, NEW said,
         \A i \in 1 .. Len(spans) : spans[i].start \in ToSet(record.times)
  PROVE  InterjectionsOK(InterjectionsModule(record, spans, drawn, said), record.times, Starts(spans))
<1> DEFINE times == record.times
           n == Len(spans)
           ids == [i \in DOMAIN spans |-> i]
           cues == Only(ids, drawn)
           m == Len(cues)
           seqs == [k \in DOMAIN cues |->
                      Interjection(Snap(times, spans[cues[k]].start), cues[k] \in said.cued)]
           A == IF said.greets THEN <<SpeechAtom(Head(times), "hello")>> ELSE << >>
           B == FlattenSeq(seqs)
           R == InterjectionsModule(record, spans, drawn, said)
           Fine(r, s) == InterjectionRowOK(r, s, times, Starts(spans))
<1>1. n \in Nat /\ DOMAIN spans = 1 .. n
  BY ListFacts
<1>2. IsList(ids) /\ ToSet(ids) \subseteq 1 .. n
  <2>1. ids = [i \in 1 .. n |-> ids[i]] /\ \A i \in 1 .. n : ids[i] = i
    BY <1>1
  <2> HIDE DEF ids
  <2>2. IsList(ids) /\ ToSet(ids) = {ids[i] : i \in 1 .. n}
    BY <1>1, <2>1, ListMade
  <2>3. QED
    BY <2>1, <2>2
<1>3. R = A \o B
  BY DEF InterjectionsModule
<1> HIDE DEF ids, R
<1>4. IsList(cues) /\ ToSet(cues) \subseteq 1 .. n
  BY <1>2, OnlyGives
<1> HIDE DEF cues
<1>5. /\ m \in Nat /\ DOMAIN cues = 1 .. m
      /\ \A k \in 1 .. m : cues[k] \in 1 .. n
  BY <1>4, ListFacts
<1>6. /\ seqs = [k \in 1 .. m |-> seqs[k]]
      /\ \A k \in 1 .. m :
           seqs[k] = Interjection(Snap(times, spans[cues[k]].start), cues[k] \in said.cued)
  BY <1>5
<1> HIDE DEF seqs, m
<1>7. ASSUME NEW k \in 1 .. m
      PROVE  IsList(seqs[k]) /\ \A r \in ToSet(seqs[k]) : Fine(r, ToSet(seqs[k]))
  <2> DEFINE t == spans[cues[k]].start
             x == Row("user", "interjection", t, NoCamera, <<"next">>, Null)
             y == SpeechAtom(t, "on it")
             q == seqs[k]
  <2>1. t \in Starts(spans) /\ t \in ToSet(times) /\ t \in Int
    BY <1>5, ClockFacts DEF Starts
  <2>2. Snap(times, t) = t
    BY <2>1, Nearest
  <2>3. q = Interjection(t, cues[k] \in said.cued)
    BY <1>6, <2>2
  <2> HIDE DEF t, q
  <2>4. q = << >> \/ q = <<x, y>>
    BY <2>3 DEF Interjection
  <2>5. x.camera = NoCamera /\ x.ts = t /\ x.style = "interjection" /\ x.role = "user"
    <3> DEFINE text == <<"next">>
    <3> HIDE DEF text
    <3>1. x = Row("user", "interjection", t, NoCamera, text, Null)
      BY DEF text
    <3> HIDE DEF x
    <3>2. QED
      BY <3>1 DEF Row
  <2>9. y.camera = NoCamera /\ y.ts = t /\ y.style = "" /\ y.role = "assistant"
    BY SpokenRow
  <2> HIDE DEF x, y
  <2>6. CASE q = << >>
    BY <2>6, ListEmpty DEF q
  <2>7. CASE q = <<x, y>>
    <3>1. IsList(q) /\ ToSet(q) = {x, y}
      BY <2>7, ListPair
    <3>2. SpokenAt({x, y}, t)
      BY <2>9 DEF SpokenAt
    <3>4. Fine(x, {x, y})
      BY <2>1, <2>5, <3>2 DEF InterjectionRowOK
    <3>5. Fine(y, {x, y})
      BY <2>1, <2>9 DEF InterjectionRowOK
    <3>3. QED
      BY <3>1, <3>4, <3>5 DEF q
  <2>8. QED
    BY <2>4, <2>6, <2>7
<1>8. m \in Nat
  BY <1>5
<1>9. IsList(B) /\ ToSet(B) = UNION {ToSet(seqs[k]) : k \in 1 .. m}
  BY <1>6, <1>7, <1>8, FlattenElements
<1>10. ASSUME NEW r \in ToSet(B) PROVE Fine(r, ToSet(B))
  <2> HIDE DEF B
  <2>1. PICK k \in 1 .. m : r \in ToSet(seqs[k])
    BY <1>9
  <2>2. Fine(r, ToSet(seqs[k]))
    BY <1>7, <2>1
  <2>3. ToSet(seqs[k]) \subseteq ToSet(B)
    BY <1>9
  <2>4. QED
    BY <2>2, <2>3, InterjectionRowKept
<1>11. IsList(A) /\ \A r \in ToSet(A) : Fine(r, ToSet(A))
  <2>1. CASE said.greets
    <3> DEFINE y == SpeechAtom(Head(times), "hello")
    <3>1. A = <<y>>
      BY <2>1
    <3>2. y.camera = NoCamera /\ y.ts = Head(times) /\ y.style = "" /\ y.role = "assistant"
      BY SpokenRow
    <3> HIDE DEF y, A
    <3>3. IsList(A) /\ ToSet(A) = {y}
      BY <3>1, ListSingle
    <3>4. Fine(y, {y})
      BY <3>2, ClockFacts DEF InterjectionRowOK
    <3>5. QED
      BY <3>3, <3>4
  <2>2. CASE ~said.greets
    <3>1. A = << >>
      BY <2>2
    <3> HIDE DEF A
    <3>2. QED
      BY <3>1, ListEmpty
  <2>3. QED
    BY <2>1, <2>2
<1> HIDE DEF A, B
<1>12. IsList(R) /\ ToSet(R) = ToSet(A) \cup ToSet(B)
  BY <1>3, <1>9, <1>11, Joined
<1>13. \A r \in ToSet(R) : Fine(r, ToSet(R))
  <2> TAKE r \in ToSet(R)
  <2>1. CASE r \in ToSet(A)
    BY <1>11, <1>12, <2>1, InterjectionRowKept
  <2>2. CASE r \in ToSet(B)
    BY <1>10, <1>12, <2>2, InterjectionRowKept
  <2>3. QED
    BY <1>12, <2>1, <2>2
<1>14. InterjectionsOK(R, times, Starts(spans))
  BY <1>12, <1>13 DEF InterjectionsOK
<1>15. QED
  BY <1>14 DEF R

(* An interjection falls on a subtask, which has a plan already.            *)
LEMMA UpdatesNothing ==
  ASSUME NEW record, Clock(record.times), NEW cfg, cfg.emitPlan, NEW rows,
         PlanOK(rows, record.times, cfg), NEW interjected, IsList(interjected),
         ToSet(interjected) \subseteq TimesOf(rows, "subtask")
  PROVE  PlanUpdates(rows, record, interjected) = rows
<1> DEFINE times == record.times
           planned == TimesIn(Styled(rows, "plan"))
           n == Len(interjected)
           snapped == [i \in DOMAIN interjected |-> Snap(times, interjected[i])]
           asked == Distinct(snapped)
           set == {t \in ToSet(asked) \ planned : Plan(Spans(rows), t) # << >>}
           new == Only(asked, set)
           added == [i \in DOMAIN new |-> PlanRow(Spans(rows), new[i])]
<1>1. IsList(rows) /\ TimesOf(rows, "plan") = TimesOf(rows, "subtask")
  BY DEF PlanOK
<1>2. TimesOf(rows, "subtask") \subseteq ToSet(times)
  BY DEF PlanOK, TimesOf
<1>3. planned = TimesOf(rows, "subtask")
  BY <1>1, StyledIs
<1>4. n \in Nat /\ DOMAIN interjected = 1 .. n /\ \A i \in 1 .. n : interjected[i] \in planned
  BY <1>3, ListFacts
<1>5. \A i \in 1 .. n : Snap(times, interjected[i]) = interjected[i]
  <2> TAKE i \in 1 .. n
  <2>1. interjected[i] \in ToSet(times) /\ interjected[i] \in Int
    BY <1>2, <1>3, <1>4, ClockFacts
  <2>2. QED
    BY <2>1, Nearest
<1>6. IsList(snapped) /\ ToSet(snapped) \subseteq planned
  <2>1. snapped = [i \in 1 .. n |-> snapped[i]] /\ \A i \in 1 .. n : snapped[i] \in planned
    BY <1>4, <1>5
  <2> HIDE DEF snapped, planned
  <2>2. IsList(snapped) /\ ToSet(snapped) = {snapped[i] : i \in 1 .. n}
    BY <1>4, <2>1, ListMade
  <2>3. QED
    BY <2>1, <2>2
<1>7. IsList(asked) /\ ToSet(asked) \subseteq planned
  <2> HIDE DEF snapped
  <2> QED
    BY <1>6, DistinctIs
<1>8. PlanUpdates(rows, record, interjected) = rows \o added
  BY DEF PlanUpdates
<1> HIDE DEF asked
<1>9. set = {}
  BY <1>7
<1> HIDE DEF set
<1>10. IsList(new) /\ ToSet(new) = {}
  BY <1>7, <1>9, OnlyGives
<1> HIDE DEF new
<1>11. Len(new) = 0 /\ DOMAIN new = {}
  <2>1. Len(new) \in Nat /\ DOMAIN new = 1 .. Len(new) /\ \A i \in 1 .. Len(new) : new[i] \in ToSet(new)
    BY <1>10, ListFacts
  <2>2. Len(new) = 0
    <3>1. ASSUME Len(new) # 0 PROVE FALSE
      <4>1. 1 \in 1 .. Len(new)
        BY <2>1, <3>1
      <4>2. QED
        BY <1>10, <2>1, <4>1
    <3>2. QED
      BY <3>1
  <2>3. QED
    BY <2>1, <2>2
<1>12. added = << >>
  BY <1>11
<1> HIDE DEF added
<1>13. rows \o << >> = rows
  BY <1>1 DEF IsList
<1>14. QED
  BY <1>8, <1>12, <1>13

-----------------------------------------------------------------------------
(* What the plan module is asked to stage.                                  *)
LEMMA SpansSpan ==
  ASSUME NEW times, Clock(times), NEW spans \in SpanSequences(times)
  PROVE  Spanned(spans, times)
<1>1. PICK s \in SUBSET ToSet(times) :
        /\ Head(times) \in s
        /\ spans = [k \in DOMAIN Only(times, s) |-> [start |-> Only(times, s)[k], text |-> Labels[k]]]
  BY DEF SpanSequences
<1> DEFINE q == Only(times, s)
           n == Len(q)
<1>2. /\ IsList(times) /\ Head(times) = times[1] /\ Len(times) \in Nat \ {0}
      /\ 1 \in 1 .. Len(times)
      /\ \A i, j \in 1 .. Len(times) : i < j => times[i] < times[j]
  BY ClockFacts DEF Clock
<1>3. IsList(q) /\ ToSet(q) = ToSet(times) \cap s
  BY <1>2, OnlyGives
<1>4. PICK f : Chosen(f, q, times, Len(times), s)
  BY <1>2, OnlyGives
<1> HIDE DEF q
<1>5. n \in Nat /\ DOMAIN q = 1 .. n /\ \A i \in 1 .. n : q[i] \in ToSet(times)
  BY <1>3, ListFacts
<1>6. /\ f \in [1 .. n -> 1 .. Len(times)] /\ \A a, b \in 1 .. n : a < b => f[a] < f[b]
      /\ \A k \in 1 .. n : q[k] = times[f[k]]
  BY <1>4 DEF Chosen
<1>7. \A i, j \in 1 .. n : i < j => q[i] < q[j]
  <2> TAKE i, j \in 1 .. n
  <2> HAVE i < j
  <2>1. f[i] < f[j] /\ f[i] \in 1 .. Len(times) /\ f[j] \in 1 .. Len(times)
    BY <1>6
  <2>2. QED
    BY <1>2, <1>6, <2>1
<1>8. n # 0 /\ q[1] = times[1]
  <2>1. PICK k \in 1 .. n : f[k] = 1
    BY <1>1, <1>2, <1>4 DEF Chosen
  <2>2. f \in [1 .. n -> Nat \ {0}]
    BY <1>2, <1>6
  <2>3. k <= f[k]
    BY <1>5, <1>6, <2>2, RisesAbove
  <2>4. k = 1
    BY <1>5, <2>1, <2>3
  <2>5. QED
    BY <1>5, <1>6, <2>1, <2>4
<1>9. /\ spans = [i \in 1 .. n |-> spans[i]]
      /\ \A i \in 1 .. n : spans[i] = [start |-> q[i], text |-> Labels[i]]
  BY <1>1, <1>5 DEF q
<1> HIDE DEF n
<1>10. \A i \in 1 .. n : /\ spans[i].start = q[i] /\ spans[i].text = Labels[i]
                         /\ spans[i] = [start |-> spans[i].start, text |-> spans[i].text]
  BY <1>9
<1>11. IsList(spans) /\ Len(spans) = n
  BY <1>5, <1>9, ListMade DEF n
<1>12. 1 \in 1 .. n
  BY <1>5, <1>8 DEF n
<1>14. Len(spans) # 0 /\ spans[1].start = times[1]
  BY <1>8, <1>10, <1>11, <1>12 DEF n
<1>15. \A i \in 1 .. Len(spans) :
         /\ spans[i] = [start |-> spans[i].start, text |-> spans[i].text]
         /\ spans[i].start \in ToSet(times)
  BY <1>5, <1>10, <1>11 DEF n
<1>16. \A i, j \in 1 .. Len(spans) : i < j => spans[i].start < spans[j].start
  BY <1>7, <1>10, <1>11
<1>13. QED
  BY <1>11, <1>14, <1>15, <1>16 DEF Spanned

-----------------------------------------------------------------------------
(* What the vqa module stages.                                              *)
LEMMA TickTimes ==
  ASSUME NEW times, Clock(times), NEW period \in Nat \ {0}
  PROVE  \E n \in Nat : /\ DOMAIN Ticks(times, period) = 1 .. n
                        /\ \A k \in 1 .. n : Ticks(times, period)[k] \in Int
<1> DEFINE m == (Last(times) - Head(times)) \div period + 1
           ticks == Ticks(times, period)
<1>1. Len(times) \in 1 .. Len(times) /\ Head(times) \in Nat /\ Last(times) \in Nat
  BY ClockFacts DEF Last
<1>2. m \in Int
  BY <1>1
<1>3. ticks = [k \in 1 .. m |-> Head(times) + (k - 1) * period]
  BY DEF Ticks
<1> HIDE DEF m, ticks
<1>4. DOMAIN ticks = 1 .. m /\ \A k \in 1 .. m : ticks[k] = Head(times) + (k - 1) * period
  BY <1>3
<1>5. \A k \in 1 .. m : ticks[k] \in Int
  <2> TAKE k \in 1 .. m
  <2>1. k \in Int /\ (k - 1) * period \in Int
    BY <1>2
  <2>2. QED
    BY <1>1, <1>4, <2>1
<1>6. CASE m >= 0
  BY <1>2, <1>4, <1>5, <1>6 DEF ticks
<1>7. CASE m < 0
  <2>1. 1 .. m = 1 .. 0
    BY <1>2, <1>7
  <2>2. QED
    BY <1>4, <1>5, <2>1 DEF ticks
<1>8. QED
  BY <1>2, <1>6, <1>7

LEMMA AnchorsAre ==
  ASSUME NEW times, Clock(times), NEW cfg \in Configs
  PROVE  LET anchors == Anchors(times, cfg)
         IN  /\ IsList(anchors) /\ ToSet(anchors) \subseteq 1 .. Len(times)
             /\ \A i, j \in 1 .. Len(anchors) : i # j => anchors[i] # anchors[j]
<1>1. cfg.period \in Nat \ {0} /\ cfg.K \in Nat
  BY ConfigsAssumption
<1> DEFINE ticks == Ticks(times, cfg.period)
           next(k) == [o \in 1 .. cfg.K |-> NearestIndex(times, ticks[k]) + o - 1]
           seqs == [k \in DOMAIN ticks |-> Only(next(k), DOMAIN times)]
           flat == FlattenSeq(seqs)
<1>2. PICK n \in Nat : DOMAIN ticks = 1 .. n /\ \A k \in 1 .. n : ticks[k] \in Int
  BY <1>1, TickTimes
<1>3. Anchors(times, cfg) = Distinct(flat)
  BY DEF Anchors
<1> HIDE DEF ticks
<1>4. seqs = [k \in 1 .. n |-> seqs[k]] /\ \A k \in 1 .. n : seqs[k] = Only(next(k), DOMAIN times)
  BY <1>2
<1> HIDE DEF seqs
<1>5. ASSUME NEW k \in 1 .. n
      PROVE  IsList(seqs[k]) /\ ToSet(seqs[k]) \subseteq 1 .. Len(times)
  <2> DEFINE f == next(k)
  <2>1. f = [o \in 1 .. cfg.K |-> f[o]]
    OBVIOUS
  <2>2. seqs[k] = Only(f, DOMAIN times)
    BY <1>4
  <2> HIDE DEF f
  <2>3. IsList(f)
    BY <1>1, <2>1, ListMade
  <2>4. IsList(Only(f, DOMAIN times)) /\ ToSet(Only(f, DOMAIN times)) = ToSet(f) \cap DOMAIN times
    BY <2>3, OnlyGives
  <2>5. DOMAIN times = 1 .. Len(times)
    BY ClockFacts
  <2>6. QED
    BY <2>2, <2>4, <2>5
<1>6. IsList(flat) /\ ToSet(flat) = UNION {ToSet(seqs[k]) : k \in 1 .. n}
  BY <1>4, <1>5, FlattenElements
<1>7. ToSet(flat) \subseteq 1 .. Len(times)
  BY <1>5, <1>6
<1> HIDE DEF flat
<1>8. QED
  BY <1>3, <1>6, <1>7, DistinctIs

LEMMA TargetsAre ==
  ASSUME NEW cfg
  PROVE  LET cameras == TargetCameras(cfg)
         IN  /\ IsList(cameras) /\ ToSet(cameras) \subseteq ToSet(Cameras)
             /\ \A i, j \in 1 .. Len(cameras) : i # j => cameras[i] # cameras[j]
<1>1. /\ IsList(Cameras)
      /\ \A i, j \in 1 .. Len(Cameras) : Cameras[i] = Cameras[j] => i = j
  <2>1. Cameras \in Seq(Nat \ {0}) /\ \A i, j \in DOMAIN Cameras : Cameras[i] = Cameras[j] => i = j
    BY CamerasAssumption
  <2>2. IsList(Cameras)
    BY <2>1, ListOf
  <2>3. QED
    BY <2>1, <2>2, ListFacts
<1>2. CASE cfg.restrict /\ Contains(Cameras, DefaultCamera)
  <2> DEFINE d == DefaultCamera
  <2>1. TargetCameras(cfg) = <<d>>
    BY <1>2 DEF TargetCameras
  <2>2. d \in ToSet(Cameras)
    BY <1>1, <1>2, ListFacts DEF Contains
  <2>3. IsList(<<d>>) /\ Len(<<d>>) = 1 /\ ToSet(<<d>>) = {d}
    BY ListSingle
  <2>4. \A i, j \in 1 .. 1 : i = j
    OBVIOUS
  <2>5. QED
    BY <2>1, <2>2, <2>3, <2>4
<1>3. CASE ~(cfg.restrict /\ Contains(Cameras, DefaultCamera))
  <2>1. TargetCameras(cfg) = Cameras
    BY <1>3 DEF TargetCameras
  <2>2. QED
    BY <1>1, <2>1
<1>4. QED
  BY <1>2, <1>3

LEMMA CallsAre ==
  ASSUME NEW record, Clock(record.times), NEW cfg \in Configs
  PROVE  LET calls == Calls(record, cfg)
         IN  /\ IsList(calls)
             /\ \A p \in 1 .. Len(calls) :
                  calls[p].ts \in ToSet(record.times) /\ calls[p].camera \in ToSet(Cameras)
             /\ \A p, r \in 1 .. Len(calls) :
                  calls[p].ts = calls[r].ts /\ calls[p].camera = calls[r].camera => p = r
<1> DEFINE times == record.times
           anchors == Anchors(times, cfg)
           cameras == TargetCameras(cfg)
           n == Len(anchors)
           m == Len(cameras)
           seqs == [a \in DOMAIN anchors |->
                      [c \in DOMAIN cameras |-> [ts |-> times[anchors[a]], camera |-> cameras[c]]]]
           calls == FlattenSeq(seqs)
<1>1. /\ n \in Nat /\ DOMAIN anchors = 1 .. n
      /\ \A i \in 1 .. n : anchors[i] \in 1 .. Len(times)
      /\ \A i, j \in 1 .. n : i # j => anchors[i] # anchors[j]
  <2>1. IsList(anchors) /\ ToSet(anchors) \subseteq 1 .. Len(times)
        /\ \A i, j \in 1 .. n : i # j => anchors[i] # anchors[j]
    BY AnchorsAre
  <2> HIDE DEF anchors
  <2>2. QED
    BY <2>1, ListFacts
<1>2. /\ m \in Nat /\ DOMAIN cameras = 1 .. m
      /\ \A i \in 1 .. m : cameras[i] \in ToSet(Cameras)
      /\ \A i, j \in 1 .. m : i # j => cameras[i] # cameras[j]
  <2>1. IsList(cameras) /\ ToSet(cameras) \subseteq ToSet(Cameras)
        /\ \A i, j \in 1 .. m : i # j => cameras[i] # cameras[j]
    BY TargetsAre
  <2> HIDE DEF cameras
  <2>2. QED
    BY <2>1, ListFacts
<1>3. Calls(record, cfg) = calls
  BY DEF Calls
<1> HIDE DEF anchors, cameras
<1>4. /\ seqs = [a \in 1 .. n |-> seqs[a]]
      /\ \A a \in 1 .. n :
           seqs[a] = [c \in 1 .. m |-> [ts |-> times[anchors[a]], camera |-> cameras[c]]]
  BY <1>1, <1>2
<1> HIDE DEF seqs, n, m
<1>5. ASSUME NEW a \in 1 .. n
      PROVE  /\ IsList(seqs[a]) /\ Len(seqs[a]) = m
             /\ \A c \in 1 .. m : seqs[a][c] = [ts |-> times[anchors[a]], camera |-> cameras[c]]
  <2> DEFINE q == seqs[a]
  <2> DEFINE call(c) == [ts |-> times[anchors[a]], camera |-> cameras[c]]
  <2>4. q = [c \in 1 .. m |-> call(c)]
    BY <1>4
  <2> HIDE DEF q, call
  <2>5. q = [c \in 1 .. m |-> q[c]]
    BY <2>4
  <2>6. \A c \in 1 .. m : q[c] = call(c)
    BY <2>4
  <2>1. /\ q = [c \in 1 .. m |-> q[c]]
        /\ \A c \in 1 .. m : q[c] = [ts |-> times[anchors[a]], camera |-> cameras[c]]
    BY <2>5, <2>6 DEF call
  <2>2. IsList(q) /\ Len(q) = m
    BY <1>2, <2>1, ListMade
  <2>3. QED
    BY <2>1, <2>2 DEF q
<1>6. IsList(calls) /\ \E a, b : Spread(a, b, calls, seqs, n)
  BY <1>1, <1>4, <1>5, FlattenGives
<1>7. PICK a, b : Spread(a, b, calls, seqs, n)
  BY <1>6
<1> HIDE DEF calls
<1>8. ASSUME NEW p \in 1 .. Len(calls)
      PROVE  /\ a[p] \in 1 .. n /\ b[p] \in 1 .. m
             /\ calls[p].ts = times[anchors[a[p]]] /\ calls[p].camera = cameras[b[p]]
  <2>1. a[p] \in 1 .. n /\ b[p] \in 1 .. Len(seqs[a[p]]) /\ calls[p] = seqs[a[p]][b[p]]
    BY <1>7 DEF Spread
  <2>2. Len(seqs[a[p]]) = m /\ b[p] \in 1 .. m
    BY <1>5, <2>1
  <2>3. calls[p] = [ts |-> times[anchors[a[p]]], camera |-> cameras[b[p]]]
    BY <1>5, <2>1, <2>2
  <2>4. QED
    BY <2>1, <2>2, <2>3
<1>9. ASSUME NEW p \in 1 .. Len(calls)
      PROVE  calls[p].ts \in ToSet(times) /\ calls[p].camera \in ToSet(Cameras)
  <2>1. a[p] \in 1 .. n /\ b[p] \in 1 .. m
        /\ calls[p].ts = times[anchors[a[p]]] /\ calls[p].camera = cameras[b[p]]
    BY <1>8
  <2>2. anchors[a[p]] \in 1 .. Len(times)
    BY <1>1, <2>1
  <2>3. times[anchors[a[p]]] \in ToSet(times)
    BY <2>2, ClockFacts, ListFacts
  <2>4. QED
    BY <1>2, <2>1, <2>3
<1>10. ASSUME NEW p \in 1 .. Len(calls), NEW r \in 1 .. Len(calls),
              calls[p].ts = calls[r].ts, calls[p].camera = calls[r].camera
       PROVE  p = r
  <2>1. a[p] \in 1 .. n /\ b[p] \in 1 .. m
        /\ calls[p].ts = times[anchors[a[p]]] /\ calls[p].camera = cameras[b[p]]
    BY <1>8
  <2>2. a[r] \in 1 .. n /\ b[r] \in 1 .. m
        /\ calls[r].ts = times[anchors[a[r]]] /\ calls[r].camera = cameras[b[r]]
    BY <1>8
  <2>3. b[p] = b[r]
    BY <1>2, <1>10, <2>1, <2>2
  <2>4. anchors[a[p]] \in 1 .. Len(times) /\ anchors[a[r]] \in 1 .. Len(times)
    BY <1>1, <2>1, <2>2
  <2>5. \A i, j \in 1 .. Len(times) : i # j => times[i] # times[j]
    BY ClockFacts
  <2>6. anchors[a[p]] = anchors[a[r]]
    BY <1>10, <2>1, <2>2, <2>4, <2>5
  <2>7. a[p] = a[r]
    BY <1>1, <2>1, <2>2, <2>6
  <2>8. QED
    BY <1>7, <2>3, <2>7 DEF Spread
<1>11. QED
  BY <1>3, <1>6, <1>9, <1>10

VqaRowOK(r, times) ==
  /\ r.style = "vqa" /\ r.role \in {"user", "assistant"}
  /\ r.camera \in ToSet(Cameras) /\ r.ts \in ToSet(times)
  /\ r.role = "assistant" => r.text \notin {Null, <<"">>}

VqaOK(rows, times) ==
  IsList(rows) /\ ApartIn(rows, "vqa") /\ \A r \in ToSet(rows) : VqaRowOK(r, times)

LEMMA EmptyVqaOK ==
  ASSUME NEW times
  PROVE  VqaOK(<< >>, times)
BY ListEmpty DEF VqaOK, ApartIn

LEMMA SinglesApart ==
  ASSUME NEW x, NEW y, x # y
  PROVE  <<x>> \notin {<< >>, <<y>>}
<1>1. <<x>> # << >>
  BY ListSingle, ListEmpty
<1>2. <<x>>[1] = x /\ <<y>>[1] = y
  BY ListSingle
<1>3. <<x>> # <<y>>
  <2> SUFFICES ASSUME <<x>> = <<y>> PROVE FALSE
    OBVIOUS
  <2> QED
    BY <1>2
<1>4. QED
  BY <1>1, <1>3

PairOK(q, call, times) ==
  /\ IsList(q) /\ Len(q) \in {0, 2}
  /\ \A o \in 1 .. Len(q) :
       /\ VqaRowOK(q[o], times) /\ q[o].ts = call.ts /\ q[o].camera = call.camera
       /\ q[o].role = IF o = 1 THEN "user" ELSE "assistant"

LEMMA PairIs ==
  ASSUME NEW call, NEW shape, NEW times,
         call.ts \in ToSet(times), call.camera \in ToSet(Cameras)
  PROVE  PairOK(Pair(call, shape), call, times)
<1> DEFINE q == Pair(call, shape)
           asked == <<"question">>
           answer == <<shape>>
           x == Row("user", "vqa", call.ts, call.camera, asked, Null)
           y == Row("assistant", "vqa", call.ts, call.camera, answer, Null)
<1>1. q = IF shape # "" THEN <<x, y>> ELSE << >>
  BY DEF Pair
<1> HIDE DEF q
<1>2. CASE shape = ""
  <2>1. q = << >>
    BY <1>1, <1>2
  <2>2. QED
    BY <2>1, ListEmpty DEF q, PairOK
<1>3. CASE shape # ""
  <2>1. q = <<x, y>>
    BY <1>1, <1>3
  <2>2. answer \notin {Null, <<"">>}
    BY <1>3, SinglesApart DEF Null
  <2> HIDE DEF asked, answer
  <2>3. x.role = "user" /\ x.style = "vqa" /\ x.ts = call.ts /\ x.camera = call.camera
    BY DEF Row
  <2>4. /\ y.role = "assistant" /\ y.style = "vqa" /\ y.ts = call.ts /\ y.camera = call.camera
        /\ y.text = answer
    BY DEF Row
  <2> HIDE DEF x, y
  <2>5. IsList(q) /\ Len(q) = 2 /\ q[1] = x /\ q[2] = y
    BY <2>1, ListPair
  <2>6. VqaRowOK(x, times) /\ VqaRowOK(y, times)
    BY <2>2, <2>3, <2>4 DEF VqaRowOK
  <2>7. \A o \in 1 .. 2 : o = 1 \/ o = 2
    OBVIOUS
  <2>8. QED
    BY <2>3, <2>4, <2>5, <2>6, <2>7 DEF q, PairOK
<1>4. QED
  BY <1>2, <1>3

LEMMA VqaModuleOK ==
  ASSUME NEW record, Clock(record.times), NEW cfg \in Configs, NEW shapes
  PROVE  VqaOK(VqaModule(record, cfg, shapes), record.times)
<1> DEFINE times == record.times
           calls == Calls(record, cfg)
           n == Len(calls)
           seqs == [i \in DOMAIN calls |-> Pair(calls[i], shapes[i])]
           rows == FlattenSeq(seqs)
<1>1. /\ IsList(calls)
      /\ \A p \in 1 .. n : calls[p].ts \in ToSet(times) /\ calls[p].camera \in ToSet(Cameras)
      /\ \A p, r \in 1 .. n :
           calls[p].ts = calls[r].ts /\ calls[p].camera = calls[r].camera => p = r
  BY CallsAre
<1>2. VqaModule(record, cfg, shapes) = rows
  BY DEF VqaModule
<1> HIDE DEF calls
<1>3. n \in Nat /\ DOMAIN calls = 1 .. n
  BY <1>1, ListFacts
<1>4. seqs = [i \in 1 .. n |-> seqs[i]] /\ \A i \in 1 .. n : seqs[i] = Pair(calls[i], shapes[i])
  BY <1>3
<1> HIDE DEF seqs, n
<1>5. ASSUME NEW i \in 1 .. n
      PROVE  /\ IsList(seqs[i]) /\ Len(seqs[i]) \in {0, 2}
             /\ \A o \in 1 .. Len(seqs[i]) :
                  /\ VqaRowOK(seqs[i][o], times)
                  /\ seqs[i][o].ts = calls[i].ts /\ seqs[i][o].camera = calls[i].camera
                  /\ seqs[i][o].role = IF o = 1 THEN "user" ELSE "assistant"
  <2> DEFINE call == calls[i]
             shape == shapes[i]
  <2>1. seqs[i] = Pair(call, shape)
    BY <1>4
  <2>2. call.ts \in ToSet(times) /\ call.camera \in ToSet(Cameras)
    BY <1>1 DEF n
  <2> HIDE DEF call, shape, times
  <2>3. PairOK(Pair(call, shape), call, times)
    BY <2>2, PairIs
  <2>4. QED
    BY <2>1, <2>3 DEF call, PairOK
<1>6. IsList(rows) /\ \E a, b : Spread(a, b, rows, seqs, n)
  BY <1>3, <1>4, <1>5, FlattenGives
<1>7. PICK a, b : Spread(a, b, rows, seqs, n)
  BY <1>6
<1> HIDE DEF rows
<1>8. ASSUME NEW p \in 1 .. Len(rows)
      PROVE  /\ a[p] \in 1 .. n /\ b[p] \in 1 .. Len(seqs[a[p]]) /\ Len(seqs[a[p]]) \in {0, 2}
             /\ VqaRowOK(rows[p], times)
             /\ rows[p].ts = calls[a[p]].ts /\ rows[p].camera = calls[a[p]].camera
             /\ rows[p].role = IF b[p] = 1 THEN "user" ELSE "assistant"
  <2>1. a[p] \in 1 .. n /\ b[p] \in 1 .. Len(seqs[a[p]]) /\ rows[p] = seqs[a[p]][b[p]]
    BY <1>7 DEF Spread
  <2>2. QED
    BY <1>5, <2>1
<1>9. ASSUME NEW p \in 1 .. Len(rows), NEW r \in 1 .. Len(rows), p # r
      PROVE  Mark(rows[p]) # Mark(rows[r])
  <2> SUFFICES ASSUME Mark(rows[p]) = Mark(rows[r]) PROVE FALSE
    OBVIOUS
  <2>1. rows[p].ts = rows[r].ts /\ rows[p].camera = rows[r].camera /\ rows[p].role = rows[r].role
    BY DEF Mark
  <2>2. /\ a[p] \in 1 .. n /\ b[p] \in 1 .. Len(seqs[a[p]]) /\ Len(seqs[a[p]]) \in {0, 2}
        /\ rows[p].ts = calls[a[p]].ts /\ rows[p].camera = calls[a[p]].camera
        /\ rows[p].role = IF b[p] = 1 THEN "user" ELSE "assistant"
    BY <1>8
  <2>3. /\ a[r] \in 1 .. n /\ b[r] \in 1 .. Len(seqs[a[r]]) /\ Len(seqs[a[r]]) \in {0, 2}
        /\ rows[r].ts = calls[a[r]].ts /\ rows[r].camera = calls[a[r]].camera
        /\ rows[r].role = IF b[r] = 1 THEN "user" ELSE "assistant"
    BY <1>8
  <2>4. a[p] = a[r]
    BY <1>1, <2>1, <2>2, <2>3 DEF n
  <2>5. b[p] = 1 <=> b[r] = 1
    BY <2>1, <2>2, <2>3
  <2>6. b[p] \in {1, 2} /\ b[r] \in {1, 2}
    <3>1. \A l \in {0, 2} : \A o \in 1 .. l : o \in {1, 2}
      OBVIOUS
    <3>2. QED
      BY <2>2, <2>3, <3>1
  <2>7. b[p] = b[r]
    BY <2>5, <2>6
  <2>8. QED
    BY <1>7, <1>9, <2>4, <2>7 DEF Spread
<1>10. ApartIn(rows, "vqa")
  BY <1>9 DEF ApartIn
<1>11. \A r \in ToSet(rows) : VqaRowOK(r, times)
  BY <1>6, <1>8, ListFacts
<1>12. QED
  BY <1>2, <1>6, <1>10, <1>11 DEF VqaOK

-----------------------------------------------------------------------------
(* The rows of a run: what its frames, its records and its staging hold.    *)
IsFrame(row) ==
  /\ row = [ep |-> row.ep, ts |-> row.ts, task |-> row.task,
            persistent |-> row.persistent, events |-> row.events]
  /\ row.ts \in Int

FramesInv == IsList(shard.rows) /\ \A i \in 1 .. Len(shard.rows) : IsFrame(shard.rows[i])

(* A record has the times of the frames of its episode, each of one frame.  *)
FramesMatch(rows, e, times) ==
  /\ Clock(times)
  /\ \A i \in 1 .. Len(rows) : rows[i].ep = e => rows[i].ts \in ToSet(times)
  /\ \A t \in ToSet(times) : \E i \in 1 .. Len(rows) : rows[i].ep = e /\ rows[i].ts = t
  /\ \A i, j \in 1 .. Len(rows) :
       rows[i].ep = e /\ rows[j].ep = e /\ i # j => rows[i].ts # rows[j].ts

RecordsInv ==
  /\ DOMAIN records \subseteq EpisodesIn(shard)
  /\ waiting \subseteq DOMAIN records /\ skipped \subseteq DOMAIN records
  /\ \A e \in DOMAIN records : FramesMatch(shard.rows, e, records[e].times)
  /\ phase = "read" => DOMAIN records = {}

RowsOK(st, times, cfg) ==
  /\ PlanOK(st.plan, times, cfg)
  /\ InterjectionsOK(st.interjections, times, TimesOf(st.plan, "subtask"))
  /\ VqaOK(st.vqa, times)

StagedInv ==
  /\ config \in Configs /\ selected \in Selections
  /\ DOMAIN staged = EpisodesIn(shard)
  /\ \A e \in DOMAIN staged :
       /\ staged[e] = [m \in Modules |-> staged[e][m]]
       /\ e \notin DOMAIN records => staged[e] = Unstaged
       /\ e \in DOMAIN records => RowsOK(staged[e], records[e].times, config)
       /\ phase \in {"read", "plan"} => staged[e].interjections = << >>

WrittenInv ==
  phase = "done" =>
    \A e \in Replaced : \A t \in Int : \A i \in 1 .. Len(shard.rows) :
      shard.rows[i].ep = e /\ shard.rows[i].ts = t =>
        shard.rows[i].persistent = PersistentSlice(e) /\ shard.rows[i].events = Bucket(e, t)

RowsInv == FramesInv /\ RecordsInv /\ StagedInv /\ WrittenInv

LEMMA UnstagedOK ==
  ASSUME NEW times, NEW cfg
  PROVE  RowsOK(Unstaged, times, cfg)
<1>1. Unstaged.plan = << >> /\ Unstaged.interjections = << >> /\ Unstaged.vqa = << >>
  BY DEF Unstaged, Modules
<1>2. QED
  BY <1>1, EmptyPlanOK, EmptyInterjectionsOK, EmptyVqaOK DEF RowsOK

LEMMA RowsStart == ColumnsInit => RowsInv
<1> SUFFICES ASSUME ColumnsInit PROVE RowsInv
  OBVIOUS
<1>1. /\ shard \in Shards /\ config \in Configs /\ selected \in Selections /\ phase = "read"
      /\ records = << >> /\ waiting = {} /\ skipped = {}
      /\ staged = [e \in EpisodesIn(shard) |-> Unstaged]
  BY DEF ColumnsInit
<1>2. DOMAIN records = {}
  BY <1>1
<1>3. FramesInv
  <2>1. /\ shard.rows \in Seq(ToSet(shard.rows))
        /\ \A row \in ToSet(shard.rows) : IsFrame(row)
    BY <1>1, ShardsAssumption DEF IsFrame
  <2>2. IsList(shard.rows)
    BY <2>1 DEF IsList
  <2>3. QED
    BY <2>1, <2>2, ListFacts DEF FramesInv
<1>4. RecordsInv
  BY <1>1, <1>2 DEF RecordsInv
<1>5. StagedInv
  <2>1. Unstaged = [m \in Modules |-> Unstaged[m]] /\ Unstaged.interjections = << >>
    BY DEF Unstaged, Modules
  <2>2. QED
    BY <1>1, <1>2, <2>1 DEF StagedInv
<1>6. WrittenInv
  BY <1>1 DEF WrittenInv
<1>7. QED
  BY <1>3, <1>4, <1>5, <1>6 DEF RowsInv

-----------------------------------------------------------------------------
(* Reading the shard.                                                       *)
LEMMA RecordMatches ==
  ASSUME FramesInv, NEW e \in EpisodesIn(shard), TimesOK(Record(shard, e).times)
  PROVE  FramesMatch(shard.rows, e, Record(shard, e).times)
<1> DEFINE all == shard.rows
           set == {r \in ToSet(all) : r.ep = e}
           rows == RowsOf(shard, e)
           n == Len(rows)
           times == [i \in DOMAIN rows |-> rows[i].ts]
<1>1. /\ IsList(all) /\ Len(all) \in Nat /\ DOMAIN all = 1 .. Len(all)
      /\ \A i \in 1 .. Len(all) : all[i] \in ToSet(all) /\ all[i].ts \in Int
  BY ListFacts DEF FramesInv, IsFrame
<1>2. rows = Only(all, set)
  BY DEF RowsOf
<1>3. Record(shard, e).times = times
  BY DEF Record
<1> HIDE DEF rows
<1>4. IsList(rows) /\ ToSet(rows) = ToSet(all) \cap set
  BY <1>1, <1>2, OnlyGives
<1>5. PICK f : Chosen(f, rows, all, Len(all), set)
  BY <1>1, <1>2, OnlyGives
<1>6. n \in Nat /\ DOMAIN rows = 1 .. n
  BY <1>4, ListFacts
<1>7. /\ f \in [1 .. n -> 1 .. Len(all)]
      /\ \A k \in 1 .. n : rows[k] = all[f[k]] /\ rows[k] \in set
      /\ \A i \in 1 .. Len(all) : all[i] \in set => \E k \in 1 .. n : f[k] = i
  BY <1>5 DEF Chosen
<1>8. \A i \in 1 .. Len(all) : all[i].ep = e => \E k \in 1 .. n : f[k] = i
  BY <1>1, <1>7
<1>9. \A k \in 1 .. n : all[f[k]].ep = e
  BY <1>7
<1> HIDE DEF set, all
<1>10. times = [i \in 1 .. n |-> times[i]] /\ \A i \in 1 .. n : times[i] = all[f[i]].ts
  BY <1>6, <1>7
<1> HIDE DEF n, times
<1>11. /\ IsList(times) /\ Len(times) = n /\ DOMAIN times = 1 .. n
       /\ ToSet(times) = {times[i] : i \in 1 .. n}
  BY <1>6, <1>10, ListMade DEF n
<1>12. /\ \A i \in 1 .. n : times[i] >= 0 /\ times[i] \in Int
       /\ \A i, j \in 1 .. n : i < j => times[i] < times[j]
  BY <1>1, <1>3, <1>7, <1>10, <1>11 DEF TimesOK
<1>13. n # 0
  <2>1. PICK i \in 1 .. Len(all) : all[i].ep = e
    BY <1>1 DEF EpisodesIn, all
  <2>2. QED
    BY <1>6, <1>8, <2>1 DEF n
<1>14. Clock(times)
  <2>1. \A i \in 1 .. n : times[i] \in Nat
    BY <1>12
  <2>2. times \in Seq(Nat)
    BY <1>6, <1>10, <2>1 DEF n
  <2>3. QED
    BY <1>11, <1>12, <1>13, <2>2 DEF Clock
<1>15. \A i \in 1 .. Len(all) : all[i].ep = e => all[i].ts \in ToSet(times)
  BY <1>8, <1>10, <1>11
<1>16. \A t \in ToSet(times) : \E i \in 1 .. Len(all) : all[i].ep = e /\ all[i].ts = t
  BY <1>7, <1>9, <1>10, <1>11
<1>17. ASSUME NEW i \in 1 .. Len(all), NEW j \in 1 .. Len(all),
              all[i].ep = e, all[j].ep = e, i # j
       PROVE  all[i].ts # all[j].ts
  <2>1. PICK k \in 1 .. n : f[k] = i
    BY <1>8, <1>17
  <2>2. PICK l \in 1 .. n : f[l] = j
    BY <1>8, <1>17
  <2>3. k # l /\ k \in Int /\ l \in Int
    BY <1>17, <2>1, <2>2
  <2>4. times[k] # times[l]
    BY <1>12, <2>3
  <2>5. QED
    BY <1>10, <2>1, <2>2, <2>4
<1>18. QED
  BY <1>3, <1>14, <1>15, <1>16, <1>17 DEF FramesMatch, all

LEMMA ReadKeeps ==
  ASSUME ColumnsInv, RowsInv, Read
  PROVE  RowsInv'
<1> DEFINE eps == selected \cap EpisodesIn(shard)
<1>1. /\ phase = "read" /\ UNCHANGED <<shard, config, selected, staged, skipped>>
      /\ \/ /\ ReadableShard(shard, eps) /\ phase' = "plan" /\ waiting' = eps
            /\ records' = [e \in eps |-> Record(shard, e)]
         \/ phase' = "refused" /\ UNCHANGED <<waiting, records>>
  BY DEF Read
<1>2. FramesInv'
  BY <1>1 DEF RowsInv, FramesInv
<1>3. WrittenInv'
  BY <1>1 DEF WrittenInv
<1>4. CASE phase' = "refused" /\ UNCHANGED <<waiting, records>>
  <2>1. RecordsInv'
    BY <1>1, <1>4 DEF RowsInv, RecordsInv
  <2>2. StagedInv'
    BY <1>1, <1>4 DEF RowsInv, StagedInv
  <2>3. QED
    BY <1>2, <1>3, <2>1, <2>2 DEF RowsInv
<1>5. CASE /\ ReadableShard(shard, eps) /\ phase' = "plan" /\ waiting' = eps
           /\ records' = [e \in eps |-> Record(shard, e)]
  <2>1. DOMAIN records' = eps /\ \A e \in eps : records'[e].times = Record(shard, e).times
    BY <1>5
  <2>2. \A e \in eps : FramesMatch(shard.rows, e, records'[e].times)
    BY <1>5, <2>1, RecordMatches DEF RowsInv, ReadableShard
  <2>3. skipped = {}
    BY <1>1 DEF RowsInv, RecordsInv
  <2>4. RecordsInv'
    BY <1>1, <1>5, <2>1, <2>2, <2>3 DEF RecordsInv
  <2>5. \A e \in DOMAIN staged : staged[e] = Unstaged
    BY <1>1 DEF RowsInv, RecordsInv, StagedInv
  <2>6. \A e \in DOMAIN staged : RowsOK(staged[e], records'[e].times, config)
    BY <2>5, UnstagedOK
  <2>7. StagedInv'
    BY <1>1, <1>5, <2>1, <2>5, <2>6 DEF RowsInv, StagedInv
  <2>8. QED
    BY <1>2, <1>3, <2>4, <2>7 DEF RowsInv
<1>6. QED
  BY <1>1, <1>4, <1>5

-----------------------------------------------------------------------------
(* Staging the rows of a module of one episode.                             *)
LEMMA StagesAnother ==
  ASSUME ColumnsInv, RowsInv, NEW e \in waiting, NEW m \in Modules, NEW rows,
         phase \in AtWork, phase = "plan" => m = "plan", StageRows(e, m, rows),
         RowsOK([staged[e] EXCEPT ![m] = rows], records[e].times, config)
  PROVE  RowsInv'
<1>1. /\ UNCHANGED <<shard, config, selected, records, skipped>>
      /\ staged' = [staged EXCEPT ![e][m] = rows]
      /\ phase' \in AtWork \cup {"validate"} /\ waiting' \subseteq DOMAIN records
      /\ phase' = "plan" => phase = "plan"
  BY DEF StageRows, Advance, NextPhase, AtWork, RowsInv, RecordsInv
<1>2. e \in DOMAIN records /\ e \in DOMAIN staged
  BY DEF RowsInv, RecordsInv, StagedInv
<1> DEFINE st == [staged[e] EXCEPT ![m] = rows]
<1>3. /\ DOMAIN staged' = DOMAIN staged /\ staged'[e] = st
      /\ \A f \in DOMAIN staged : f # e => staged'[f] = staged[f]
  BY <1>1, <1>2
<1>4. st = [k \in Modules |-> st[k]] /\ (m = "plan" => st.interjections = staged[e].interjections)
  BY <1>2 DEF RowsInv, StagedInv, Modules
<1>5. RowsOK(st, records[e].times, config)
  OBVIOUS
<1> HIDE DEF st
<1>6. FramesInv'
  BY <1>1 DEF RowsInv, FramesInv
<1>7. RecordsInv'
  BY <1>1 DEF RowsInv, RecordsInv, AtWork
<1>8. WrittenInv'
  BY <1>1 DEF WrittenInv, AtWork
<1>9. StagedInv'
  <2>1. ASSUME NEW f \in DOMAIN staged
        PROVE  /\ staged'[f] = [k \in Modules |-> staged'[f][k]]
               /\ f \notin DOMAIN records => staged'[f] = Unstaged
               /\ f \in DOMAIN records => RowsOK(staged'[f], records[f].times, config)
               /\ phase' \in {"read", "plan"} => staged'[f].interjections = << >>
    <3>1. CASE f = e
      BY <1>1, <1>2, <1>3, <1>4, <1>5, <3>1 DEF RowsInv, StagedInv, AtWork
    <3>2. CASE f # e
      BY <1>1, <1>3, <3>2 DEF RowsInv, StagedInv, AtWork
    <3>3. QED
      BY <3>1, <3>2
  <2>2. QED
    BY <1>1, <1>3, <2>1 DEF RowsInv, StagedInv
<1>10. QED
  BY <1>6, <1>7, <1>8, <1>9 DEF RowsInv

(* What is staged for an episode, and a part of it replaced.                *)
LEMMA WaitingOK ==
  ASSUME RowsInv, NEW e \in waiting
  PROVE  /\ config \in Configs /\ Clock(records[e].times)
         /\ staged[e] = [m \in Modules |-> staged[e][m]]
         /\ RowsOK(staged[e], records[e].times, config)
         /\ phase = "plan" => staged[e].interjections = << >>
BY DEF RowsInv, RecordsInv, StagedInv, FramesMatch

LEMMA Replacing ==
  ASSUME NEW st, st = [m \in Modules |-> st[m]], NEW m \in Modules, NEW rows
  PROVE  LET new == [st EXCEPT ![m] = rows]
         IN  /\ m = "plan" =>
                  new.plan = rows /\ new.interjections = st.interjections /\ new.vqa = st.vqa
             /\ m = "interjections" =>
                  new.plan = st.plan /\ new.interjections = rows /\ new.vqa = st.vqa
             /\ m = "vqa" =>
                  new.plan = st.plan /\ new.interjections = st.interjections /\ new.vqa = rows
BY DEF Modules

LEMMA EmptyIsIn ==
  ASSUME NEW T
  PROVE  << >> \in Seq(T)
OBVIOUS

LEMMA PlanKeeps ==
  ASSUME ColumnsInv, RowsInv, NEW e \in waiting, PlanPhase(e)
  PROVE  RowsInv'
<1> DEFINE some == IF config.augment = "off" THEN {<< >>} ELSE Phrasings
           answer(derived, raw, omissions, spans, remembered) ==
             [derived |-> derived, raw |-> raw,
              axes |-> [synonyms |-> raw, omissions |-> omissions],
              spans |-> spans, remembered |-> remembered]
           staging(derived, raw, omissions, spans, remembered) ==
             StageRows(e, "plan", PlanModule(records[e], config,
               answer(derived, raw, omissions, spans, remembered)))
<1>1. /\ phase = "plan"
      /\ \E derived \in IF config.derive = "off" THEN {""} ELSE {"", "derived"},
            raw \in some, omissions \in some, spans \in SpanSequences(records[e].times) :
           \E remembered \in SUBSET (DOMAIN spans \ {1}) :
             staging(derived, raw, omissions, spans, remembered)
  BY Zenon DEF PlanPhase
<1> HIDE DEF some
<1>2. PICK derived \in IF config.derive = "off" THEN {""} ELSE {"", "derived"}, raw \in some, omissions \in some,
           spans \in SpanSequences(records[e].times) :
        \E remembered \in SUBSET (DOMAIN spans \ {1}) :
          staging(derived, raw, omissions, spans, remembered)
  BY <1>1, Zenon
<1>14. PICK remembered : staging(derived, raw, omissions, spans, remembered)
  BY <1>2, Zenon
<1> DEFINE axes == [synonyms |-> raw, omissions |-> omissions]
           said == [derived |-> derived, raw |-> raw, axes |-> axes,
                    spans |-> spans, remembered |-> remembered]
           rows == PlanModule(records[e], config, said)
           old == staged[e]
           new == [old EXCEPT !["plan"] = rows]
<1>3. /\ config \in Configs /\ Clock(records[e].times)
      /\ staged[e] = [m \in Modules |-> staged[e][m]]
      /\ RowsOK(staged[e], records[e].times, config)
      /\ staged[e].interjections = << >>
  BY <1>1, WaitingOK
<1>4. raw \in Seq(STRING) /\ omissions \in Seq(STRING)
  <2>1. << >> \in Seq(STRING)
    BY EmptyIsIn
  <2>2. some \subseteq Seq(STRING)
    BY <2>1, PhrasingsAssumption, Zenon DEF some
  <2>3. QED
    BY <2>2
<1>5. axes.synonyms = raw /\ axes.omissions = omissions
  OBVIOUS
<1>6. StageRows(e, "plan", rows)
  BY <1>14
<1> HIDE DEF axes
<1>7. said.axes = axes /\ said.raw = raw /\ said.spans = spans
  OBVIOUS
<1> HIDE DEF said
<1>8. PlanOK(rows, records[e].times, config)
  <2>1. Spanned(said.spans, records[e].times)
    BY <1>2, <1>3, <1>7, SpansSpan
  <2>2. QED
    BY <1>3, <1>4, <1>5, <1>7, <2>1, PlanModuleOK
<1> HIDE DEF rows
<1>9. "plan" \in Modules
  BY DEF Modules
<1>10. new.plan = rows /\ new.interjections = << >> /\ new.vqa = staged[e].vqa
  <2> HIDE DEF old
  <2>1. old = [m \in Modules |-> old[m]] /\ old.interjections = << >>
    BY <1>3 DEF old
  <2>2. new.plan = rows /\ new.interjections = old.interjections /\ new.vqa = old.vqa
    BY <1>9, <2>1, Replacing
  <2>3. QED
    BY <2>1, <2>2 DEF old
<1> HIDE DEF new
<1>11. RowsOK(new, records[e].times, config)
  BY <1>3, <1>8, <1>10, EmptyInterjectionsOK DEF RowsOK
<1>12. phase \in AtWork
  BY <1>1 DEF AtWork
<1>13. QED
  BY <1>1, <1>6, <1>9, <1>11, <1>12, StagesAnother DEF new

(* The spans that are read back from staged rows.                           *)
LEMMA SubtasksUniform ==
  ASSUME NEW times, Clock(times), NEW cfg, NEW rows, PlanOK(rows, times, cfg),
         NEW style \in {"subtask", "plan", "memory"}
  PROVE  Uniform(Styled(rows, style), style)
<1>1. IsList(rows) /\ ApartIn(rows, style)
  BY DEF PlanOK
<1>2. style # "task_aug"
  OBVIOUS
<1>3. \A r \in ToSet(rows) :
        r.style = style => r.camera = NoCamera /\ r.role = "assistant" /\ r.ts \in Nat
  BY <1>2, ClockFacts DEF PlanOK
<1>4. QED
  BY <1>1, <1>3, StyledUniform

LEMMA SpansOf ==
  ASSUME NEW times, Clock(times), NEW cfg, NEW rows, PlanOK(rows, times, cfg)
  PROVE  /\ IsList(Spans(rows)) /\ Starts(Spans(rows)) = TimesOf(rows, "subtask")
         /\ TimesOf(rows, "subtask") \subseteq ToSet(times)
<1> DEFINE q == InTime(rows)
           n == Len(q)
           spans == Spans(rows)
<1>1. /\ IsList(q) /\ ToSet(q) = ToSet(Styled(rows, "subtask"))
      /\ spans = [i \in 1 .. n |-> [start |-> q[i].ts, text |-> Head(q[i].text)]]
  BY SubtasksUniform, InTimeIs
<1>2. ToSet(Styled(rows, "subtask")) = {r \in ToSet(rows) : r.style = "subtask"}
  BY StyledIs DEF PlanOK
<1>3. TimesOf(rows, "subtask") = {r.ts : r \in ToSet(q)}
  BY <1>1, <1>2 DEF TimesOf
<1> HIDE DEF q, spans
<1>4. /\ n \in Nat /\ \A i \in 1 .. n : q[i] \in ToSet(q)
      /\ \A r \in ToSet(q) : \E i \in 1 .. n : q[i] = r
  BY <1>1, ListFacts
<1> HIDE DEF n
<1>5. spans = [i \in 1 .. n |-> spans[i]]
  BY <1>1
<1>6. \A i \in 1 .. n : spans[i].start = q[i].ts
  BY <1>1
<1>7. IsList(spans) /\ Len(spans) = n
  BY <1>4, <1>5, ListMade
<1>8. Starts(spans) \subseteq {r.ts : r \in ToSet(q)}
  BY <1>4, <1>6, <1>7 DEF Starts
<1>9. {r.ts : r \in ToSet(q)} \subseteq Starts(spans)
  BY <1>4, <1>6, <1>7 DEF Starts
<1>10. TimesOf(rows, "subtask") \subseteq ToSet(times)
  BY DEF TimesOf, PlanOK
<1>11. QED
  BY <1>3, <1>7, <1>8, <1>9, <1>10 DEF spans

LEMMA InterjectionsKeeps ==
  ASSUME ColumnsInv, RowsInv, NEW e \in waiting, InterjectionsPhase(e)
  PROVE  RowsInv'
<1> DEFINE old == staged[e]
           spans == Spans(old.plan)
           times == records[e].times
<1>1. phase = "interjections" /\ \E drawn, said :
        StageRows(e, "interjections", InterjectionsModule(records[e], spans, drawn, said))
  BY Zenon DEF InterjectionsPhase
<1>2. PICK drawn, said :
        StageRows(e, "interjections", InterjectionsModule(records[e], spans, drawn, said))
  BY <1>1
<1> DEFINE rows == InterjectionsModule(records[e], spans, drawn, said)
           new == [old EXCEPT !["interjections"] = rows]
<1>3. /\ config \in Configs /\ Clock(times) /\ old = [m \in Modules |-> old[m]]
      /\ RowsOK(old, times, config)
  BY WaitingOK
<1>4. IsList(spans) /\ Starts(spans) = TimesOf(old.plan, "subtask")
      /\ TimesOf(old.plan, "subtask") \subseteq ToSet(times)
  BY <1>3, SpansOf DEF RowsOK
<1>5. StageRows(e, "interjections", rows)
  BY <1>2
<1> HIDE DEF spans, old
<1>6. InterjectionsOK(rows, times, Starts(spans))
  <2>1. \A i \in 1 .. Len(spans) : spans[i].start \in ToSet(times)
    BY <1>4 DEF Starts
  <2>2. QED
    BY <1>3, <1>4, <2>1, InterjectionsModuleOK
<1> HIDE DEF rows
<1>7. "interjections" \in Modules
  BY DEF Modules
<1>8. new.plan = old.plan /\ new.interjections = rows /\ new.vqa = old.vqa
  BY <1>3, <1>7, Replacing
<1> HIDE DEF new
<1>9. RowsOK(new, times, config)
  BY <1>3, <1>4, <1>6, <1>8 DEF RowsOK
<1>10. phase \in AtWork /\ phase # "plan"
  BY <1>1 DEF AtWork
<1>11. QED
  BY <1>5, <1>7, <1>9, <1>10, StagesAnother DEF new, old

LEMMA VqaKeeps ==
  ASSUME ColumnsInv, RowsInv, NEW e \in waiting, VqaPhase(e)
  PROVE  RowsInv'
<1> DEFINE old == staged[e]
           times == records[e].times
<1>1. phase = "vqa" /\ \E shapes :
        StageRows(e, "vqa", VqaModule(records[e], config, shapes))
  BY Zenon DEF VqaPhase
<1>2. PICK shapes : StageRows(e, "vqa", VqaModule(records[e], config, shapes))
  BY <1>1
<1> DEFINE rows == VqaModule(records[e], config, shapes)
           new == [old EXCEPT !["vqa"] = rows]
<1>3. /\ config \in Configs /\ Clock(times) /\ old = [m \in Modules |-> old[m]]
      /\ RowsOK(old, times, config)
  BY WaitingOK
<1>4. VqaOK(rows, times)
  BY <1>3, VqaModuleOK
<1> HIDE DEF rows, old
<1>5. "vqa" \in Modules
  BY DEF Modules
<1>6. new.plan = old.plan /\ new.interjections = old.interjections /\ new.vqa = rows
  BY <1>3, <1>5, Replacing
<1> HIDE DEF new
<1>7. RowsOK(new, times, config)
  BY <1>3, <1>4, <1>6 DEF RowsOK
<1>8. phase \in AtWork /\ phase # "plan"
  BY <1>1 DEF AtWork
<1>9. QED
  BY <1>2, <1>5, <1>7, <1>8, StagesAnother DEF new, old, rows

LEMMA UpdateKeeps ==
  ASSUME ColumnsInv, RowsInv, NEW e \in waiting, UpdatePhase(e)
  PROVE  RowsInv'
<1> DEFINE old == staged[e]
           times == records[e].times
           cues == Styled(old.interjections, "interjection")
           asked == [i \in DOMAIN cues |-> cues[i].ts]
           rows == IF config.emitPlan THEN PlanUpdates(old.plan, records[e], asked) ELSE old.plan
           new == [old EXCEPT !["plan"] = rows]
<1>1. phase = "update" /\ StageRows(e, "plan", rows)
  BY DEF UpdatePhase
<1>2. /\ config \in Configs /\ Clock(times) /\ old = [m \in Modules |-> old[m]]
      /\ RowsOK(old, times, config)
  BY WaitingOK
<1> HIDE DEF old
<1>3. IsList(asked) /\ ToSet(asked) \subseteq TimesOf(old.plan, "subtask")
  <2>1. IsList(cues) /\ ToSet(cues) = {r \in ToSet(old.interjections) : r.style = "interjection"}
    BY <1>2, StyledIs DEF RowsOK, InterjectionsOK
  <2>2. \A r \in ToSet(cues) : r.ts \in TimesOf(old.plan, "subtask")
    BY <1>2, <2>1 DEF RowsOK, InterjectionsOK, InterjectionRowOK
  <2> HIDE DEF cues
  <2>3. Len(cues) \in Nat /\ DOMAIN cues = 1 .. Len(cues)
        /\ \A i \in 1 .. Len(cues) : cues[i] \in ToSet(cues)
    BY <2>1, ListFacts
  <2>4. /\ asked = [i \in 1 .. Len(cues) |-> asked[i]]
        /\ \A i \in 1 .. Len(cues) : asked[i] = cues[i].ts
    BY <2>3
  <2> HIDE DEF asked
  <2>5. IsList(asked) /\ ToSet(asked) = {asked[i] : i \in 1 .. Len(cues)}
    BY <2>3, <2>4, ListMade
  <2>6. QED
    BY <2>2, <2>3, <2>4, <2>5
<1> HIDE DEF asked
<1>4. rows = old.plan
  <2>1. CASE config.emitPlan
    <3>1. PlanOK(old.plan, times, config)
      BY <1>2 DEF RowsOK
    <3>2. PlanUpdates(old.plan, records[e], asked) = old.plan
      BY <1>2, <1>3, <2>1, <3>1, UpdatesNothing
    <3>3. QED
      BY <2>1, <3>2
  <2>2. CASE ~config.emitPlan
    BY <2>2
  <2>3. QED
    BY <2>1, <2>2
<1> HIDE DEF rows
<1>5. "plan" \in Modules
  BY DEF Modules
<1>6. new.plan = old.plan /\ new.interjections = old.interjections /\ new.vqa = old.vqa
  BY <1>2, <1>4, <1>5, Replacing
<1> HIDE DEF new
<1>7. RowsOK(new, times, config)
  BY <1>2, <1>6 DEF RowsOK
<1>8. phase \in AtWork /\ phase # "plan"
  BY <1>1 DEF AtWork
<1>9. QED
  BY <1>1, <1>5, <1>7, <1>8, StagesAnother DEF new, old

-----------------------------------------------------------------------------
(* The end of a run.                                                        *)
LEMMA PhaseKeeps ==
  ASSUME RowsInv, UNCHANGED <<shard, config, selected, records, waiting, staged>>,
         skipped' \subseteq DOMAIN records, phase' \notin {"read", "plan", "done"}
  PROVE  RowsInv'
BY DEF RowsInv, FramesInv, RecordsInv, StagedInv, WrittenInv

LEMMA RewrittenIs ==
  ASSUME NEW row, IsFrame(row)
  PROVE  /\ IsFrame(Rewritten(row))
         /\ Rewritten(row).ep = row.ep /\ Rewritten(row).ts = row.ts
         /\ row.ep \in Replaced =>
              /\ Rewritten(row).persistent = PersistentSlice(row.ep)
              /\ Rewritten(row).events = Bucket(row.ep, row.ts)
<1> DEFINE p == PersistentSlice(row.ep)
           b == Bucket(row.ep, row.ts)
<1>1. Rewritten(row) = IF row.ep \in Replaced
                       THEN [row EXCEPT !.persistent = p, !.events = b] ELSE row
  BY DEF Rewritten
<1> HIDE DEF p, b
<1>2. QED
  <2> USE DEF IsFrame
  <2>1. CASE row.ep \in Replaced
    BY <1>1, <2>1 DEF p, b
  <2>2. CASE row.ep \notin Replaced
    BY <1>1, <2>2
  <2>3. QED
    BY <2>1, <2>2

LEMMA WriteKeeps ==
  ASSUME ColumnsInv, RowsInv, Write
  PROVE  RowsInv'
<1>1. /\ phase = "write" /\ UNCHANGED <<config, selected, records, waiting, staged, skipped>>
      /\ \/ phase' = "failed" /\ UNCHANGED shard
         \/ /\ phase' = "done"
            /\ shard' = [shard EXCEPT !.rows = [i \in DOMAIN @ |-> Rewritten(@[i])],
                                      !.columns = Columns]
  BY DEF Write
<1>2. CASE phase' = "failed" /\ UNCHANGED shard
  BY <1>1, <1>2, PhaseKeeps DEF RowsInv, RecordsInv
<1>3. CASE /\ phase' = "done"
           /\ shard' = [shard EXCEPT !.rows = [i \in DOMAIN @ |-> Rewritten(@[i])],
                                     !.columns = Columns]
  <2> DEFINE old == shard.rows
             new == shard'.rows
             n == Len(old)
  <2>1. n \in Nat /\ DOMAIN old = 1 .. n /\ \A i \in 1 .. n : IsFrame(old[i])
    BY ListFacts DEF RowsInv, FramesInv
  <2>2. new = [i \in DOMAIN old |-> Rewritten(old[i])]
    BY <1>3 DEF ColumnsInv, IsShard
  <2> HIDE DEF old, new
  <2>3. new = [i \in 1 .. n |-> new[i]] /\ \A i \in 1 .. n : new[i] = Rewritten(old[i])
    BY <2>1, <2>2
  <2> HIDE DEF n
  <2>4. IsList(new) /\ Len(new) = n /\ DOMAIN new = 1 .. n
    BY <2>1, <2>3, ListMade DEF n
  <2>5. \A i \in 1 .. n :
          /\ IsFrame(new[i]) /\ new[i].ep = old[i].ep /\ new[i].ts = old[i].ts
          /\ old[i].ep \in Replaced =>
               /\ new[i].persistent = PersistentSlice(old[i].ep)
               /\ new[i].events = Bucket(old[i].ep, old[i].ts)
    BY <2>1, <2>3, RewrittenIs DEF n
  <2>6. FramesInv'
    BY <2>4, <2>5 DEF FramesInv, new
  <2>7. \A e, times : FramesMatch(old, e, times) => FramesMatch(new, e, times)
    BY <2>4, <2>5 DEF FramesMatch, n
  <2>8. EpisodesIn(shard') = EpisodesIn(shard)
    BY <2>1, <2>4, <2>5 DEF EpisodesIn, old, new, n
  <2>9. RecordsInv'
    BY <1>1, <1>3, <2>7, <2>8 DEF RowsInv, RecordsInv, old, new
  <2>10. StagedInv'
    BY <1>1, <1>3, <2>8 DEF RowsInv, StagedInv
  <2>11. WrittenInv'
    <3>1. Replaced' = Replaced
      BY <1>1 DEF Replaced
    <3>2. \A e, t : PersistentSlice(e)' = PersistentSlice(e) /\ Bucket(e, t)' = Bucket(e, t)
      BY <1>1 DEF PersistentSlice, Bucket, Lasting, Events, Staged
    <3>3. QED
      BY <2>4, <2>5, <3>1, <3>2 DEF WrittenInv, new
  <2>12. QED
    BY <2>6, <2>9, <2>10, <2>11 DEF RowsInv
<1>4. QED
  BY <1>1, <1>2, <1>3

LEMMA RowsStep == ColumnsInv /\ RowsInv /\ [ColumnsNext]_columnVars => RowsInv'
<1> SUFFICES ASSUME ColumnsInv, RowsInv, [ColumnsNext]_columnVars PROVE RowsInv'
  OBVIOUS
<1>1. CASE Read
  BY <1>1, ReadKeeps
<1>2. CASE \E e \in waiting :
             PlanPhase(e) \/ InterjectionsPhase(e) \/ UpdatePhase(e) \/ VqaPhase(e)
  BY <1>2, PlanKeeps, InterjectionsKeeps, UpdateKeeps, VqaKeeps
<1>3. CASE ModuleFails
  BY <1>3, PhaseKeeps DEF ModuleFails, RowsInv, RecordsInv
<1>4. CASE Validate
  <2>1. /\ UNCHANGED <<shard, config, selected, records, waiting, staged>>
        /\ skipped' \subseteq DOMAIN records /\ phase' \in {"refused", "write"}
    BY <1>4 DEF Validate
  <2>2. QED
    BY <2>1, PhaseKeeps
<1>5. CASE Write
  BY <1>5, WriteKeeps
<1>6. CASE UNCHANGED columnVars
  <2>1. UNCHANGED <<phase, shard, config, selected, records, waiting, staged, skipped>>
    BY <1>6 DEF columnVars
  <2>2. FramesInv' /\ RecordsInv' /\ StagedInv'
    BY <2>1 DEF RowsInv, FramesInv, RecordsInv, StagedInv
  <2>3. WrittenInv'
    <3>1. Replaced' = Replaced
      BY <2>1 DEF Replaced
    <3>2. \A e, t : PersistentSlice(e)' = PersistentSlice(e) /\ Bucket(e, t)' = Bucket(e, t)
      BY <2>1 DEF PersistentSlice, Bucket, Lasting, Events, Staged
    <3>3. QED
      BY <2>1, <3>1, <3>2 DEF RowsInv, WrittenInv
  <2>4. QED
    BY <2>2, <2>3 DEF RowsInv
<1>7. QED
  BY <1>1, <1>2, <1>3, <1>4, <1>5, <1>6 DEF ColumnsNext

LEMMA RowsInvariance == ColumnsSpec => [](ColumnsInv /\ RowsInv)
BY ColumnsStart, ColumnsStep, RowsStart, RowsStep, PTL DEF ColumnsSpec

-----------------------------------------------------------------------------
(* What is staged for an episode, as the validator and the writer read it.  *)
LEMMA StagedIs ==
  ASSUME RowsInv, NEW e \in DOMAIN records
  PROVE  LET plan == staged[e].plan
             spoken == staged[e].interjections
             vqa == staged[e].vqa
         IN  /\ IsList(plan) /\ IsList(spoken) /\ IsList(vqa)
             /\ PlanOK(plan, records[e].times, config)
             /\ InterjectionsOK(spoken, records[e].times, TimesOf(plan, "subtask"))
             /\ VqaOK(vqa, records[e].times)
             /\ IsList(Events(e)) /\ ToSet(Events(e)) = ToSet(spoken) \cup ToSet(vqa)
             /\ IsList(Lasting(e)) /\ ToSet(Lasting(e)) = ToSet(plan)
             /\ ApartIn(Events(e), "vqa")
             /\ \A style \in {"subtask", "plan", "memory"} : ApartIn(Lasting(e), style)
<1> DEFINE plan == staged[e].plan
           spoken == staged[e].interjections
           vqa == staged[e].vqa
           all == plan \o spoken \o vqa
           lasting == {r \in ToSet(all) : ~InEvents(r)}
           passing == {r \in ToSet(all) : InEvents(r)}
<1>1. /\ PlanOK(plan, records[e].times, config)
      /\ InterjectionsOK(spoken, records[e].times, TimesOf(plan, "subtask"))
      /\ VqaOK(vqa, records[e].times)
  BY DEF RowsInv, StagedInv, RecordsInv, RowsOK
<1>2. Lasting(e) = Only(all, lasting) /\ Events(e) = Only(all, passing)
  BY DEF Lasting, Events, Staged
<1> HIDE DEF plan, spoken, vqa
<1>3. IsList(plan) /\ IsList(spoken) /\ IsList(vqa)
  BY <1>1 DEF PlanOK, InterjectionsOK, VqaOK
<1>4. IsList(plan \o spoken) /\ ToSet(plan \o spoken) = ToSet(plan) \cup ToSet(spoken)
  BY <1>3, Joined
<1>5. IsList(all) /\ ToSet(all) = ToSet(plan) \cup ToSet(spoken) \cup ToSet(vqa)
  BY <1>3, <1>4, Joined
<1>6. \A r \in ToSet(plan) : r.style \in Persistent
  BY <1>1 DEF PlanOK
<1>7. /\ \A r \in ToSet(spoken) : r.style \in {"", "interjection"}
      /\ \A r \in ToSet(vqa) : r.style = "vqa"
  BY <1>1 DEF InterjectionsOK, InterjectionRowOK, VqaOK, VqaRowOK
<1>8. {"", "interjection", "vqa"} \cap Persistent = {}
  BY DEF Persistent
<1>9. \A r \in ToSet(plan) : ~InEvents(r)
  BY <1>6 DEF InEvents
<1>10. \A r \in ToSet(spoken) \cup ToSet(vqa) : InEvents(r)
  BY <1>7, <1>8 DEF InEvents
<1>11. ToSet(all) \cap lasting = ToSet(plan) /\ ToSet(all) \cap passing = ToSet(spoken) \cup ToSet(vqa)
  <2> HIDE DEF all
  <2> QED
    BY <1>5, <1>9, <1>10
<1>12. /\ Lacks(plan, "vqa") /\ Lacks(spoken, "vqa")
  BY <1>6, <1>7, <1>8 DEF Lacks
<1>13. ApartIn(plan, "vqa") /\ ApartIn(spoken, "vqa") /\ ApartIn(vqa, "vqa")
  BY <1>1, <1>3, <1>12, LacksApart DEF VqaOK
<1>14. Lacks(plan \o spoken, "vqa") /\ ApartIn(plan \o spoken, "vqa")
  BY <1>3, <1>4, <1>12, <1>13, JoinedApart DEF Lacks
<1>15. ApartIn(all, "vqa")
  BY <1>3, <1>4, <1>13, <1>14, JoinedApart
<1>16. ASSUME NEW style \in {"subtask", "plan", "memory"}
       PROVE  ApartIn(all, style)
  <2>1. ApartIn(plan, style)
    BY <1>1 DEF PlanOK
  <2>2. style \notin {"", "interjection", "vqa"}
    OBVIOUS
  <2>3. Lacks(spoken, style) /\ Lacks(vqa, style)
    BY <1>7, <2>2 DEF Lacks
  <2>4. ApartIn(spoken, style) /\ ApartIn(vqa, style)
    BY <1>3, <2>3, LacksApart
  <2>5. ApartIn(plan \o spoken, style)
    BY <1>3, <2>1, <2>3, <2>4, JoinedApart
  <2>6. QED
    BY <1>3, <1>4, <2>3, <2>4, <2>5, JoinedApart
<1> HIDE DEF all, lasting, passing
<1>17. /\ IsList(Only(all, lasting)) /\ ToSet(Only(all, lasting)) = ToSet(plan)
       /\ IsList(Only(all, passing)) /\ ToSet(Only(all, passing)) = ToSet(spoken) \cup ToSet(vqa)
  BY <1>5, <1>11, OnlyGives
<1>18. ApartIn(Only(all, passing), "vqa")
  BY <1>5, <1>15, OnlyApart
<1>19. \A style \in {"subtask", "plan", "memory"} : ApartIn(Only(all, lasting), style)
  BY <1>5, <1>16, OnlyApart
<1>20. QED
  BY <1>1, <1>2, <1>3, <1>17, <1>18, <1>19 DEF plan, spoken, vqa

LEMMA RowsTyped == ColumnsInv /\ RowsInv => RowTypes
<1> SUFFICES ASSUME ColumnsInv, RowsInv PROVE RowTypes
  OBVIOUS
<1>1. \A e \in DOMAIN records : TimesOK(records[e].times)
  <2> TAKE e \in DOMAIN records
  <2> DEFINE times == records[e].times
  <2>1. Clock(times)
    BY DEF RowsInv, RecordsInv, FramesMatch
  <2> HIDE DEF times
  <2>2. TimesOK(times)
    BY <2>1, ClockFacts DEF Clock, TimesOK
  <2>3. QED
    BY <2>2 DEF times
<1>2. ASSUME NEW e \in DOMAIN staged, NEW m \in Modules, NEW i \in DOMAIN staged[e][m]
      PROVE  /\ staged[e][m][i].role \in {"user", "assistant"}
             /\ staged[e][m][i].style \in Persistent \cup EventOnly \cup {""}
             /\ staged[e][m][i].camera \in {NoCamera} \cup ToSet(Cameras)
             /\ Contains(records[e].times, staged[e][m][i].ts)
  <2>1. e \in DOMAIN records
    <3>1. CASE e \notin DOMAIN records
      <4>1. staged[e][m] = << >>
        BY <1>2, <3>1 DEF RowsInv, StagedInv, Unstaged
      <4>2. QED
        BY <1>2, <4>1
    <3>2. QED
      BY <3>1
  <2> DEFINE times == records[e].times
             rows == staged[e][m]
             r == rows[i]
  <2>2. RowsOK(staged[e], times, config)
    BY <2>1 DEF RowsInv, StagedInv
  <2>3. /\ PlanOK(staged[e].plan, times, config)
        /\ InterjectionsOK(staged[e].interjections, times, TimesOf(staged[e].plan, "subtask"))
        /\ VqaOK(staged[e].vqa, times)
    BY <2>2 DEF RowsOK
  <2>4. Clock(times)
    BY <2>1 DEF RowsInv, RecordsInv, FramesMatch
  <2> HIDE DEF times
  <2>5. \/ rows = staged[e].plan \/ rows = staged[e].interjections \/ rows = staged[e].vqa
    BY DEF Modules
  <2>6. IsList(rows)
    BY <2>3, <2>5 DEF PlanOK, InterjectionsOK, VqaOK
  <2> HIDE DEF rows
  <2>7. r \in ToSet(rows)
    BY <1>2, <2>6, ListFacts DEF rows
  <2> HIDE DEF r
  <2>8. /\ r.role \in {"user", "assistant"} /\ r.style \in Persistent \cup EventOnly \cup {""}
        /\ r.camera \in {NoCamera} \cup ToSet(Cameras) /\ r.ts \in ToSet(times)
    <3>1. CASE rows = staged[e].plan
      BY <2>3, <2>7, <3>1 DEF PlanOK
    <3>2. CASE rows = staged[e].interjections
      BY <2>3, <2>7, <3>2 DEF InterjectionsOK, InterjectionRowOK, EventOnly
    <3>3. CASE rows = staged[e].vqa
      BY <2>3, <2>7, <3>3 DEF VqaOK, VqaRowOK, EventOnly
    <3>4. QED
      BY <2>5, <3>1, <3>2, <3>3
  <2>9. Contains(times, r.ts)
    BY <2>4, <2>8, ClockFacts, ListFacts DEF Contains
  <2>10. QED
    BY <2>8, <2>9 DEF r, rows, times
<1>3. /\ phase \in {"read", "plan", "interjections", "update", "vqa", "validate", "write",
                    "done", "failed", "refused"}
      /\ config \in Configs /\ selected \in Selections
      /\ DOMAIN records \subseteq EpisodesIn(shard) /\ waiting \subseteq DOMAIN records
      /\ skipped \subseteq DOMAIN records
  BY DEF ColumnsInv, AtWork, RowsInv, RecordsInv, StagedInv
<1>4. QED
  BY <1>1, <1>2, <1>3 DEF RowTypes

LEMMA TimesInIs ==
  ASSUME NEW rows, IsList(rows)
  PROVE  TimesIn(rows) = {r.ts : r \in ToSet(rows)}
<1>1. /\ DOMAIN rows = 1 .. Len(rows) /\ \A i \in 1 .. Len(rows) : rows[i] \in ToSet(rows)
      /\ \A r \in ToSet(rows) : \E i \in 1 .. Len(rows) : rows[i] = r
  BY ListFacts
<1>2. TimesIn(rows) \subseteq {r.ts : r \in ToSet(rows)}
  BY <1>1 DEF TimesIn
<1>3. {r.ts : r \in ToSet(rows)} \subseteq TimesIn(rows)
  BY <1>1 DEF TimesIn
<1>4. QED
  BY <1>2, <1>3

(* What the modules stage for an episode passes the structural checks.      *)
LEMMA SoundStaged ==
  ASSUME RowsInv, NEW e \in DOMAIN records
  PROVE  SoundRows(e) /\ (config.emitPlan => ~Unplanned(e))
<1> DEFINE plan == staged[e].plan
           spoken == staged[e].interjections
           vqa == staged[e].vqa
           times == records[e].times
           events == Events(e)
           lasting == Lasting(e)
<1>1. /\ IsList(plan) /\ IsList(spoken) /\ IsList(vqa)
      /\ PlanOK(plan, times, config)
      /\ InterjectionsOK(spoken, times, TimesOf(plan, "subtask"))
      /\ VqaOK(vqa, times)
      /\ IsList(events) /\ ToSet(events) = ToSet(spoken) \cup ToSet(vqa)
      /\ IsList(lasting) /\ ToSet(lasting) = ToSet(plan)
      /\ ApartIn(events, "vqa")
  BY StagedIs
<1>2. Misrouted(e) <=> \/ \E r \in ToSet(plan) : InEvents(r)
                       \/ \E r \in ToSet(spoken) \cup ToSet(vqa) : ~InEvents(r)
  BY DEF Misrouted, Modules
<1> HIDE DEF plan, spoken, vqa, times, events, lasting
<1>3. /\ \A r \in ToSet(plan) : r.style \in Persistent /\ r.camera = NoCamera
      /\ \A r \in ToSet(spoken) : r.style \in {"", "interjection"} /\ r.camera = NoCamera
      /\ \A r \in ToSet(vqa) : r.style = "vqa" /\ r.camera \in ToSet(Cameras)
  BY <1>1 DEF PlanOK, InterjectionsOK, InterjectionRowOK, VqaOK, VqaRowOK
<1>4. ~Misrouted(e)
  BY <1>2, <1>3 DEF InEvents, Persistent
<1>5. ~OffFrame(e)
  <2>1. TimesIn(events) \subseteq ToSet(times)
    <3>1. \A r \in ToSet(events) : r.ts \in ToSet(times)
      BY <1>1 DEF InterjectionsOK, InterjectionRowOK, VqaOK, VqaRowOK
    <3>2. \A i \in DOMAIN events : events[i] \in ToSet(events)
      BY <1>1, ListFacts
    <3>3. QED
      BY <3>1, <3>2 DEF TimesIn
  <2>2. QED
    BY <2>1 DEF OffFrame, events, times
<1> DEFINE cued == TimesIn(Styled(events, "interjection"))
<1>6. cued = TimesOf(events, "interjection")
  BY <1>1, StyledIs
<1>7. \A t \in cued : \E r \in ToSet(spoken) : r.style = "interjection" /\ r.ts = t
  <2>1. \A r \in ToSet(vqa) : r.style # "interjection"
    BY <1>3
  <2>2. QED
    BY <1>1, <1>6, <2>1 DEF TimesOf
<1> HIDE DEF cued
<1>8. ~Unspoken(e)
  <2> DEFINE said == {r \in ToSet(events) : r.style = "" /\ r.role = "assistant"}
  <2>1. Speech(events) = Only(events, said)
    BY DEF Speech
  <2>6. said \subseteq ToSet(events)
    OBVIOUS
  <2> HIDE DEF said
  <2>7. IsList(Only(events, said)) /\ ToSet(Only(events, said)) = ToSet(events) \cap said
    BY <1>1, OnlyGives
  <2>2. IsList(Speech(events)) /\ ToSet(Speech(events)) = said
    BY <2>1, <2>6, <2>7
  <2>3. TimesIn(Speech(events)) = {r.ts : r \in said}
    BY <2>2, TimesInIs
  <2>4. ASSUME NEW t \in cued PROVE t \in {r.ts : r \in said}
    <3>1. PICK r \in ToSet(spoken) : r.style = "interjection" /\ r.ts = t
      BY <1>7
    <3>2. SpokenAt(ToSet(spoken), t)
      BY <1>1, <3>1 DEF InterjectionsOK, InterjectionRowOK
    <3>3. PICK s \in ToSet(spoken) : s.style = "" /\ s.ts = t
      BY <3>2 DEF SpokenAt
    <3>4. s.role = "assistant"
      BY <1>1, <3>3 DEF InterjectionsOK, InterjectionRowOK
    <3>5. s \in said
      BY <1>1, <3>3, <3>4 DEF said
    <3>6. QED
      BY <3>3, <3>5
  <2>5. QED
    BY <2>3, <2>4 DEF Unspoken, cued, events
<1>9. ~UnknownShape(e)
  <2>1. IsList(events) /\ ToSet(Styled(events, "vqa")) = {r \in ToSet(events) : r.style = "vqa"}
    BY <1>1, StyledIs
  <2>2. \A r \in ToSet(spoken) : r.style # "vqa"
    BY <1>3
  <2>3. \A r \in ToSet(Styled(events, "vqa")) : r \in ToSet(vqa)
    BY <1>1, <2>1, <2>2
  <2>4. \A r \in ToSet(vqa) : r.role = "assistant" => r.text \notin {Null, <<"">>}
    BY <1>1 DEF VqaOK, VqaRowOK
  <2>5. QED
    BY <2>3, <2>4 DEF UnknownShape, events
<1>10. ~Repeated(e)
  <2> DEFINE asked == Styled(events, "vqa")
  <2>1. IsList(asked) /\ ToSet(asked) = {r \in ToSet(events) : r.style = "vqa"}
    BY <1>1, StyledIs
  <2>2. ApartIn(asked, "vqa")
    BY <1>1, OnlyApart DEF Styled
  <2>3. Repeated(e) = \E i, j \in DOMAIN asked :
          /\ i # j /\ asked[i].ts = asked[j].ts
          /\ asked[i].camera = asked[j].camera /\ asked[i].role = asked[j].role
    BY DEF Repeated, events
  <2> HIDE DEF asked
  <2>4. DOMAIN asked = 1 .. Len(asked) /\ \A i \in 1 .. Len(asked) : asked[i].style = "vqa"
    BY <2>1, ListFacts
  <2>5. QED
    BY <2>2, <2>3, <2>4 DEF ApartIn, Mark
<1>11. \A r \in ToSet(lasting \o events) : ~WrongCamera(r)
  <2> TAKE r \in ToSet(lasting \o events)
  <2>1. r \in ToSet(plan) \/ r \in ToSet(spoken) \/ r \in ToSet(vqa)
    BY <1>1, Joined
  <2>2. CASE r \in ToSet(plan) \cup ToSet(spoken)
    <3>1. r.style # "vqa" /\ r.camera = NoCamera
      BY <1>3, <2>2 DEF Persistent
    <3>2. QED
      BY <3>1 DEF WrongCamera, CameraOK
  <2>3. CASE r \in ToSet(vqa)
    <3>1. r.style = "vqa" /\ r.camera \in ToSet(Cameras)
      BY <1>3, <2>3
    <3>2. IsList(Cameras) /\ ToSet(Cameras) \subseteq Nat \ {0}
      BY CamerasAssumption, ListOf
    <3>3. r.camera # NoCamera
      BY <3>1, <3>2 DEF NoCamera
    <3>4. Contains(Cameras, r.camera)
      BY <3>1, <3>2, ListFacts DEF Contains
    <3>5. QED
      BY <3>1, <3>3, <3>4 DEF WrongCamera, CameraOK
  <2>4. QED
    BY <2>1, <2>2, <2>3
<1>12. SoundRows(e)
  BY <1>4, <1>5, <1>8, <1>9, <1>10, <1>11 DEF SoundRows, lasting, events
<1>13. ASSUME config.emitPlan PROVE ~Unplanned(e)
  <2>1. TimesIn(Styled(lasting, "plan")) = TimesOf(plan, "plan")
    BY <1>1, StyledIs DEF TimesOf
  <2>2. TimesOf(plan, "plan") = TimesOf(plan, "subtask")
    BY <1>1, <1>13 DEF PlanOK
  <2>3. \A t \in cued : t \in TimesOf(plan, "subtask")
    BY <1>1, <1>7 DEF InterjectionsOK, InterjectionRowOK
  <2>4. QED
    BY <2>1, <2>2, <2>3 DEF Unplanned, cued, events, lasting
<1>14. QED
  BY <1>12, <1>13

LEMMA OwnRowsAlwaysPass == ColumnsInv /\ RowsInv => OwnRowsPass
BY RowsTyped, SoundStaged DEF OwnRowsPass

-----------------------------------------------------------------------------
(* What the writer puts into the columns.                                   *)
Styles == Persistent \cup EventOnly \cup {""}

LEMMA RankIs == \A style \in Styles : StyleRank[style] \in Nat
BY DEF StyleRank, Styles, Persistent, EventOnly

LEMMA KeyIs ==
  ASSUME NEW row, row.style \in Styles, NEW time \in Int, NEW camera \in Int
  PROVE  Key(row, time, camera) \in Int
<1>1. StyleRank[row.style] \in Int
  BY RankIs
<1>2. QED
  BY <1>1 DEF Key

LEMMA SliceIs ==
  ASSUME RowsInv, NEW e \in DOMAIN records
  PROVE  LET key == [i \in DOMAIN Lasting(e) |-> Key(Lasting(e)[i], Lasting(e)[i].ts, 0)]
         IN  /\ PersistentSlice(e) = Sorted(Lasting(e), key)
             /\ key \in [1 .. Len(Lasting(e)) -> Int]
             /\ \A i \in 1 .. Len(Lasting(e)) : key[i] = Key(Lasting(e)[i], Lasting(e)[i].ts, 0)
<1> DEFINE s == Lasting(e)
           n == Len(s)
           key == [i \in DOMAIN s |-> Key(s[i], s[i].ts, 0)]
<1>1. /\ IsList(s) /\ ToSet(s) = ToSet(staged[e].plan)
      /\ PlanOK(staged[e].plan, records[e].times, config)
  BY StagedIs
<1>2. Clock(records[e].times)
  BY DEF RowsInv, RecordsInv, FramesMatch
<1>3. PersistentSlice(e) = Sorted(s, key)
  BY DEF PersistentSlice
<1> HIDE DEF s
<1>4. n \in Nat /\ DOMAIN s = 1 .. n /\ \A i \in 1 .. n : s[i] \in ToSet(s)
  BY <1>1, ListFacts
<1>5. \A i \in 1 .. n : s[i].style \in Styles /\ s[i].ts \in Int
  <2>1. \A r \in ToSet(s) : r.style \in Persistent /\ r.ts \in ToSet(records[e].times)
    BY <1>1 DEF PlanOK
  <2>2. ToSet(records[e].times) \subseteq Int
    BY <1>2, ClockFacts
  <2>3. QED
    BY <1>4, <2>1, <2>2 DEF Styles
<1>6. \A i \in 1 .. n : Key(s[i], s[i].ts, 0) \in Int
  BY <1>5, KeyIs
<1>7. QED
  BY <1>3, <1>4, <1>6 DEF s

LEMMA AtIs ==
  ASSUME NEW rows, IsList(rows), NEW t
  PROVE  IsList(At(rows, t)) /\ ToSet(At(rows, t)) = {r \in ToSet(rows) : r.ts = t}
<1> DEFINE set == {r \in ToSet(rows) : r.ts = t}
<1>1. At(rows, t) = Only(rows, set) /\ set \subseteq ToSet(rows)
  BY DEF At
<1> HIDE DEF set
<1>2. IsList(Only(rows, set)) /\ ToSet(Only(rows, set)) = ToSet(rows) \cap set
  BY OnlyGives
<1>3. QED
  BY <1>1, <1>2 DEF set

LEMMA UntimedIs ==
  ASSUME NEW rows, IsList(rows)
  PROVE  /\ IsList(Untimed(rows)) /\ Len(Untimed(rows)) = Len(rows)
         /\ \A i \in 1 .. Len(rows) : Untimed(rows)[i] = [rows[i] EXCEPT !.ts = NoTime]
<1> DEFINE n == Len(rows)
           new(i) == [rows[i] EXCEPT !.ts = NoTime]
           q == Untimed(rows)
<1>1. n \in Nat /\ DOMAIN rows = 1 .. n
  BY ListFacts
<1>2. q = [i \in 1 .. n |-> new(i)]
  BY <1>1 DEF Untimed
<1> HIDE DEF new, q, n
<1>3. q = [i \in 1 .. n |-> q[i]] /\ \A i \in 1 .. n : q[i] = new(i)
  BY <1>2
<1>4. IsList(q) /\ Len(q) = n
  BY <1>1, <1>3, ListMade
<1>5. QED
  BY <1>3, <1>4 DEF q, n, new

(* Sorting keeps each row as often, with its time or without.               *)
LEMMA SortedSame ==
  ASSUME NEW s, IsList(s), NEW key \in [1 .. Len(s) -> Int]
  PROVE  /\ SameRows(Sorted(s, key), s)
         /\ SameRows(Untimed(Sorted(s, key)), Untimed(s))
<1> DEFINE q == Sorted(s, key)
           n == Len(s)
<1>1. IsList(q) /\ \E f : SortedBy(f, q, s, key)
  BY SortedIs
<1> HIDE DEF q
<1>2. PICK f : SortedBy(f, q, s, key)
  BY <1>1
<1>3. n \in Nat
  BY ListFacts
<1>4. /\ Permutes(f, n) /\ Len(q) = n /\ \A k \in 1 .. n : q[k] = s[f[k]]
      /\ \A k \in 1 .. n : f[k] \in 1 .. n
  BY <1>2 DEF SortedBy, Permutes
<1> HIDE DEF n
<1>5. Len(s) = n
  BY DEF n
<1>6. SameRows(q, s)
  BY <1>1, <1>3, <1>4, <1>5, PermutedSame
<1>7. SameRows(Untimed(q), Untimed(s))
  <2> DEFINE a == Untimed(q)
             b == Untimed(s)
  <2>1. /\ IsList(a) /\ Len(a) = n /\ \A i \in 1 .. n : a[i] = [q[i] EXCEPT !.ts = NoTime]
    BY <1>1, <1>4, UntimedIs
  <2>2. /\ IsList(b) /\ Len(b) = n /\ \A i \in 1 .. n : b[i] = [s[i] EXCEPT !.ts = NoTime]
    BY <1>5, UntimedIs
  <2> HIDE DEF a, b
  <2>3. \A k \in 1 .. n : a[k] = b[f[k]]
    BY <1>4, <2>1, <2>2
  <2>4. QED
    BY <1>3, <1>4, <2>1, <2>2, <2>3, PermutedSame DEF a, b
<1>8. QED
  BY <1>6, <1>7 DEF q

LEMMA OncePlaced == ColumnsInv /\ RowsInv => EveryRowOnce
<1> SUFFICES ASSUME RowsInv, NEW e \in Written, NEW i \in Frames(e)
             PROVE  /\ SameRows(shard.rows[i].persistent, Lasting(e))
                    /\ SameRows(shard.rows[i].events, Untimed(At(Events(e), shard.rows[i].ts)))
                    /\ \A x \in ToSet(Events(e)) :
                         Cardinality({j \in Frames(e) : shard.rows[j].ts = x.ts}) = 1
  BY DEF EveryRowOnce
<1> DEFINE rows == shard.rows
           t == rows[i].ts
<1>1. phase = "done" /\ e \in Replaced /\ e \in DOMAIN records
  BY DEF Written, Replaced
<1>2. /\ IsList(rows) /\ DOMAIN rows = 1 .. Len(rows) /\ t \in Int
      /\ i \in 1 .. Len(rows) /\ rows[i].ep = e
  BY ListFacts DEF RowsInv, FramesInv, IsFrame, Frames
<1>3. rows[i].persistent = PersistentSlice(e) /\ rows[i].events = Bucket(e, t)
  BY <1>1, <1>2 DEF RowsInv, WrittenInv
<1>4. FramesMatch(rows, e, records[e].times)
  BY <1>1 DEF RowsInv, RecordsInv
<1>5. SameRows(PersistentSlice(e), Lasting(e))
  <2>1. IsList(Lasting(e))
    BY <1>1, StagedIs
  <2>2. QED
    BY <1>1, <2>1, SliceIs, SortedSame
<1>6. SameRows(Bucket(e, t), Untimed(At(Events(e), t)))
  <2> DEFINE s == At(Events(e), t)
             key == [k \in DOMAIN s |-> Key(s[k], 0, s[k].camera)]
  <2>1. /\ IsList(Events(e))
        /\ ToSet(Events(e)) = ToSet(staged[e].interjections) \cup ToSet(staged[e].vqa)
        /\ InterjectionsOK(staged[e].interjections, records[e].times,
                           TimesOf(staged[e].plan, "subtask"))
        /\ VqaOK(staged[e].vqa, records[e].times)
    BY <1>1, StagedIs
  <2>2. IsList(s) /\ ToSet(s) = {r \in ToSet(Events(e)) : r.ts = t}
    BY <2>1, AtIs
  <2>3. Bucket(e, t) = Untimed(Sorted(s, key))
    BY DEF Bucket
  <2>4. \A r \in ToSet(Events(e)) : r.style \in Styles /\ r.camera \in Int
    <3>1. IsList(Cameras) /\ ToSet(Cameras) \subseteq Nat \ {0}
      BY CamerasAssumption, ListOf
    <3>5. "" \in Styles /\ "interjection" \in Styles /\ "vqa" \in Styles
      BY DEF Styles, EventOnly
    <3>6. NoCamera \in Int
      BY DEF NoCamera
    <3>2. \A r \in ToSet(staged[e].interjections) : r.style \in Styles /\ r.camera \in Int
      <4>1. \A r \in ToSet(staged[e].interjections) :
              r.style \in {"", "interjection"} /\ r.camera = NoCamera
        BY <2>1 DEF InterjectionsOK, InterjectionRowOK
      <4>2. QED
        BY <3>5, <3>6, <4>1
    <3>3. \A r \in ToSet(staged[e].vqa) : r.style \in Styles /\ r.camera \in Int
      <4>1. \A r \in ToSet(staged[e].vqa) : r.style = "vqa" /\ r.camera \in ToSet(Cameras)
        BY <2>1 DEF VqaOK, VqaRowOK
      <4>2. ToSet(Cameras) \subseteq Int
        BY <3>1
      <4>3. QED
        BY <3>5, <4>1, <4>2, Zenon
    <3>4. QED
      BY <2>1, <3>2, <3>3
  <2> HIDE DEF s
  <2>5. DOMAIN s = 1 .. Len(s) /\ \A k \in 1 .. Len(s) : s[k] \in ToSet(s)
    BY <2>2, ListFacts
  <2>6. \A k \in 1 .. Len(s) : Key(s[k], 0, s[k].camera) \in Int
    BY <2>2, <2>4, <2>5, KeyIs
  <2>7. key \in [1 .. Len(s) -> Int]
    BY <2>5, <2>6
  <2> HIDE DEF key
  <2>8. QED
    BY <2>2, <2>3, <2>7, SortedSame DEF s
<1>7. ASSUME NEW x \in ToSet(Events(e))
      PROVE  Cardinality({j \in Frames(e) : rows[j].ts = x.ts}) = 1
  <2>1. x.ts \in ToSet(records[e].times)
    BY <1>1, StagedIs DEF InterjectionsOK, InterjectionRowOK, VqaOK, VqaRowOK
  <2>2. PICK k \in 1 .. Len(rows) : rows[k].ep = e /\ rows[k].ts = x.ts
    BY <1>4, <2>1 DEF FramesMatch
  <2>3. \A j \in Frames(e) : rows[j].ts = x.ts => j = k
    BY <1>2, <1>4, <2>2 DEF FramesMatch, Frames
  <2>4. k \in Frames(e)
    BY <1>2, <2>2 DEF Frames
  <2>5. {j \in Frames(e) : rows[j].ts = x.ts} = {k}
    BY <2>2, <2>3, <2>4
  <2>6. QED
    BY <2>5, FS_Singleton
<1>8. QED
  BY <1>3, <1>5, <1>6, <1>7

-----------------------------------------------------------------------------
(* What a reader of the columns finds.                                      *)
LEMMA LatestOne ==
  ASSUME NEW row, IsList(row.persistent), row.ts \in Int, NEW style,
         ApartIn(row.persistent, style),
         \A r \in ToSet(row.persistent) :
           r.style = style => r.camera = NoCamera /\ r.role = "assistant" /\ r.ts \in Nat,
         NEW t \in TimesOf(row.persistent, style), t <= row.ts,
         \A u \in TimesOf(row.persistent, style) : u <= row.ts => u <= t
  PROVE  /\ Len(Latest(row, style)) = 1
         /\ Head(Latest(row, style)) \in ToSet(row.persistent)
         /\ Head(Latest(row, style)).style = style /\ Head(Latest(row, style)).ts = t
<1> DEFINE rows == row.persistent
           now == {r \in ToSet(rows) : r.style = style /\ r.ts <= row.ts}
           set == {r \in now : \A s \in now : s.ts <= r.ts}
           latest == Latest(row, style)
           n == Len(latest)
<1>1. latest = Only(rows, set)
  BY DEF Latest
<1>2. \A r \in now : r.ts \in TimesOf(rows, style) /\ r.ts <= row.ts /\ r.ts <= t /\ r.ts \in Nat
  BY DEF TimesOf
<1>3. PICK r0 \in ToSet(rows) : r0.style = style /\ r0.ts = t
  BY DEF TimesOf
<1>4. r0 \in set
  BY <1>2, <1>3
<1>5. \A r \in set : r.ts = t /\ r.style = style /\ r \in ToSet(rows)
  <2>1. \A r \in set : r \in now /\ t <= r.ts
    BY <1>3
  <2>2. t \in Nat
    BY <1>3
  <2> HIDE DEF set
  <2>3. \A r \in now : r.style = style /\ r \in ToSet(rows)
    OBVIOUS
  <2> HIDE DEF now
  <2>4. QED
    BY <1>2, <2>1, <2>2, <2>3
<1> HIDE DEF set, latest
<1>6. IsList(latest) /\ ToSet(latest) = ToSet(rows) \cap set /\ ApartIn(latest, style)
  BY <1>1, OnlyGives, OnlyApart
<1>7. /\ n \in Nat /\ \A i \in 1 .. n : latest[i] \in ToSet(latest)
      /\ \E i \in 1 .. n : latest[i] = r0
  BY <1>3, <1>4, <1>6, ListFacts
<1>8. \A i \in 1 .. n :
        /\ latest[i] \in ToSet(rows) /\ latest[i].style = style /\ latest[i].ts = t
        /\ latest[i].camera = NoCamera /\ latest[i].role = "assistant"
  BY <1>5, <1>6, <1>7
<1>9. n = 1
  <2>1. n # 0
    BY <1>7
  <2>2. ASSUME n > 1 PROVE FALSE
    <3>1. 1 \in 1 .. n /\ 2 \in 1 .. n
      BY <1>7, <2>2
    <3>2. Mark(latest[1]) = Mark(latest[2])
      BY <1>8, <3>1 DEF Mark
    <3>3. latest[1].style = style /\ latest[2].style = style
      BY <1>8, <3>1
    <3>4. QED
      BY <1>6, <3>1, <3>2, <3>3 DEF ApartIn
  <2>3. n \in Nat
    BY <1>7
  <2> HIDE DEF n
  <2>4. QED
    BY <2>1, <2>2, <2>3
<1>10. Head(latest) = latest[1]
  BY <1>6, <1>9 DEF IsList
<1>11. QED
  BY <1>8, <1>9, <1>10 DEF latest

(* The last of some times that a frame sees.                                *)
LEMMA LastSeen ==
  ASSUME NEW T \in SUBSET Nat, NEW now \in Nat, NEW u \in T, u <= now
  PROVE  \E t \in T : t <= now /\ \A v \in T : v <= now => v <= t
<1> DEFINE S == {d \in Nat : now - d \in T}
<1>1. now - u \in S
  <2>1. now - u \in Nat /\ now - (now - u) = u
    OBVIOUS
  <2>2. QED
    BY <2>1
<1>2. PICK m \in S : \A d \in S : m <= d
  BY <1>1, LeastNat
<1>3. m \in Nat /\ now - m \in T
  OBVIOUS
<1>4. ASSUME NEW v \in T, v <= now PROVE v <= now - m
  <2>1. now - v \in Nat /\ now - (now - v) = v
    BY <1>4
  <2>2. now - v \in S
    BY <2>1
  <2> HIDE DEF S
  <2>3. m <= now - v /\ v \in Nat
    BY <1>2, <2>2
  <2>4. QED
    BY <1>3, <2>3
<1>5. QED
  BY <1>3, <1>4

(* The plan at a time is what subtask rows in their order say is to do.     *)
LEMMA PlanRead ==
  ASSUME NEW rows, Uniform(Styled(rows, "subtask"), "subtask"), NEW q, IsList(q),
         ToSet(q) = ToSet(Styled(rows, "subtask")),
         \A i, j \in 1 .. Len(q) : i < j => q[i].ts < q[j].ts, NEW t \in Int
  PROVE  LET toDo == Only(q, {r \in ToSet(q) : r.ts >= t})
         IN  Plan(Spans(rows), t) = [k \in DOMAIN toDo |-> Head(toDo[k].text)]
<1> DEFINE n == Len(q)
           span(r) == [start |-> r.ts, text |-> Head(r.text)]
           spans == Spans(rows)
           later == {r \in ToSet(q) : r.ts >= t}
           toDo == Only(q, later)
           after == {s \in ToSet(spans) : s.start >= t}
           left == Only(spans, after)
           m == Len(toDo)
           p == [k \in 1 .. m |-> span(toDo[k])]
<1>1. n \in Nat /\ \A i \in 1 .. n : q[i] \in ToSet(q) /\ q[i].ts \in Int
  <2>1. \A r \in ToSet(q) : r.ts \in Int
    BY DEF Uniform
  <2>2. QED
    BY <2>1, ListFacts
<1>2. InTime(rows) = q
  <2> DEFINE a == InTime(rows)
             ka == [i \in 1 .. Len(a) |-> a[i].ts]
             kq == [i \in 1 .. Len(q) |-> q[i].ts]
  <2>1. /\ IsList(a) /\ ToSet(a) = ToSet(q)
        /\ \A j, k \in 1 .. Len(a) : j < k => a[j].ts < a[k].ts
    BY InTimeIs
  <2> HIDE DEF a
  <2>2. /\ \A i \in 1 .. Len(a) : a[i] \in ToSet(q) /\ \E j \in 1 .. Len(q) : a[i] = q[j]
        /\ \A j \in 1 .. Len(q) : \E i \in 1 .. Len(a) : a[i] = q[j]
    BY <2>1, ListFacts
  <2>3. \A i \in 1 .. Len(a) : a[i].ts \in Int
    BY <2>2 DEF Uniform
  <2>4. Rises(ka, Len(a)) /\ Rises(kq, Len(q))
    BY <1>1, <2>1, <2>3 DEF Rises
  <2>5. /\ \A i \in 1 .. Len(a) : \E j \in 1 .. Len(q) : a[i] = q[j] /\ ka[i] = kq[j]
        /\ \A j \in 1 .. Len(q) : \E i \in 1 .. Len(a) : a[i] = q[j] /\ ka[i] = kq[j]
    BY <2>2
  <2> HIDE DEF ka, kq
  <2>6. a = q
    BY <2>1, <2>4, <2>5, RisingSame
  <2>7. QED
    BY <2>6 DEF a
<1>3. spans = [i \in 1 .. n |-> span(q[i])]
  BY <1>2, InTimeIs
<1> HIDE DEF spans, n, span
<1>4. /\ IsList(spans) /\ Len(spans) = n /\ DOMAIN spans = 1 .. n
      /\ \A i \in 1 .. n : spans[i] = span(q[i]) /\ spans[i] \in ToSet(spans)
  <2>1. spans = [i \in 1 .. n |-> spans[i]] /\ \A i \in 1 .. n : spans[i] = span(q[i])
    BY <1>3
  <2>2. IsList(spans) /\ Len(spans) = n /\ DOMAIN spans = 1 .. n
    BY <1>1, <2>1, ListMade
  <2>3. QED
    BY <2>1, <2>2, ListFacts
<1>5. \A r : span(r).start = r.ts /\ span(r).text = Head(r.text)
  BY DEF span
<1>6. PICK f : Chosen(f, toDo, q, n, later)
  BY OnlyGives DEF n
<1>7. PICK g : Chosen(g, left, spans, n, after)
  BY <1>4, OnlyGives
<1>8. IsList(toDo) /\ IsList(left) /\ ToSet(left) = ToSet(spans) \cap after
  BY <1>4, OnlyGives
<1>9. \A i \in 1 .. n : q[i] \in later <=> spans[i] \in after
  BY <1>1, <1>4, <1>5
<1> HIDE DEF toDo, left, later, after
<1>10. /\ m \in Nat /\ DOMAIN toDo = 1 .. m
       /\ Len(left) \in Nat /\ DOMAIN left = 1 .. Len(left)
  BY <1>8, ListFacts
<1>11. /\ f \in [1 .. m -> 1 .. n] /\ \A a, b \in 1 .. m : a < b => f[a] < f[b]
       /\ \A k \in 1 .. m : toDo[k] = q[f[k]] /\ toDo[k] \in later
       /\ \A i \in 1 .. n : q[i] \in later => \E k \in 1 .. m : f[k] = i
  BY <1>6 DEF Chosen
<1>12. /\ g \in [1 .. Len(left) -> 1 .. n]
       /\ \A a, b \in 1 .. Len(left) : a < b => g[a] < g[b]
       /\ \A k \in 1 .. Len(left) : left[k] = spans[g[k]] /\ left[k] \in after
       /\ \A i \in 1 .. n : spans[i] \in after => \E k \in 1 .. Len(left) : g[k] = i
  BY <1>7 DEF Chosen
<1>13. p = [k \in 1 .. m |-> p[k]] /\ \A k \in 1 .. m : p[k] = span(toDo[k])
  OBVIOUS
<1> HIDE DEF p, m
<1>14. IsList(p) /\ Len(p) = m
  BY <1>10, <1>13, ListMade
<1>15. \A k \in 1 .. m : p[k] = spans[f[k]] /\ p[k].start = q[f[k]].ts
  BY <1>4, <1>5, <1>11, <1>13
<1>16. \A k \in 1 .. Len(left) : left[k].start = q[g[k]].ts
  BY <1>4, <1>5, <1>12
<1> DEFINE kp == [k \in 1 .. m |-> p[k].start]
           kl == [k \in 1 .. Len(left) |-> left[k].start]
<1>17. Rises(kp, m)
  <2>1. \A k \in 1 .. m : kp[k] = q[f[k]].ts /\ f[k] \in 1 .. n
    BY <1>11, <1>15
  <2>2. kp \in [1 .. m -> Int]
    BY <1>1, <2>1
  <2>3. \A a, b \in 1 .. m : a < b => kp[a] < kp[b]
    BY <1>11, <2>1 DEF n
  <2>4. QED
    BY <2>2, <2>3 DEF Rises
<1>18. Rises(kl, Len(left))
  <2>1. \A k \in 1 .. Len(left) : kl[k] = q[g[k]].ts /\ g[k] \in 1 .. n
    BY <1>12, <1>16
  <2>2. kl \in [1 .. Len(left) -> Int]
    BY <1>1, <2>1
  <2>3. \A a, b \in 1 .. Len(left) : a < b => kl[a] < kl[b]
    BY <1>12, <2>1 DEF n
  <2>4. QED
    BY <2>2, <2>3 DEF Rises
<1>19. ASSUME NEW k \in 1 .. m
       PROVE  \E j \in 1 .. Len(left) : p[k] = left[j] /\ kp[k] = kl[j]
  <2>1. f[k] \in 1 .. n /\ q[f[k]] \in later
    BY <1>11
  <2>2. PICK j \in 1 .. Len(left) : g[j] = f[k]
    BY <1>9, <1>12, <2>1
  <2>3. p[k] = left[j]
    BY <1>12, <1>15, <2>2
  <2>4. QED
    BY <2>2, <2>3
<1>20. ASSUME NEW j \in 1 .. Len(left)
       PROVE  \E k \in 1 .. m : p[k] = left[j] /\ kp[k] = kl[j]
  <2>1. g[j] \in 1 .. n /\ spans[g[j]] \in after
    BY <1>12
  <2>2. PICK k \in 1 .. m : f[k] = g[j]
    BY <1>9, <1>11, <2>1
  <2>3. p[k] = left[j]
    BY <1>12, <1>15, <2>2
  <2>4. QED
    BY <2>2, <2>3
<1> HIDE DEF kp, kl
<1>21. p = left
  BY <1>8, <1>14, <1>17, <1>18, <1>19, <1>20, RisingSame
<1>22. Plan(spans, t) = [k \in DOMAIN left |-> left[k].text]
  BY DEF Plan, left, after
<1>23. \A k \in 1 .. m : left[k].text = Head(toDo[k].text)
  BY <1>5, <1>13, <1>21
<1>24. DOMAIN left = 1 .. m
  BY <1>10, <1>14, <1>21
<1>25. Plan(spans, t) = [k \in DOMAIN toDo |-> Head(toDo[k].text)]
  BY <1>10, <1>22, <1>23, <1>24
<1>26. QED
  BY <1>25 DEF spans, toDo, later

(* The persistent rows of a frame.                                          *)
LEMMA SliceHolds ==
  ASSUME RowsInv, NEW e \in DOMAIN records
  PROVE  LET p == PersistentSlice(e)
         IN  /\ IsList(p) /\ ToSet(p) = ToSet(staged[e].plan)
             /\ \A style \in {"subtask", "plan", "memory"} : ApartIn(p, style)
<1>1. /\ IsList(Lasting(e)) /\ ToSet(Lasting(e)) = ToSet(staged[e].plan)
      /\ \A style \in {"subtask", "plan", "memory"} : ApartIn(Lasting(e), style)
  BY StagedIs
<1> DEFINE s == Lasting(e)
           key == [i \in DOMAIN s |-> Key(s[i], s[i].ts, 0)]
<1>2. PersistentSlice(e) = Sorted(s, key) /\ key \in [1 .. Len(s) -> Int]
  BY SliceIs
<1> HIDE DEF s, key
<1>3. IsList(Sorted(s, key)) /\ ToSet(Sorted(s, key)) = ToSet(s)
  BY <1>1, <1>2, SortedIs DEF s
<1>4. \A style \in {"subtask", "plan", "memory"} : ApartIn(Sorted(s, key), style)
  BY <1>1, <1>2, SortedApart DEF s
<1>5. QED
  BY <1>1, <1>2, <1>3, <1>4 DEF s

(* The subtasks among them are in the order of their times.                 *)
LEMMA SliceRises ==
  ASSUME RowsInv, NEW e \in DOMAIN records
  PROVE  LET q == Styled(PersistentSlice(e), "subtask")
         IN  \A i, j \in 1 .. Len(q) : i < j => q[i].ts < q[j].ts
<1> DEFINE s == Lasting(e)
           n == Len(s)
           key == [i \in DOMAIN s |-> Key(s[i], s[i].ts, 0)]
           p == PersistentSlice(e)
           set == {r \in ToSet(p) : r.style = "subtask"}
           q == Styled(p, "subtask")
<1>1. /\ IsList(s) /\ ToSet(s) = ToSet(staged[e].plan)
      /\ PlanOK(staged[e].plan, records[e].times, config)
  BY StagedIs
<1>2. /\ p = Sorted(s, key) /\ key \in [1 .. n -> Int]
      /\ \A i \in 1 .. n : key[i] = Key(s[i], s[i].ts, 0)
  BY SliceIs
<1>3. IsList(p) /\ ToSet(p) = ToSet(s) /\ ApartIn(p, "subtask")
  BY <1>1, SliceHolds
<1> HIDE DEF s, key, p
<1>4. PICK f : SortedBy(f, p, s, key)
  BY <1>1, <1>2, SortedIs
<1>5. q = Only(p, set)
  BY DEF Styled
<1> HIDE DEF q, set
<1>6. PICK g : Chosen(g, q, p, Len(p), set)
  BY <1>3, <1>5, OnlyGives
<1>7. IsList(q) /\ ApartIn(q, "subtask")
  BY <1>3, <1>5, OnlyGives, OnlyApart
<1>8. /\ Len(p) = n /\ f \in [1 .. n -> 1 .. n] /\ \A k \in 1 .. n : p[k] = s[f[k]]
      /\ \A j, k \in 1 .. n : j < k => key[f[j]] <= key[f[k]]
  BY <1>4 DEF SortedBy, Permutes
<1>9. /\ g \in [1 .. Len(q) -> 1 .. n] /\ \A a, b \in 1 .. Len(q) : a < b => g[a] < g[b]
      /\ \A k \in 1 .. Len(q) : q[k] = p[g[k]] /\ q[k] \in set
  BY <1>6, <1>8 DEF Chosen
<1>10. \A r \in set : /\ r.style = "subtask" /\ r.role = "assistant" /\ r.camera = NoCamera
                      /\ r.ts \in Nat
  <2>1. \A r \in set : r.style = "subtask" /\ r \in ToSet(staged[e].plan)
    BY <1>1, <1>3 DEF set
  <2>2. ToSet(records[e].times) \subseteq Nat
    BY ClockFacts DEF RowsInv, RecordsInv, FramesMatch
  <2>3. QED
    BY <1>1, <2>1, <2>2 DEF PlanOK
<1>11. ASSUME NEW i \in 1 .. Len(q), NEW j \in 1 .. Len(q), i < j
       PROVE  q[i].ts < q[j].ts
  <2>1. /\ g[i] \in 1 .. n /\ g[j] \in 1 .. n /\ g[i] < g[j]
        /\ q[i] = p[g[i]] /\ q[j] = p[g[j]] /\ q[i] \in set /\ q[j] \in set
    BY <1>9, <1>11
  <2>2. /\ f[g[i]] \in 1 .. n /\ f[g[j]] \in 1 .. n
        /\ q[i] = s[f[g[i]]] /\ q[j] = s[f[g[j]]] /\ key[f[g[i]]] <= key[f[g[j]]]
    BY <1>8, <2>1
  <2>3. Key(q[i], q[i].ts, 0) <= Key(q[j], q[j].ts, 0)
    BY <1>2, <2>2
  <2>4. /\ q[i].ts \in Nat /\ q[j].ts \in Nat
        /\ q[i].style = "subtask" /\ q[j].style = "subtask"
        /\ q[i].role = "assistant" /\ q[j].role = "assistant"
        /\ q[i].camera = NoCamera /\ q[j].camera = NoCamera
    BY <1>10, <2>1
  <2>5. q[i].ts <= q[j].ts
    <3> DEFINE rank == StyleRank["subtask"]
    <3>1. rank \in Nat
      BY RankIs DEF Styles, Persistent
    <3> HIDE DEF rank
    <3>2. /\ Key(q[i], q[i].ts, 0) = 1000 * q[i].ts + 100 * rank
          /\ Key(q[j], q[j].ts, 0) = 1000 * q[j].ts + 100 * rank
      BY <2>4, <3>1 DEF Key, rank
    <3>3. QED
      BY <2>3, <2>4, <3>1, <3>2
  <2>6. Mark(q[i]) # Mark(q[j])
    BY <1>7, <1>11, <2>4 DEF ApartIn
  <2>7. q[i].ts # q[j].ts
    BY <2>4, <2>6 DEF Mark
  <2>8. QED
    BY <2>4, <2>5, <2>7
<1>12. QED
  BY <1>11 DEF q, p

(* A complete episode has a subtask from its first frame on, and with       *)
(* memories one at the start of each later subtask.                         *)
LEMMA CompleteHas ==
  ASSUME RowsInv, NEW e \in DOMAIN records, ~Incomplete(e)
  PROVE  LET rows == staged[e].plan
             starts == TimesOf(rows, "subtask")
         IN  /\ records[e].times[1] \in starts
             /\ config.emitMemory => starts \ {Min(starts)} \subseteq TimesOf(rows, "memory")
<1> DEFINE rows == staged[e].plan
           starts == TimesOf(rows, "subtask")
<1>1. PlanOK(rows, records[e].times, config) /\ IsList(rows)
  BY StagedIs
<1>2. TimesIn(Styled(rows, "subtask")) = starts
  BY <1>1, StyledIs
<1>3. /\ starts # {}
      /\ config.emitMemory => Covers(rows, "memory", starts \ {Min(starts)})
  <2> HIDE DEF starts
  <2> QED
    BY <1>2 DEF Incomplete
<1> HIDE DEF rows
<1>4. rows # << >>
  BY <1>3, ListEmpty DEF TimesOf
<1>5. records[e].times[1] \in starts
  BY <1>1, <1>4 DEF PlanOK
<1>6. ASSUME config.emitMemory, NEW t \in starts \ {Min(starts)}
      PROVE  t \in TimesOf(rows, "memory")
  <2> DEFINE a == At(Styled(rows, "memory"), t)
             b == At(Styled(rows, "subtask"), t)
  <2>1. Len(a) >= Len(b)
    BY <1>3, <1>6 DEF Covers
  <2>2. /\ IsList(a) /\ ToSet(a) = {r \in ToSet(Styled(rows, "memory")) : r.ts = t}
        /\ ToSet(Styled(rows, "memory")) = {r \in ToSet(rows) : r.style = "memory"}
    BY <1>1, StyledIs, AtIs
  <2>3. /\ IsList(b) /\ ToSet(b) = {r \in ToSet(Styled(rows, "subtask")) : r.ts = t}
        /\ ToSet(Styled(rows, "subtask")) = {r \in ToSet(rows) : r.style = "subtask"}
    BY <1>1, StyledIs, AtIs
  <2>4. PICK r \in ToSet(rows) : r.style = "subtask" /\ r.ts = t
    BY <1>6 DEF TimesOf
  <2>5. r \in ToSet(b)
    BY <2>3, <2>4
  <2> HIDE DEF a, b
  <2>6. Len(b) \in Nat \ {0}
    BY <2>3, <2>5, ListFacts
  <2>7. 1 \in 1 .. Len(a) /\ \A i \in 1 .. Len(a) : a[i] \in ToSet(a)
    BY <2>1, <2>2, <2>6, ListFacts
  <2>8. QED
    BY <2>2, <2>7 DEF TimesOf
<1>7. QED
  BY <1>5, <1>6 DEF rows

LEMMA ActiveFound == ColumnsInv /\ RowsInv => ActiveState
<1> SUFFICES ASSUME ColumnsInv, RowsInv, NEW e \in Written, NEW i \in Frames(e)
             PROVE  LET row == shard.rows[i]
                        subtask == Head(Latest(row, "subtask"))
                        subtasks == Styled(row.persistent, "subtask")
                        toDo == Only(subtasks, {r \in ToSet(subtasks) : r.ts >= subtask.ts})
                    IN  /\ Len(Latest(row, "subtask")) = 1
                        /\ config.emitPlan =>
                             /\ Len(Latest(row, "plan")) = 1
                             /\ Head(Latest(row, "plan")).text =
                                  [k \in DOMAIN toDo |-> Head(toDo[k].text)]
                        /\ config.emitMemory /\ subtask.ts # Min(TimesIn(subtasks)) =>
                             /\ Len(Latest(row, "memory")) = 1
                             /\ Head(Latest(row, "memory")).ts = subtask.ts
  BY DEF ActiveState
<1> DEFINE row == shard.rows[i]
           plan == staged[e].plan
           times == records[e].times
           subtask == Head(Latest(row, "subtask"))
           subtasks == Styled(row.persistent, "subtask")
           starts == TimesOf(plan, "subtask")
<1>1. phase = "done" /\ e \in Replaced /\ e \in DOMAIN records /\ ~Incomplete(e)
  BY DEF Written, Replaced, ColumnsInv, DecidedInv
<1>2. i \in 1 .. Len(shard.rows) /\ row.ep = e /\ row.ts \in Int
  BY ListFacts DEF RowsInv, FramesInv, IsFrame, Frames
<1>3. row.persistent = PersistentSlice(e)
  BY <1>1, <1>2 DEF RowsInv, WrittenInv
<1>4. Clock(times) /\ row.ts \in ToSet(times)
  BY <1>1, <1>2 DEF RowsInv, RecordsInv, FramesMatch
<1>5. PlanOK(plan, times, config) /\ IsList(plan)
  BY <1>1, StagedIs
<1>6. /\ IsList(row.persistent) /\ ToSet(row.persistent) = ToSet(plan)
      /\ \A style \in {"subtask", "plan", "memory"} : ApartIn(row.persistent, style)
  BY <1>1, <1>3, SliceHolds
<1>7. \A a, b \in 1 .. Len(subtasks) : a < b => subtasks[a].ts < subtasks[b].ts
  BY <1>1, <1>3, SliceRises
<1>8. /\ times[1] \in starts
      /\ config.emitMemory => starts \ {Min(starts)} \subseteq TimesOf(plan, "memory")
  BY <1>1, CompleteHas
<1> HIDE DEF row, plan, times, subtasks
<1>9. /\ ToSet(times) \subseteq Nat /\ row.ts \in Nat /\ times[1] <= row.ts
  <2>1. ToSet(times) \subseteq Nat
    BY <1>4, ClockFacts
  <2>2. PICK k \in 1 .. Len(times) : times[k] = row.ts
    BY <1>4, ClockFacts, ListFacts
  <2>3. times[1] <= row.ts
    BY <1>4, <2>2, ClockFacts
  <2>4. QED
    BY <1>4, <2>1, <2>3
<1>10. /\ starts \subseteq ToSet(times)
       /\ config.emitPlan => TimesOf(plan, "plan") = starts
       /\ TimesOf(plan, "memory") \subseteq starts
  BY <1>5 DEF PlanOK, TimesOf
<1>11. \A style : TimesOf(row.persistent, style) = TimesOf(plan, style)
  BY <1>6 DEF TimesOf
<1>12. ASSUME NEW style \in {"subtask", "plan", "memory"}, NEW r \in ToSet(row.persistent),
              r.style = style
       PROVE  r.camera = NoCamera /\ r.role = "assistant" /\ r.ts \in Nat
  <2>1. r.style # "task_aug"
    BY <1>12
  <2>2. QED
    BY <1>5, <1>6, <1>9, <2>1 DEF PlanOK
<1> HIDE DEF starts
<1>13. PICK t \in starts : t <= row.ts /\ \A v \in starts : v <= row.ts => v <= t
  <2>1. starts \in SUBSET Nat
    BY <1>9, <1>10
  <2> DEFINE first == times[1]
             now == row.ts
  <2>2. first \in starts /\ first <= now /\ now \in Nat
    BY <1>8, <1>9
  <2> HIDE DEF first, now
  <2>3. \E t \in starts : t <= now /\ \A v \in starts : v <= now => v <= t
    BY <2>1, <2>2, LastSeen
  <2>4. QED
    BY <2>3 DEF now
<1>14. ASSUME NEW style \in {"subtask", "plan", "memory"},
              t \in TimesOf(plan, style), TimesOf(plan, style) \subseteq starts
       PROVE  /\ Len(Latest(row, style)) = 1
              /\ Head(Latest(row, style)) \in ToSet(plan)
              /\ Head(Latest(row, style)).style = style /\ Head(Latest(row, style)).ts = t
  <2>1. /\ t \in TimesOf(row.persistent, style)
        /\ \A u \in TimesOf(row.persistent, style) : u <= row.ts => u <= t
    BY <1>11, <1>13, <1>14
  <2>2. ApartIn(row.persistent, style)
    BY <1>6
  <2>3. QED
    BY <1>2, <1>6, <1>12, <1>13, <2>1, <2>2, LatestOne
<1>15. Len(Latest(row, "subtask")) = 1 /\ subtask.ts = t
  BY <1>13, <1>14 DEF starts
<1> HIDE DEF subtask
<1>16. IsList(subtasks) /\ ToSet(subtasks) = ToSet(Styled(plan, "subtask"))
       /\ TimesIn(subtasks) = starts
  <2>1. /\ IsList(subtasks) /\ ToSet(subtasks) = {r \in ToSet(row.persistent) : r.style = "subtask"}
        /\ TimesIn(subtasks) = TimesOf(row.persistent, "subtask")
    BY <1>6, StyledIs DEF subtasks
  <2>2. ToSet(Styled(plan, "subtask")) = {r \in ToSet(plan) : r.style = "subtask"}
    BY <1>5, StyledIs
  <2>3. QED
    BY <1>6, <1>11, <2>1, <2>2 DEF starts
<1> DEFINE toDo == Only(subtasks, {r \in ToSet(subtasks) : r.ts >= t})
<1>17. ASSUME config.emitPlan
       PROVE  /\ Len(Latest(row, "plan")) = 1
              /\ Head(Latest(row, "plan")).text = [k \in DOMAIN toDo |-> Head(toDo[k].text)]
  <2> DEFINE now == Head(Latest(row, "plan"))
  <2>1. Len(Latest(row, "plan")) = 1 /\ now \in ToSet(plan) /\ now.style = "plan" /\ now.ts = t
    BY <1>10, <1>13, <1>14, <1>17
  <2> HIDE DEF now
  <2>2. now.text = Plan(Spans(plan), t)
    BY <1>5, <1>17, <2>1 DEF PlanOK
  <2>3. Uniform(Styled(plan, "subtask"), "subtask")
    BY <1>4, <1>5, SubtasksUniform
  <2>4. t \in Int
    BY <1>9, <1>10
  <2>7. IsList(subtasks) /\ ToSet(subtasks) = ToSet(Styled(plan, "subtask"))
    BY <1>16
  <2>8. LET q == subtasks
            left == Only(q, {r \in ToSet(q) : r.ts >= t})
        IN  Plan(Spans(plan), t) = [k \in DOMAIN left |-> Head(left[k].text)]
    BY <1>7, <2>3, <2>4, <2>7, PlanRead
  <2>5. Plan(Spans(plan), t) = [k \in DOMAIN toDo |-> Head(toDo[k].text)]
    BY <2>8, Zenon
  <2>6. QED
    BY <2>1, <2>2, <2>5 DEF now
<1>18. ASSUME config.emitMemory, t # Min(starts)
       PROVE  Len(Latest(row, "memory")) = 1 /\ Head(Latest(row, "memory")).ts = t
  <2>1. t \in TimesOf(plan, "memory")
    BY <1>8, <1>13, <1>18
  <2>2. QED
    BY <1>10, <1>14, <2>1
<1> HIDE DEF toDo
<1>19. QED
  BY <1>15, <1>16, <1>17, <1>18 DEF row, subtasks, subtask, toDo

(* Whatever shard, configuration, selection and answers of the model: the   *)
(* rows that modules stage pass every structural check of the validator,    *)
(* and each of them ends on its frame and only there, with one subtask, one *)
(* plan and one memory active on every frame of a written episode           *)
(* (validator.py, _materialize_table and _split_rows of writer.py).         *)
THEOREM RowsAlwaysRight == ColumnsSpec => []RowsRight
<1>1. ColumnsInv => PartialRunsSafe
  BY DEF ColumnsInv, MigratedInv, PartialRunsSafe, WriteScope
<1>2. ColumnsInv /\ RowsInv => RowsRight
  BY <1>1, OwnRowsAlwaysPass, OncePlaced, ActiveFound DEF RowsRight, ColumnsRight
<1>3. QED
  BY <1>2, RowsInvariance, PTL
=============================================================================
