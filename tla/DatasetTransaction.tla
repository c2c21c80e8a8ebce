------------------------- MODULE DatasetTransaction -------------------------
(***************************************************************************)
(* transaction.py: the recoverable rewrite of a dataset.                   *)
(*                                                                         *)
(* One run at a time holds dataset_run_lock.  It recovers what an earlier  *)
(* run left, reads the dataset, and may rewrite some of its shards: the    *)
(* transformed files are staged and the originals copied below the         *)
(* transaction directory, a journal is published, the staged files replace *)
(* the originals one by one (meta/info.json last), the journal is marked   *)
(* committed and the transaction directory is removed.                     *)
(*                                                                         *)
(* The file system is two images: cache, what every process sees, and disk,*)
(* what a power failure leaves.  A file is named by the target it belongs  *)
(* to and its content is a version number.  Each fsync of a directory      *)
(* copies its entries from cache to disk; between two of them the kernel   *)
(* may write any changed entry back, in any order, and the data of a file  *)
(* that was not fsynced may be torn when its name reaches the disk.        *)
(***************************************************************************)
EXTENDS Integers

CONSTANTS
  NumShards,   \* parquet shards of the dataset
  MaxRuns,     \* bound: rewrites attempted in a behaviour
  MaxFaults,   \* bound: kills, exceptions and power failures
  MaxEdits,    \* bound: edits of a target while its commit is pending
  PowerLoss,   \* power can fail, not only the process
  SyncWindow   \* a kill or an exception can fall between the rename of a
               \* journal that ends a transaction and its directory fsync

ASSUME ConstantsAssumption ==
  /\ NumShards \in Nat \ {0}
  /\ MaxRuns \in Nat /\ MaxFaults \in Nat /\ MaxEdits \in Nat
  /\ PowerLoss \in BOOLEAN /\ SyncWindow \in BOOLEAN

Info    == NumShards + 1          \* meta/info.json, the last path of a run
Targets == 1 .. Info

Absent  == -1                     \* no such file
Torn    == -2                     \* a name whose data never reached the disk
Foreign == -3                     \* written by somebody else
Content == {Absent, Torn, Foreign} \cup Nat

JournalStates == {"none", "prepared", "committing", "committed"}
Nothing       == [t \in Targets |-> Absent]
NoJournal     == [state |-> "none", original |-> Nothing, new |-> Absent]

VARIABLES
  cache, disk, \* file system images: target, backup, journal, txn
  unflushed,   \* targets whose transformed data has not been fsynced
  pc,          \* next step of the run holding the lock, or "idle"
  caller,      \* what recover_dataset returns to: "lock", "raise", "return"
  todo,        \* entries the current loop has not handled
  run,         \* the rewrite: its paths, version, and the dataset it read
  acked,       \* dataset the last rewrite that returned reported
  attempts, faults, edits

fs     == <<cache, disk>>
local  == <<unflushed, caller, todo, run, acked>>
bounds == <<attempts, faults, edits>>
vars   == <<cache, disk, unflushed, pc, caller, todo, run, acked,
           attempts, faults, edits>>

Paths(journal) == {t \in Targets : journal.original[t] # Absent}

(* Mistakes in the steps below are named Bug...; no action uses one.       *)

BugMetadataFirst(t) == t \in todo /\ \A u \in todo : u <= t

(* The shards in order, meta/info.json last. *)
IsNext(t) == t \in todo /\ \A u \in todo : t <= u

(* The dataset this rewrite is meant to leave behind. *)
Want == [t \in Targets |-> IF t \in run.paths THEN run.version ELSE run.base[t]]

Init ==
  /\ cache = [target  |-> [t \in Targets |-> 0],
              backup  |-> Nothing,
              journal |-> NoJournal,
              txn     |-> FALSE]
  /\ disk = cache
  /\ unflushed = {}
  /\ pc = "idle" /\ caller = "lock" /\ todo = {}
  /\ run = [paths |-> {}, version |-> 0, base |-> cache.target]
  /\ acked = cache.target
  /\ attempts = 0 /\ faults = 0 /\ edits = 0

Goto(from, to) == pc = from /\ pc' = to

-----------------------------------------------------------------------------
(* The directory fsyncs. *)

SyncTarget(t) == disk' = [disk EXCEPT !.target[t] = IF t \in unflushed
                                                    THEN Torn ELSE cache.target[t]]
SyncBackups   == disk' = [disk EXCEPT !.backup = cache.backup]
SyncJournal   == disk' = [disk EXCEPT !.journal = cache.journal]
(* The transaction directory has just been created or removed: it is empty. *)
SyncRoot      == disk' = [disk EXCEPT !.txn = cache.txn, !.backup = Nothing,
                                      !.journal = NoJournal]

-----------------------------------------------------------------------------
(* dataset_run_lock and recover_dataset. *)

(* A run takes the lock and recovers before it reads anything. *)
Acquire ==
  /\ Goto("idle", "recover")
  /\ caller' = "lock"
  /\ UNCHANGED <<fs, unflushed, todo, run, acked, bounds>>

(* recover_dataset returns: to the run that took the lock, which now reads *)
(* the dataset, to the exception being raised, or to the caller of         *)
(* rewrite_dataset.                                                        *)
Land(from) ==
  /\ Goto(from, IF caller = "lock" THEN "reading" ELSE "idle")
  /\ acked' = IF caller = "return" THEN Want ELSE acked

NothingToRecover ==
  /\ ~cache.txn
  /\ Land("recover")
  /\ UNCHANGED <<fs, unflushed, caller, todo, run, bounds>>

(* No journal, or one that says no target has to be put back. *)
OnlyCleanUp ==
  /\ cache.txn /\ cache.journal.state # "committing"
  /\ Goto("recover", "rmtree")
  /\ UNCHANGED <<fs, local, bounds>>

BugOriginalTarget(image) ==
  \A t \in Paths(image.journal) :
    image.backup[t] = image.journal.original[t]
    /\ image.target[t] = image.journal.original[t]

(* Every backup and every target is checked before any target is touched.  *)
Verified(image) ==
  \A t \in Paths(image.journal) :
    /\ image.backup[t] = image.journal.original[t]
    /\ image.target[t] \in {image.journal.original[t], image.journal.new}

StartRollback ==
  /\ cache.txn /\ cache.journal.state = "committing"
  /\ Verified(cache)
  /\ Goto("recover", "rollback")
  /\ todo' = Paths(cache.journal)
  /\ UNCHANGED <<fs, unflushed, caller, run, acked, bounds>>

(* The run fails and keeps the transaction directory as evidence. *)
RefuseToRecover ==
  /\ cache.txn /\ cache.journal.state = "committing"
  /\ ~Verified(cache)
  /\ Goto("recover", "idle")
  /\ UNCHANGED <<fs, local, bounds>>

(* A fsynced copy of the backup is renamed over the target. *)
RollbackTarget ==
  /\ Goto("rollback", "rollbackSync")
  /\ \E t \in todo :
       /\ IsNext(t)
       /\ cache' = [cache EXCEPT !.target[t] = cache.backup[t]]
       /\ unflushed' = unflushed \ {t}
  /\ UNCHANGED <<disk, caller, todo, run, acked, bounds>>

RollbackSync ==
  /\ Goto("rollbackSync", "rollback")
  /\ \E t \in todo :
       /\ IsNext(t)
       /\ SyncTarget(t)
       /\ todo' = todo \ {t}
  /\ UNCHANGED <<cache, unflushed, caller, run, acked, bounds>>

RollbackJournal ==
  /\ todo = {}
  /\ Goto("rollback", "rolledBackSync")
  /\ cache' = [cache EXCEPT !.journal.state = "prepared"]
  /\ UNCHANGED <<disk, local, bounds>>

RollbackJournalSync ==
  /\ Goto("rolledBackSync", "rmtree")
  /\ SyncJournal
  /\ UNCHANGED <<cache, local, bounds>>

(* shutil.rmtree removes the entries of the directory in any order. *)
RemoveEntry ==
  /\ pc = "rmtree"
  /\ \/ \E t \in Targets :
          /\ cache.backup[t] # Absent
          /\ cache' = [cache EXCEPT !.backup[t] = Absent]
     \/ /\ cache.journal # NoJournal
        /\ cache' = [cache EXCEPT !.journal = NoJournal]
  /\ UNCHANGED <<disk, pc, local, bounds>>

RemoveDirectory ==
  /\ cache.backup = Nothing /\ cache.journal = NoJournal
  /\ Goto("rmtree", "rootSync")
  /\ cache' = [cache EXCEPT !.txn = FALSE]
  /\ UNCHANGED <<disk, local, bounds>>

RecoveryDone ==
  /\ Land("rootSync")
  /\ SyncRoot
  /\ UNCHANGED <<cache, unflushed, caller, todo, run, bounds>>

-----------------------------------------------------------------------------
(* rewrite_dataset. *)

(* A run that has nothing to rewrite releases the lock. *)
EndRun ==
  /\ Goto("reading", "idle")
  /\ UNCHANGED <<fs, local, bounds>>

(* The shards of the selected records and meta/info.json; nothing is done  *)
(* while an earlier transaction is pending.                                *)
BeginRewrite(shards) ==
  /\ ~cache.txn
  /\ Goto("reading", "mkdirSync")
  /\ cache' = [cache EXCEPT !.txn = TRUE]
  /\ attempts' = attempts + 1
  /\ run' = [paths   |-> shards \cup {Info},
             version |-> attempts + 1,
             base    |-> cache.target]
  /\ UNCHANGED <<disk, unflushed, caller, todo, acked, faults, edits>>

MkdirSync ==
  /\ Goto("mkdirSync", "stage")
  /\ SyncRoot
  /\ UNCHANGED <<cache, local, bounds>>

(* Write and validate the transformed copies: nothing outside new/ changes. *)
Stage ==
  /\ Goto("stage", "backup")
  /\ unflushed' = run.paths
  /\ todo' = run.paths
  /\ UNCHANGED <<fs, caller, run, acked, bounds>>

(* Copy one original, then fsync the copy and the staged file. *)
BackUp ==
  /\ pc = "backup"
  /\ \E t \in todo :
       /\ IsNext(t)
       /\ cache' = [cache EXCEPT !.backup[t] = cache.target[t]]
       /\ unflushed' = unflushed \ {t}
       /\ todo' = todo \ {t}
  /\ UNCHANGED <<disk, pc, caller, run, acked, bounds>>

BugDirectoriesNotSynced ==
  /\ todo = {}
  /\ Goto("backup", "prepare")
  /\ UNCHANGED <<fs, local, bounds>>

SyncDirectories ==
  /\ todo = {}
  /\ Goto("backup", "prepare")
  /\ SyncBackups
  /\ UNCHANGED <<cache, local, bounds>>

Prepare ==
  /\ Goto("prepare", "prepareSync")
  /\ cache' = [cache EXCEPT !.journal = [state    |-> "prepared",
                                         original |-> cache.backup,
                                         new      |-> run.version]]
  /\ UNCHANGED <<disk, local, bounds>>

PrepareSync ==
  /\ Goto("prepareSync", "commit")
  /\ SyncJournal
  /\ UNCHANGED <<cache, local, bounds>>

StartCommit ==
  /\ Goto("commit", "commitSync")
  /\ cache' = [cache EXCEPT !.journal.state = "committing"]
  /\ UNCHANGED <<disk, local, bounds>>

BugCommitNotSynced ==
  /\ Goto("commitSync", "publish")
  /\ todo' = run.paths
  /\ UNCHANGED <<fs, unflushed, caller, run, acked, bounds>>

StartCommitSync ==
  /\ Goto("commitSync", "publish")
  /\ SyncJournal
  /\ todo' = run.paths
  /\ UNCHANGED <<cache, unflushed, caller, run, acked, bounds>>

(* _publish_file: rename one staged file over its target. *)
Publish ==
  /\ Goto("publish", "publishSync")
  /\ \E t \in todo :
       /\ IsNext(t)
       /\ cache' = [cache EXCEPT !.target[t] = run.version]
  /\ UNCHANGED <<disk, local, bounds>>

PublishSync ==
  /\ Goto("publishSync", "publish")
  /\ \E t \in todo :
       /\ IsNext(t)
       /\ SyncTarget(t)
       /\ todo' = todo \ {t}
  /\ UNCHANGED <<cache, unflushed, caller, run, acked, bounds>>

Finish ==
  /\ todo = {}
  /\ Goto("publish", "finishSync")
  /\ cache' = [cache EXCEPT !.journal.state = "committed"]
  /\ UNCHANGED <<disk, local, bounds>>

BugFinishNotSynced ==
  /\ Goto("finishSync", "recover")
  /\ caller' = "return"
  /\ UNCHANGED <<fs, unflushed, todo, run, acked, bounds>>

FinishSync ==
  /\ Goto("finishSync", "recover")
  /\ SyncJournal
  /\ caller' = "return"
  /\ UNCHANGED <<cache, unflushed, todo, run, acked, bounds>>

-----------------------------------------------------------------------------
(* Faults and the world outside. *)

InTry   == {"stage", "backup", "prepare", "prepareSync", "commit", "commitSync",
            "publish", "publishSync", "finishSync"}
EndSync == {"finishSync", "rolledBackSync"}

Fault ==
  /\ faults < MaxFaults
  /\ faults' = faults + 1
  /\ UNCHANGED <<run, acked, attempts, edits>>

(* An exception inside the try block: an I/O error, a failed validation or *)
(* an interrupt.  The handler recovers, then raises again.                 *)
Raise ==
  /\ Fault
  /\ pc \in InTry /\ (pc \in EndSync => SyncWindow)
  /\ pc' = "recover" /\ caller' = "raise"
  /\ UNCHANGED <<fs, unflushed, todo>>

(* The process dies, or an exception leaves a step outside the try block:  *)
(* the lock is released and everything written so far stays visible.       *)
Kill ==
  /\ Fault
  /\ pc # "idle" /\ (pc \in EndSync => SyncWindow)
  /\ pc' = "idle" /\ todo' = {} /\ caller' = "lock"
  /\ UNCHANGED <<fs, unflushed>>

PowerFailure ==
  /\ PowerLoss
  /\ Fault
  /\ cache' = disk
  /\ pc' = "idle" /\ todo' = {} /\ caller' = "lock" /\ unflushed' = {}
  /\ UNCHANGED disk

(* The kernel writes one changed entry back on its own. *)
Writeback(differs, sync) ==
  /\ PowerLoss
  /\ differs
  /\ sync
  /\ UNCHANGED <<cache, pc, local, bounds>>

WritebackTarget(t) == Writeback(disk.target[t] # cache.target[t], SyncTarget(t))
WritebackBackup(t) == Writeback(disk.txn /\ disk.backup[t] # cache.backup[t],
                                disk' = [disk EXCEPT !.backup[t] = cache.backup[t]])
WritebackJournal   == Writeback(disk.txn /\ disk.journal # cache.journal, SyncJournal)
WritebackRoot      == Writeback(disk.txn # cache.txn, SyncRoot)

(* While a commit is pending and no run is active, a target is overwritten *)
(* by another program ...                                                  *)
EditTarget(t) ==
  /\ pc = "idle" /\ t \in Paths(cache.journal)
  /\ cache.journal.state = "committing" /\ disk.journal.state = "committing"
  /\ edits < MaxEdits
  /\ edits' = edits + 1
  /\ cache' = [cache EXCEPT !.target[t] = Foreign]
  /\ disk' = [disk EXCEPT !.target[t] = Foreign]
  /\ UNCHANGED <<pc, local, attempts, faults>>

(* ... or restored from its verified original, as the error message asks.  *)
RestoreByHand(t) ==
  /\ pc = "idle" /\ cache.target[t] = Foreign
  /\ cache' = [cache EXCEPT !.target[t] = cache.backup[t]]
  /\ disk' = [disk EXCEPT !.target[t] = cache.backup[t]]
  /\ UNCHANGED <<pc, local, bounds>>

-----------------------------------------------------------------------------
Recovery ==
  \/ NothingToRecover \/ OnlyCleanUp \/ StartRollback \/ RefuseToRecover
  \/ RollbackTarget \/ RollbackSync \/ RollbackJournal \/ RollbackJournalSync
  \/ RemoveEntry \/ RemoveDirectory \/ RecoveryDone

Rewrite ==
  \/ MkdirSync \/ Stage \/ BackUp \/ SyncDirectories
  \/ Prepare \/ PrepareSync \/ StartCommit \/ StartCommitSync
  \/ Publish \/ PublishSync \/ Finish \/ FinishSync

Begin == /\ attempts < MaxRuns
         /\ \E shards \in (SUBSET (1 .. NumShards)) \ {{}} : BeginRewrite(shards)

Next ==
  \/ Acquire \/ Recovery \/ EndRun \/ Begin \/ Rewrite
  \/ Raise \/ Kill \/ PowerFailure
  \/ \E t \in Targets : WritebackTarget(t) \/ WritebackBackup(t)
  \/ WritebackJournal \/ WritebackRoot
  \/ \E t \in Targets : EditTarget(t) \/ RestoreByHand(t)

Spec == Init /\ [][Next]_vars

(* The process runs on, someone starts another run, and an operator told   *)
(* to restore an overwritten target does so between two runs.  Faults and  *)
(* edits are limited in number only.                                       *)
Fairness ==
  /\ WF_vars(Acquire)
  /\ WF_vars(Recovery)
  /\ WF_vars(Rewrite)
  /\ SF_vars(\E t \in Targets : RestoreByHand(t))

FairSpec == Spec /\ Fairness

-----------------------------------------------------------------------------
(* Properties. *)

Image == [target  : [Targets -> Content],
          backup  : [Targets -> Content],
          journal : [state    : JournalStates,
                     original : [Targets -> Content],
                     new      : Content],
          txn     : BOOLEAN]

Steps == {"idle", "recover", "rollback", "rollbackSync", "rolledBackSync",
          "rmtree", "rootSync", "reading", "mkdirSync"} \cup InTry

(* Types of the state. *)
TypeOK ==
  /\ cache \in Image /\ disk \in Image
  /\ unflushed \subseteq Targets /\ todo \subseteq Targets
  /\ pc \in Steps /\ caller \in {"lock", "raise", "return"}
  /\ run \in [paths : SUBSET Targets, version : Nat, base : [Targets -> Content]]
  /\ acked \in [Targets -> Content]
  /\ attempts \in Nat /\ faults \in Nat /\ edits \in Nat

(* The images a later run may find: what the process left and, when power  *)
(* can fail, what reached the disk.                                        *)
Images == {cache} \cup (IF PowerLoss THEN {disk} ELSE {})

(* "Originals survive every replacement until a durable commit": whatever  *)
(* image a later run finds, a journal that asks for a rollback has all the *)
(* originals it names beside it.                                           *)
OriginalsSurvive ==
  \A image \in Images :
    image.journal.state = "committing" =>
      /\ image.txn
      /\ \A t \in Paths(image.journal) :
           image.backup[t] = image.journal.original[t]

(* "The protocol never mutates a target before publishing its journal":    *)
(* in every image without a committing journal the dataset is entirely the *)
(* one the last rewrite read or entirely the one it was to leave.          *)
WholeUnlessCommitting ==
  \A image \in Images :
    image.journal.state # "committing" => image.target \in {run.base, Want}

(* What a later run, recovering from this image, would restore.            *)
Recovered(image) ==
  [t \in Targets |->
     IF /\ image.journal.state = "committing"
        /\ t \in Paths(image.journal)
        /\ image.target[t] # Foreign
     THEN image.journal.original[t]
     ELSE image.target[t]]

(* A run that holds the lock and has recovered reads a settled dataset: no *)
(* transaction is pending, no file is torn or foreign, and no failure that *)
(* comes later can give another run a different one to read.               *)
ReadsSettled ==
  pc = "reading" =>
    /\ ~cache.txn
    /\ cache.target \in {run.base, Want} \cap [Targets -> Nat]
    /\ \A image \in Images : Recovered(image) = cache.target

(* Recovery never gives up unless somebody overwrote a target.             *)
RefusesOnlyForeign ==
  \A image \in Images :
    /\ image.journal.state = "committing"
    /\ \A t \in Targets : image.target[t] # Foreign
    => Verified(image)

(* What is on the disk can be read: the dataset is whole whenever no        *)
(* rollback is asked for, and what a run has read stays so.                *)
Readable == TypeOK /\ WholeUnlessCommitting /\ ReadsSettled

(* What is not whole can be rolled back.                                   *)
Recoverable == OriginalsSurvive /\ RefusesOnlyForeign

(* "metadata publication is always last": while a rewrite publishes, no    *)
(* image gets the new meta/info.json before it has all the new shards.     *)
InfoLast(old, new) ==
  old.target[Info] # run.version /\ new.target[Info] = run.version => new.target = Want

MetadataLast ==
  pc \in {"publish", "publishSync"} => InfoLast(cache, cache') /\ InfoLast(disk, disk')

(* Nothing this code does overwrites what somebody else put in a target.   *)
ForeignKept ==
  \A t \in Targets : cache.target[t] = Foreign /\ cache'.target[t] # Foreign
                        => pc = "idle" /\ pc' = "idle"

(* What no step may do to the targets.                                     *)
StepsSafe == [][MetadataLast /\ ForeignKept]_vars

(* The rewrite is atomic, and durable once it has returned.                *)
Logical == Recovered(IF PowerLoss THEN disk ELSE cache)
Atomic  == INSTANCE AtomicDataset WITH content <- Logical
Implements == Atomic!Spec

(* A transaction left behind is resolved by the runs that follow, and one  *)
(* of them gets to read the dataset.                                       *)
PendingResolved == cache.txn ~> (pc = "reading" /\ ~cache.txn)
=============================================================================
