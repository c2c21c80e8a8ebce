-------------------------- MODULE HubPublishProofs --------------------------
(***************************************************************************)
(* Publication for every number of runs, of failing calls and of steps of  *)
(* another publisher: what is tagged is complete, how a run leaves the     *)
(* tags, and what no step takes away.                                      *)
(***************************************************************************)
EXTENDS HubPublish, BatchRunner, SequenceTheorems, TLAPS

Kinds == {"other", "files", "card"}

(* A step that the run may be at, by what has been done before it.         *)
Carded  == {"inspect", "create", "created", "backup", "backed_up", "reread"} \cup MoveSteps
Secured == {"reread", "cleanup"} \cup MoveSteps
Moving  == {"backup", "backed_up", "reread"} \cup MoveSteps \cup RestoreSteps \cup CleanUpSteps
Kept    == {"content", "work", "recheck", "create_repo", "new_head", "revalidate", "upload",
            "card", "inspect", "backup", "backed_up", "reread", "delete", "recreated",
            "failed"}
Early   == LocalSteps \cup (PlainSteps \ {"backed_up", "reread"})

(* Every card is on its files; no version tag, and none that may be put    *)
(* back, names files without a card.                                       *)
CommitsInv ==
  /\ \A c \in Commits : main[c] = "card" => c > 1 /\ main[c - 1] = "files"
  /\ refs[Version] # None => main[refs[Version]] # "files"
  /\ run.expected # None => main[run.expected] # "files"
  /\ pc = "card" => run.upload # None /\ main[run.upload] = "files"
  /\ pc \in Carded => run.final # None /\ main[run.final] = "card"

(* A tag is only moved with the opt-in, and only once the old target has a *)
(* recovery tag.                                                           *)
MoveInv ==
  /\ pc \in {"head", "tag", "create", "created"} => run.expected = None
  /\ pc \in Moving => run.allow /\ run.expected # None
  /\ pc \in Secured => refs[Backup] = run.expected
  /\ pc = "cleaned" => refs[Backup] = None
  /\ pc = "delete" /\ theirs # Overtaken => refs[Version] = run.expected

(* Where the other publisher left the version tag.                         *)
OthersInv == theirs \in Commits \ {run.expected} => refs[Version] = theirs

(* The version tag of a run that nobody interferes with.                   *)
KeptInv ==
  theirs = Untouched /\ run.expected # None =>
    /\ pc \in Kept => refs[Version] = run.expected
    /\ pc \in {"move", "recreate"} => refs[Version] = None
    /\ pc \in {"moved", "published"} \cup CleanUpSteps => refs[Version] = run.final
    /\ pc = "restore" => refs[Version] \in {None, run.expected, run.final}
    /\ pc \in RestoreSteps => faults >= 1
    /\ pc \in {"restored", "unrestored"} =>
         refs[Version] \in {run.expected, run.final} \/ faults >= 2

(* The recovery tag of the first run.                                      *)
BackupInv ==
  runs = 1 =>
    /\ pc \in Early => refs[Backup] = None
    /\ pc = "published" /\ faults = 0 => refs[Backup] = None

-----------------------------------------------------------------------------
(* A commit becomes the head and changes no other.                         *)
LEMMA AppendMain ==
  ASSUME TypeOK, NEW kind \in Kinds, main' = Append(main, kind)
  PROVE  /\ main' \in Seq(Kinds)
         /\ HeadCommit \in Nat /\ HeadCommit' = HeadCommit + 1
         /\ main'[HeadCommit'] = kind
         /\ \A c \in Commits : main'[c] = main[c]
BY DEF TypeOK, Kinds, HeadCommit, Commits

(* Types, without the step the run is at. *)
Memory == [allow : BOOLEAN, exists : BOOLEAN, parent : 0 .. HeadCommit,
           expected : 0 .. HeadCommit, upload : 0 .. HeadCommit, final : 0 .. HeadCommit]

HubOK == repo \in BOOLEAN /\ main \in Seq(Kinds) /\ refs \in [Tags -> 0 .. HeadCommit]

CountsOK ==
  /\ runs \in 1 .. MaxRuns /\ theirs \in Overtaken .. HeadCommit
  /\ faults \in 0 .. MaxFaults /\ others \in 0 .. MaxOthers

DataOK == HubOK /\ CountsOK /\ run \in Memory

PcOK == pc \in CallSteps \cup LocalSteps \cup Ends

LEMMA TypeParts == TypeOK <=> DataOK /\ PcOK
BY DEF TypeOK, DataOK, HubOK, CountsOK, Memory, PcOK, Kinds

LEMMA BlankMemory ==
  ASSUME NEW allow \in BOOLEAN, HeadCommit \in Nat
  PROVE  Blank(allow) \in Memory
<1>1. None \in 0 .. HeadCommit
  BY DEF None
<1>2. QED
  BY <1>1 DEF Blank, Memory

LEMMA TypeInit == Init => TypeOK
<1> SUFFICES ASSUME Init PROVE TypeOK
  OBVIOUS
<1>1. main \in Seq(Kinds)
  <2>1. <<>> \in Seq(Kinds)
    OBVIOUS
  <2>2. "other" \in Kinds
    BY DEF Kinds
  <2>3. <<"other">> \in Seq(Kinds)
    BY <2>2
  <2>4. main = <<>> \/ main = <<"other">>
    BY DEF Init
  <2>5. QED
    BY <2>1, <2>3, <2>4
<1>2. HeadCommit \in Nat
  BY <1>1 DEF HeadCommit
<1>3. HubOK
  BY <1>1, <1>2 DEF Init, None, HubOK
<1>4. run \in Memory
  <2>1. PICK allow \in BOOLEAN : run = Blank(allow)
    BY DEF Init
  <2>2. QED
    BY <1>2, <2>1, BlankMemory
<1>5. CountsOK
  BY <1>2, ConstantsAssumption DEF Init, Untouched, Overtaken, CountsOK
<1>6. PcOK
  BY DEF Init, PcOK, CallSteps, PlainSteps
<1>7. QED
  BY <1>3, <1>4, <1>5, <1>6, TypeParts DEF DataOK

LEMMA PcStep == PcOK /\ [Next]_vars => PcOK'
<1> SUFFICES ASSUME PcOK, [Next]_vars PROVE PcOK'
  OBVIOUS
<1>1. \A step \in CallSteps \cup LocalSteps : OnError(step) \in {"restore"} \cup Ends
  BY DEF OnError, Ends
<1>2. pc \in CallSteps \cup LocalSteps /\ Raises => PcOK'
  BY <1>1 DEF Raises, PcOK, CallSteps, RestoreSteps
<1>3. ASSUME NEW next \in CallSteps \cup LocalSteps \cup Ends, Returns(next) PROVE PcOK'
  BY <1>3 DEF Returns, PcOK
<1> USE <1>2, <1>3 DEF CallSteps, LocalSteps, Ends, PlainSteps, MoveSteps, RestoreSteps,
                       CleanUpSteps
<1>4. CASE PreflightHead \/ PreflightTag \/ CheckContent \/ LocalWork \/ RecheckContent
  BY <1>4 DEF PreflightHead, PreflightTag, CheckContent, LocalWork, RecheckContent, Read, Local
<1>5. CASE CreateRepo \/ NewHead \/ Revalidate \/ Inspect
  BY <1>5 DEF CreateRepo, NewHead, Revalidate, Inspect, Read, Write
<1>6. CASE VerifyTag \/ VerifyBackup \/ Reread \/ VerifyMove \/ Restore \/ VerifyRecreated
           \/ VerifyCleanUp
  BY <1>6 DEF VerifyTag, VerifyBackup, Reread, VerifyMove, Restore, VerifyRecreated,
     VerifyCleanUp, Verify, Read
<1>7. CASE Create \/ SecureBackup \/ Move \/ Recreate \/ Delete \/ CleanUp
  BY <1>7 DEF Create, SecureBackup, Move, Recreate, CreateTag, Delete, CleanUp, DeleteTag, Write
<1>8. CASE Upload \/ PublishCard
  BY <1>8 DEF Upload, PublishCard, Commit, Write
<1>9. CASE CallFails \/ Kill \/ StartRun
  BY <1>9 DEF CallFails, Kill, StartRun, PcOK
<1>10. ASSUME pc' = pc PROVE PcOK'
  BY <1>10 DEF PcOK
<1>11. CASE OtherCreatesRepo \/ OtherCommits \/ UNCHANGED vars
  BY <1>10, <1>11 DEF OtherCreatesRepo, OtherCommits, Other, vars
<1>12. ASSUME NEW target, OtherTags(target) PROVE PcOK'
  BY <1>10, <1>12 DEF OtherTags, Other
<1>13. QED
  BY <1>4, <1>5, <1>6, <1>7, <1>8, <1>9, <1>11, <1>12 DEF Next

LEMMA DataStep == DataOK /\ PcOK /\ [Next]_vars => DataOK'
<1> SUFFICES ASSUME DataOK, PcOK, [Next]_vars PROVE DataOK'
  OBVIOUS
<1> USE ConstantsAssumption DEF hub, world, Fault, NoFault
<1>1. HeadCommit \in Nat
  BY DEF HeadCommit, DataOK, HubOK
<1>2. Version \in Tags /\ Backup \in Tags
  BY DEF Version, Backup, Tags, DataOK, CountsOK
<1>3. ASSUME UNCHANGED main PROVE HeadCommit' = HeadCommit
  BY <1>3 DEF HeadCommit
(* A step that leaves the head where it is. *)
<1>4. ASSUME UNCHANGED main, repo' \in BOOLEAN, refs' \in [Tags -> 0 .. HeadCommit],
             run' \in Memory, runs' \in 1 .. MaxRuns, theirs' \in Overtaken .. HeadCommit,
             faults' \in 0 .. MaxFaults, others' \in 0 .. MaxOthers
      PROVE  DataOK'
  BY <1>3, <1>4 DEF DataOK, HubOK, CountsOK, Memory
<1>5. ASSUME UNCHANGED <<main, repo, refs, runs, theirs, others>>, run' \in Memory,
             faults' = faults \/ Fault
      PROVE  DataOK'
  BY <1>4, <1>5 DEF DataOK, HubOK, CountsOK
<1>6. CASE PreflightHead \/ NewHead
  <2>1. run' \in Memory
    <3>1. HeadCommit \in 0 .. HeadCommit
      BY <1>1
    <3>2. repo \in BOOLEAN /\ run \in Memory
      BY DEF DataOK, HubOK
    <3>3. \/ run' = [run EXCEPT !.exists = repo, !.parent = HeadCommit]
          \/ run' = [run EXCEPT !.parent = HeadCommit]
      BY <1>6 DEF PreflightHead, NewHead
    <3>4. QED
      BY <3>1, <3>2, <3>3 DEF Memory
  <2>2. QED
    BY <1>5, <1>6, <2>1 DEF PreflightHead, NewHead, Read
<1>7. CASE PreflightTag
  <2>1. refs[Version] \in 0 .. HeadCommit
    BY <1>2 DEF DataOK, HubOK
  <2>2. run' \in Memory
    BY <1>7, <2>1 DEF PreflightTag, DataOK, Memory
  <2>3. Untouched \in Overtaken .. HeadCommit
    BY <1>1 DEF Untouched, Overtaken
  <2>4. QED
    BY <1>4, <1>7, <2>2, <2>3 DEF PreflightTag, DataOK, HubOK, CountsOK
<1>8. CASE CheckContent \/ LocalWork \/ RecheckContent \/ Revalidate \/ Inspect \/ VerifyTag
           \/ VerifyBackup \/ Reread \/ VerifyMove \/ Restore \/ VerifyRecreated \/ VerifyCleanUp
           \/ CallFails \/ Kill
  <2>1. UNCHANGED <<repo, main, refs, run, runs, theirs, others>> /\ (faults' = faults \/ Fault)
    BY <1>8 DEF CheckContent, LocalWork, RecheckContent, Local, Revalidate, Inspect, VerifyTag,
       VerifyBackup, Reread, VerifyMove, Restore, VerifyRecreated, VerifyCleanUp, Verify, Read,
       CallFails, Kill
  <2>2. QED
    BY <1>5, <2>1 DEF DataOK
<1>9. CASE CreateRepo \/ OtherCreatesRepo
  <2>1. UNCHANGED <<main, refs, run, runs, theirs>> /\ repo' \in BOOLEAN
    BY <1>9 DEF CreateRepo, Write, OtherCreatesRepo, DataOK, HubOK
  <2>2. faults' \in 0 .. MaxFaults /\ others' \in 0 .. MaxOthers
    BY <1>9 DEF CreateRepo, Write, OtherCreatesRepo, DataOK, CountsOK
  <2>3. QED
    BY <1>4, <2>1, <2>2 DEF DataOK, HubOK, CountsOK
<1>10. ASSUME NEW tag \in Tags, NEW commit \in 0 .. HeadCommit,
              refs' = refs \/ refs' = [refs EXCEPT ![tag] = commit],
              UNCHANGED <<main, repo, run, runs, theirs, others>>, faults' = faults \/ Fault
       PROVE  DataOK'
  BY <1>4, <1>10 DEF DataOK, HubOK, CountsOK
<1>11. ASSUME NEW step, NEW next, NEW tag \in Tags, NEW commit \in 0 .. HeadCommit,
              CreateTag(step, tag, commit, next)
       PROVE  DataOK'
  BY <1>10, <1>11 DEF CreateTag, Write
<1>12. ASSUME NEW step, NEW next, NEW tag \in Tags, DeleteTag(step, tag, next)
       PROVE  DataOK'
  BY <1>1, <1>10, <1>12 DEF DeleteTag, Write, None
<1>13. CASE Create \/ SecureBackup \/ Move \/ Recreate
  <2>1. run.final \in 0 .. HeadCommit /\ run.expected \in 0 .. HeadCommit
    BY DEF DataOK, Memory
  <2>2. QED
    BY <1>2, <1>11, <1>13, <2>1 DEF Create, SecureBackup, Move, Recreate
<1>14. CASE Delete \/ CleanUp
  BY <1>2, <1>12, <1>14 DEF Delete, CleanUp
<1>15. CASE StartRun
  <2>1. Untouched \in Overtaken .. HeadCommit
    BY <1>1 DEF Untouched, Overtaken
  <2>2. PICK allow \in BOOLEAN : run' = Blank(allow)
    BY <1>15 DEF StartRun
  <2>3. run' \in Memory
    BY <1>1, <2>2, BlankMemory
  <2>4. QED
    BY <1>4, <1>15, <2>1, <2>3 DEF StartRun, DataOK, HubOK, CountsOK
<1>16. ASSUME NEW target \in {None} \cup Commits, OtherTags(target) PROVE DataOK'
  <2>1. target \in 0 .. HeadCommit /\ target \in Overtaken .. HeadCommit
        /\ Overtaken \in Overtaken .. HeadCommit
    BY <1>1 DEF None, Commits, Overtaken
  <2>2. QED
    BY <1>2, <1>4, <1>16, <2>1 DEF OtherTags, Other, DataOK, HubOK, CountsOK
<1>17. ASSUME NEW kind \in Kinds, main' = Append(main, kind)
       PROVE  /\ main' \in Seq(Kinds) /\ HeadCommit' = HeadCommit + 1
              /\ 0 .. HeadCommit \subseteq 0 .. HeadCommit' /\ HeadCommit' \in 0 .. HeadCommit'
              /\ Overtaken .. HeadCommit \subseteq Overtaken .. HeadCommit'
  <2>1. main' \in Seq(Kinds) /\ HeadCommit' = HeadCommit + 1
    BY <1>17, TypeParts, AppendMain
  <2>2. QED
    BY <1>1, <2>1 DEF Overtaken
(* A commit. *)
<1>18. ASSUME NEW kind \in Kinds, main' = Append(main, kind),
              UNCHANGED <<repo, refs, runs, theirs>>, run' \in Memory',
              faults' \in 0 .. MaxFaults, others' \in 0 .. MaxOthers
       PROVE  DataOK'
  BY <1>17, <1>18 DEF DataOK, HubOK, CountsOK
<1>19. ASSUME NEW kind \in Kinds, main' = Append(main, kind) PROVE run \in Memory'
  BY <1>17, <1>19 DEF DataOK, Memory
<1>20. CASE OtherCommits
  BY <1>18, <1>19, <1>20 DEF OtherCommits, Other, DataOK, CountsOK, Kinds
<1>21. CASE Upload \/ PublishCard
  <2>1. CASE UNCHANGED <<main, run>>
    BY <1>5, <1>21, <2>1 DEF Upload, PublishCard, Commit, Write, DataOK
  <2>2. ASSUME NEW kind \in Kinds, main' = Append(main, kind) PROVE DataOK'
    <3>1. \/ run' = run \/ run' = [run EXCEPT !.upload = HeadCommit']
          \/ run' = [run EXCEPT !.final = HeadCommit']
      BY <1>21 DEF Upload, PublishCard, HeadCommit
    <3>2. run' \in Memory'
      BY <1>17, <1>19, <2>2, <3>1 DEF Memory
    <3>3. QED
      BY <1>18, <1>21, <2>2, <3>2 DEF Upload, PublishCard, Commit, Write, DataOK, CountsOK
  <2>3. ASSUME Raises, pc \in {"upload", "card"}, UNCHANGED main, Upload \/ PublishCard
        PROVE  UNCHANGED <<main, run>>
    BY <2>3 DEF Raises, OnError, MoveSteps, RestoreSteps, CleanUpSteps, Upload, PublishCard
  <2>4. QED
    BY <1>21, <2>1, <2>2, <2>3 DEF Upload, PublishCard, Commit, Write, Kinds
<1>22. CASE UNCHANGED vars
  BY <1>5, <1>22 DEF vars, DataOK
<1>23. QED
  BY <1>6, <1>7, <1>8, <1>9, <1>13, <1>14, <1>15, <1>16, <1>20, <1>21, <1>22 DEF Next

LEMMA TypeStep == TypeOK /\ [Next]_vars => TypeOK'
<1>1. TypeOK' <=> DataOK' /\ PcOK'
  BY DEF TypeOK, DataOK, HubOK, CountsOK, Memory, PcOK, Kinds
<1>2. QED
  BY <1>1, TypeParts, PcStep, DataStep

(* For any number of runs, faults and steps of others, the state is of its *)
(* types: a tag and what the run remembers name commits that exist.        *)
THEOREM TypeCorrect == Spec => []TypeOK
BY TypeInit, TypeStep, PTL DEF Spec

-----------------------------------------------------------------------------
(* What a call that raises leads to. *)
LEMMA Errors ==
  Raises => \/ pc \in MoveSteps /\ pc' = "restore"
            \/ pc \in RestoreSteps /\ pc' = "unrestored"
            \/ pc \in CleanUpSteps /\ pc' = "published"
            \/ pc \notin MoveSteps \cup RestoreSteps \cup CleanUpSteps /\ pc' = "failed"
BY DEF Raises, OnError

(* A tag is created, or the call raises and changes nothing. *)
LEMMA Creates ==
  ASSUME TypeOK, NEW step, NEW next, NEW tag \in Tags, NEW commit,
         CreateTag(step, tag, commit, next)
  PROVE  /\ pc = step /\ UNCHANGED <<repo, main, run, runs, theirs, others>>
         /\ \A t \in Tags \ {tag} : refs'[t] = refs[t]
         /\ \/ /\ refs[tag] = None /\ refs'[tag] = commit
               /\ \/ pc' = next /\ faults' = faults
                  \/ Raises /\ faults' = faults + 1
            \/ refs[tag] # None /\ UNCHANGED <<refs, faults>> /\ Raises
BY DEF TypeOK, CreateTag, Write, Returns, Fault, NoFault, hub, world

LEMMA Deletes ==
  ASSUME TypeOK, NEW step, NEW next, NEW tag \in Tags, DeleteTag(step, tag, next)
  PROVE  /\ pc = step /\ UNCHANGED <<repo, main, run, runs, theirs, others>>
         /\ \A t \in Tags \ {tag} : refs'[t] = refs[t]
         /\ \/ /\ refs[tag] # None /\ refs'[tag] = None
               /\ \/ pc' = next /\ faults' = faults
                  \/ Raises /\ faults' = faults + 1
            \/ refs[tag] = None /\ UNCHANGED <<refs, faults>> /\ Raises
BY DEF TypeOK, DeleteTag, Write, Returns, Fault, NoFault, hub, world

(* The steps that change neither the Hub nor what the run remembers. *)
Quiet == \/ CheckContent \/ LocalWork \/ RecheckContent \/ Revalidate \/ Inspect \/ VerifyTag
         \/ VerifyBackup \/ Reread \/ VerifyMove \/ Restore \/ VerifyRecreated \/ VerifyCleanUp
         \/ CallFails \/ Kill

LEMMA QuietSteps ==
  ASSUME Quiet
  PROVE  /\ UNCHANGED <<repo, main, refs, run, runs, theirs, others>>
         /\ \/ pc \in LocalSteps /\ pc' \in {"work", "recheck", "create_repo", "failed"}
                /\ faults' = faults
            \/ pc' = "killed"
            \/ pc \in CallSteps /\ Raises /\ faults' = faults + 1
            \/ /\ faults' = faults
               /\ \/ pc = "revalidate" /\ (pc' = "upload" \/ Raises)
                  \/ pc = "inspect" /\ Inspect
                  \/ pc = "created" /\ \/ pc' = "published" /\ refs[Version] = run.final
                                       \/ Raises
                  \/ pc = "backed_up" /\ \/ pc' = "reread" /\ refs[Backup] = run.expected
                                         \/ Raises
                  \/ pc = "reread" /\ \/ pc' = "delete" /\ refs[Version] = run.expected
                                      \/ Raises
                  \/ pc = "moved" /\ \/ pc' = "cleanup" /\ refs[Version] = run.final
                                     \/ refs[Version] # run.final /\ Raises
                  \/ pc = "restore" /\ Restore
                  \/ pc = "recreated" /\ \/ pc' = "restored" /\ refs[Version] = run.expected
                                         \/ refs[Version] # run.expected /\ Raises
                  \/ pc = "cleaned" /\ (pc' = "published" \/ Raises)
<1> USE DEF hub, world, Fault, NoFault, Returns
<1>1. CASE CheckContent \/ LocalWork \/ RecheckContent
  <2>1. pc \in LocalSteps /\ (Raises => pc' = "failed")
    BY <1>1 DEF CheckContent, LocalWork, RecheckContent, Local, LocalSteps, Raises, OnError,
       MoveSteps, RestoreSteps, CleanUpSteps
  <2>2. QED
    BY <1>1, <2>1 DEF CheckContent, LocalWork, RecheckContent, Local
<1>2. CASE CallFails
  BY <1>2 DEF CallFails
<1>3. CASE Kill
  BY <1>3 DEF Kill
<1>4. CASE Inspect
  BY <1>4 DEF Inspect, Read
<1>5. CASE Restore
  BY <1>5 DEF Restore, Read
<1>6. CASE Revalidate \/ VerifyTag \/ VerifyBackup \/ Reread
  BY <1>6 DEF Revalidate, VerifyTag, VerifyBackup, Reread, Verify, Read
<1>7. CASE VerifyMove \/ VerifyRecreated \/ VerifyCleanUp
  BY <1>7 DEF VerifyMove, VerifyRecreated, VerifyCleanUp, Verify, Read
<1>8. QED
  BY <1>1, <1>2, <1>3, <1>4, <1>5, <1>6, <1>7 DEF Quiet

(* The steps before the first tag, and those of the next run. *)
LEMMA EarlySteps ==
  /\ PreflightHead =>
       /\ pc = "head" /\ pc' \in {"tag", "content"}
       /\ UNCHANGED <<repo, main, refs, runs, theirs, faults, others>>
       /\ run' = [run EXCEPT !.exists = repo, !.parent = HeadCommit]
  /\ PreflightTag =>
       /\ pc = "tag" /\ pc' \in {"content", "failed"}
       /\ UNCHANGED <<repo, main, refs, runs, faults, others>>
       /\ theirs' = Untouched /\ run' = [run EXCEPT !.expected = refs[Version]]
  /\ NewHead =>
       /\ pc = "new_head" /\ pc' = "revalidate"
       /\ UNCHANGED <<repo, main, refs, runs, theirs, faults, others>>
       /\ run' = [run EXCEPT !.parent = HeadCommit]
  /\ CreateRepo =>
       /\ pc = "create_repo" /\ pc' \in {"revalidate", "new_head", "failed"}
       /\ UNCHANGED <<main, refs, run, runs, theirs, others>>
       /\ faults' \in {faults, faults + 1}
  /\ StartRun =>
       /\ pc \in Ends /\ pc' = "head" /\ runs' = runs + 1 /\ theirs' = Untouched
       /\ UNCHANGED <<repo, main, refs, faults, others>>
       /\ \E allow \in BOOLEAN : run' = Blank(allow)
<1> USE DEF hub, world, Fault, NoFault, Returns
<1>1. pc \in {"tag", "create_repo"} /\ Raises => pc' = "failed"
  BY DEF Raises, OnError, MoveSteps, RestoreSteps, CleanUpSteps
<1>2. PreflightTag => pc' \in {"content", "failed"}
  BY <1>1 DEF PreflightTag
<1>3. CreateRepo => pc' \in {"revalidate", "new_head", "failed"}
  BY <1>1 DEF CreateRepo, Write
<1>4. CreateRepo => pc = "create_repo" /\ faults' \in {faults, faults + 1}
                    /\ UNCHANGED <<main, refs, run, runs, theirs, others>>
  BY DEF CreateRepo, Write
<1>5. QED
  BY <1>2, <1>3, <1>4 DEF PreflightHead, PreflightTag, NewHead, StartRun, Read

(* The commits of a publication. *)
LEMMA CommitSteps ==
  /\ Upload =>
       /\ pc = "upload" /\ UNCHANGED <<repo, refs, runs, theirs, others>>
       /\ faults' \in {faults, faults + 1}
       /\ \/ pc' = "failed" /\ UNCHANGED <<main, run>>
          \/ main' = Append(main, "files") /\ pc' = "failed" /\ UNCHANGED run
          \/ main' = Append(main, "files") /\ pc' = "card"
               /\ run' = [run EXCEPT !.upload = HeadCommit']
  /\ PublishCard =>
       /\ pc = "card" /\ UNCHANGED <<repo, refs, runs, theirs, others>>
       /\ faults' \in {faults, faults + 1}
       /\ \/ pc' = "failed" /\ UNCHANGED <<main, run>>
          \/ /\ run.upload \in {None, HeadCommit} /\ main' = Append(main, "card")
             /\ pc' = "failed" /\ UNCHANGED run
          \/ /\ run.upload \in {None, HeadCommit} /\ main' = Append(main, "card")
             /\ pc' = "inspect" /\ run' = [run EXCEPT !.final = HeadCommit']
<1> USE DEF hub, world, Fault, NoFault, Returns
<1>1. pc \in {"upload", "card"} /\ Raises => pc' = "failed"
  BY DEF Raises, OnError, MoveSteps, RestoreSteps, CleanUpSteps
<1>2. HeadCommit' = Len(main')
  BY DEF HeadCommit
<1>3. ASSUME Upload
      PROVE  /\ pc = "upload" /\ UNCHANGED <<repo, refs, runs, theirs, others>>
             /\ faults' \in {faults, faults + 1}
             /\ \/ UNCHANGED main /\ Raises
                \/ main' = Append(main, "files") /\ (pc' = "card" \/ Raises)
             /\ run' = IF pc' = "card" THEN [run EXCEPT !.upload = HeadCommit'] ELSE run
  BY <1>2, <1>3 DEF Upload, Commit, Write
<1>4. ASSUME PublishCard
      PROVE  /\ pc = "card" /\ UNCHANGED <<repo, refs, runs, theirs, others>>
             /\ faults' \in {faults, faults + 1}
             /\ \/ UNCHANGED main /\ Raises
                \/ /\ run.upload \in {None, HeadCommit} /\ main' = Append(main, "card")
                   /\ pc' = "inspect" \/ Raises
             /\ run' = IF pc' = "inspect" THEN [run EXCEPT !.final = HeadCommit'] ELSE run
  BY <1>2, <1>4 DEF PublishCard, Commit, Write
<1>5. ASSUME Upload, Raises PROVE pc' = "failed" /\ UNCHANGED run
  BY <1>1, <1>3, <1>5
<1>6. ASSUME PublishCard, Raises PROVE pc' = "failed" /\ UNCHANGED run
  BY <1>1, <1>4, <1>6
<1>7. QED
  BY <1>3, <1>4, <1>5, <1>6

-----------------------------------------------------------------------------
LEMMA TypeFacts ==
  ASSUME TypeOK
  PROVE  /\ HeadCommit \in Nat /\ runs \in Nat \ {0} /\ runs <= MaxRuns
         /\ Version \in Tags /\ Backup \in Tags /\ Version # Backup
         /\ \A t \in Tags : refs[t] \in 0 .. HeadCommit
         /\ run.expected \in 0 .. HeadCommit /\ run.final \in 0 .. HeadCommit
         /\ run.upload \in 0 .. HeadCommit /\ run.allow \in BOOLEAN
         /\ faults \in Nat /\ others \in Nat /\ theirs \in Int
<1>1. HeadCommit \in Nat
  BY DEF TypeOK, HeadCommit
<1>2. QED
  BY <1>1, ConstantsAssumption DEF TypeOK, Version, Backup, Tags, Overtaken

(* What the run remembers after a change of one field. *)
LEMMA RunFields ==
  ASSUME TypeOK, NEW v
  PROVE  /\ \A b \in BOOLEAN : LET r == [run EXCEPT !.exists = b, !.parent = v] IN
              r.allow = run.allow /\ r.expected = run.expected /\ r.upload = run.upload
              /\ r.final = run.final
         /\ LET r == [run EXCEPT !.parent = v] IN
              r.allow = run.allow /\ r.expected = run.expected /\ r.upload = run.upload
              /\ r.final = run.final
         /\ LET r == [run EXCEPT !.expected = v] IN
              r.allow = run.allow /\ r.expected = v /\ r.upload = run.upload
              /\ r.final = run.final
         /\ LET r == [run EXCEPT !.upload = v] IN
              r.allow = run.allow /\ r.expected = run.expected /\ r.upload = v
              /\ r.final = run.final
         /\ LET r == [run EXCEPT !.final = v] IN
              r.allow = run.allow /\ r.expected = run.expected /\ r.upload = run.upload
              /\ r.final = v
BY DEF TypeOK

LEMMA BlankFields ==
  \A b : Blank(b).expected = None /\ Blank(b).allow = b
BY DEF Blank

-----------------------------------------------------------------------------
(* A tag is moved only with the opt-in and with a recovery tag. *)
LEMMA MoveInit == Init => MoveInv
<1> SUFFICES ASSUME Init PROVE MoveInv
  OBVIOUS
<1>1. pc = "head" /\ run.expected = None
  BY BlankFields DEF Init
<1>2. QED
  BY <1>1 DEF MoveInv, Moving, Secured, MoveSteps, RestoreSteps, CleanUpSteps

LEMMA MoveStep == TypeOK /\ MoveInv /\ [Next]_vars => MoveInv'
<1> SUFFICES ASSUME TypeOK, MoveInv, [Next]_vars PROVE MoveInv'
  OBVIOUS
<1> USE TypeFacts
<1> USE DEF MoveInv, Moving, Secured, MoveSteps, RestoreSteps, CleanUpSteps
<1>1. ASSUME UNCHANGED <<refs, run, runs, theirs, pc>> PROVE MoveInv'
  BY <1>1 DEF Backup
<1>2. ASSUME pc' \in {"content", "work", "recheck", "create_repo", "new_head", "revalidate",
                      "upload", "card", "failed", "restored", "unrestored", "published",
                      "killed", "inspect"}
      PROVE  MoveInv'
  BY <1>2
<1>3. CASE Quiet
  <2>1. UNCHANGED <<refs, run, runs, theirs>> /\ Backup' = Backup
    BY <1>3, QuietSteps DEF Backup
  <2>2. CASE pc' \in {"reread", "delete", "cleanup", "restore"}
    BY <1>3, <2>1, <2>2, QuietSteps, Errors DEF Inspect, Read, Restore, Returns, LocalSteps
  <2>3. CASE pc' \in {"create", "backup", "recreate"}
    BY <1>3, <2>1, <2>3, QuietSteps, Errors DEF Inspect, Read, Restore, Returns, LocalSteps
  <2>4. CASE pc' \notin {"reread", "delete", "cleanup", "restore", "create", "backup",
                         "recreate"}
    BY <1>2, <1>3, <2>1, <2>4, QuietSteps, Errors DEF Inspect, Read, Restore, Returns
  <2>5. QED
    BY <2>2, <2>3, <2>4
<1>4. CASE PreflightHead \/ PreflightTag \/ NewHead \/ CreateRepo \/ StartRun
  <2>1. CASE PreflightHead
    <3>1. run'.expected = run.expected
      BY <2>1, EarlySteps, RunFields DEF TypeOK
    <3>2. QED
      BY <2>1, <3>1, EarlySteps
  <2>2. CASE StartRun
    <3>1. run'.expected = None
      BY <2>2, EarlySteps, BlankFields
    <3>2. QED
      BY <2>2, <3>1, EarlySteps
  <2>3. QED
    BY <1>2, <1>4, <2>1, <2>2, EarlySteps
<1>5. CASE Upload \/ PublishCard
  BY <1>2, <1>5, CommitSteps
<1>6. CASE Create
  BY <1>6, Creates, Errors DEF Create
<1>7. CASE SecureBackup
  BY <1>7, Creates, Errors DEF SecureBackup, Backup
<1>8. CASE Move
  BY <1>8, Creates, Errors DEF Move, Backup
<1>9. CASE Recreate
  BY <1>9, Creates, Errors DEF Recreate
<1>10. CASE Delete
  BY <1>10, Deletes, Errors DEF Delete, Backup
<1>11. CASE CleanUp
  BY <1>11, Deletes, Errors DEF CleanUp, Backup
<1>12. CASE OtherCommits \/ OtherCreatesRepo \/ UNCHANGED vars
  BY <1>1, <1>12 DEF OtherCommits, OtherCreatesRepo, Other, vars
<1>13. ASSUME NEW target, OtherTags(target) PROVE MoveInv'
  <2>1. UNCHANGED <<pc, run, runs>> /\ Backup' = Backup /\ refs'[Backup] = refs[Backup]
    BY <1>13 DEF OtherTags, Other, Backup, TypeOK
  <2>2. pc = "delete" => theirs' = Overtaken
    BY <1>13 DEF OtherTags
  <2>3. QED
    BY <2>1, <2>2
<1>14. QED
  BY <1>3, <1>4, <1>5, <1>6, <1>7, <1>8, <1>9, <1>10, <1>11, <1>12, <1>13 DEF Next, Quiet

-----------------------------------------------------------------------------
(* What is on main stays there: cards on their files, and the version tag  *)
(* and what may be put back under it on no bare files.                     *)
LEMMA CommitsInit == Init => CommitsInv
<1> SUFFICES ASSUME Init PROVE CommitsInv
  OBVIOUS
<1>1. \A c \in Commits : main[c] = "other"
  <2>1. CASE main = <<>>
    BY <2>1 DEF Commits, HeadCommit
  <2>2. CASE main = <<"other">>
    BY <2>2 DEF Commits, HeadCommit
  <2>3. QED
    BY <2>1, <2>2 DEF Init
<1>2. refs[Version] # None => refs[Version] \in Commits
  <2>1. PICK target \in 0 .. HeadCommit :
          refs = [t \in Tags |-> IF t = Version THEN target ELSE None]
    BY DEF Init
  <2>2. Version \in Tags
    BY ConstantsAssumption DEF Version, Tags
  <2>3. refs[Version] = target
    BY <2>1, <2>2
  <2>4. QED
    BY <2>3 DEF None, Commits
<1>3. pc = "head" /\ run.expected = None
  BY BlankFields DEF Init
<1>4. QED
  BY <1>1, <1>2, <1>3 DEF CommitsInv, Carded, MoveSteps

LEMMA CommitsStep == TypeOK /\ MoveInv /\ CommitsInv /\ [Next]_vars => CommitsInv'
<1> SUFFICES ASSUME TypeOK, MoveInv, CommitsInv, [Next]_vars PROVE CommitsInv'
  OBVIOUS
<1> USE TypeFacts
<1> USE DEF Carded, MoveSteps
(* Nothing is committed, and the version tag stays, goes, or names a       *)
(* commit that it may.                                                     *)
<1>1. ASSUME UNCHANGED main,
             \/ refs'[Version] \in {refs[Version], None}
             \/ refs'[Version] \in Commits /\ main[refs'[Version]] # "files",
             run'.expected \in {run.expected, refs[Version], None},
             pc' = "card" => pc = "card" /\ run'.upload = run.upload,
             pc' \in Carded => pc \in Carded /\ run'.final = run.final
      PROVE  CommitsInv'
  <2>1. Commits' = Commits
    BY <1>1 DEF Commits, HeadCommit
  <2>2. QED
    BY <1>1, <2>1 DEF CommitsInv
<1>2. CASE Quiet
  <2>1. UNCHANGED <<main, refs, run>>
    BY <1>2, QuietSteps
  <2>2. pc' # "card"
    BY <1>2, QuietSteps, Errors DEF Inspect, Read, Restore, Returns
  <2>3. pc' \in Carded => pc \in Carded
    BY <1>2, QuietSteps, Errors DEF Inspect, Read, Restore, Returns
  <2>4. QED
    BY <1>1, <2>1, <2>2, <2>3
<1>3. CASE PreflightHead \/ NewHead
  <2>1. run'.expected = run.expected
    BY <1>3, EarlySteps, RunFields DEF TypeOK
  <2>2. QED
    BY <1>1, <1>3, <2>1, EarlySteps
<1>4. CASE PreflightTag
  <2>1. run'.expected = refs[Version]
    BY <1>4, EarlySteps, RunFields
  <2>2. QED
    BY <1>1, <1>4, <2>1, EarlySteps
<1>5. CASE CreateRepo
  BY <1>1, <1>5, EarlySteps
<1>6. CASE StartRun
  <2>1. run'.expected = None
    BY <1>6, EarlySteps, BlankFields
  <2>2. QED
    BY <1>1, <1>6, <2>1, EarlySteps
<1>7. CASE Create \/ Move
  <2>1. run.final \in Commits /\ main[run.final] = "card"
    BY <1>7, Creates DEF Create, Move, CommitsInv, Commits, None
  <2>2. UNCHANGED <<main, run>>
    BY <1>7, Creates DEF Create, Move
  <2>3. refs'[Version] \in {refs[Version], run.final}
    BY <1>7, Creates DEF Create, Move
  <2>4. pc' # "card" /\ (pc' \in Carded => pc \in Carded)
    BY <1>7, Creates, Errors DEF Create, Move
  <2>5. QED
    BY <1>1, <2>1, <2>2, <2>3, <2>4
<1>8. CASE Recreate
  <2>1. run.expected \in Commits /\ main[run.expected] # "files"
    BY <1>8, Creates DEF Recreate, MoveInv, Moving, RestoreSteps, CommitsInv, Commits, None
  <2>2. UNCHANGED <<main, run>> /\ refs'[Version] \in {refs[Version], run.expected}
    BY <1>8, Creates DEF Recreate
  <2>3. pc' \in {"recreated", "unrestored"}
    BY <1>8, Creates, Errors DEF Recreate, RestoreSteps, CleanUpSteps
  <2>4. QED
    BY <1>1, <2>1, <2>2, <2>3
<1>9. CASE SecureBackup
  <2>1. UNCHANGED <<main, run>> /\ refs'[Version] = refs[Version]
    BY <1>9, Creates DEF SecureBackup
  <2>2. pc' # "card" /\ (pc' \in Carded => pc \in Carded)
    BY <1>9, Creates, Errors DEF SecureBackup
  <2>3. QED
    BY <1>1, <2>1, <2>2
<1>10. CASE Delete \/ CleanUp
  <2>1. UNCHANGED <<main, run>> /\ refs'[Version] \in {refs[Version], None}
    BY <1>10, Deletes DEF Delete, CleanUp
  <2>2. pc' # "card" /\ (pc' \in Carded => pc \in Carded)
    BY <1>10, Deletes, Errors DEF Delete, CleanUp
  <2>3. QED
    BY <1>1, <2>1, <2>2
(* A commit becomes the head. *)
<1>11. ASSUME NEW kind \in Kinds, main' = Append(main, kind)
       PROVE  /\ HeadCommit' = HeadCommit + 1 /\ main'[HeadCommit'] = kind
              /\ \A c \in Commits : main'[c] = main[c]
              /\ \A c \in Commits' : c \in Commits \/ c = HeadCommit'
              /\ HeadCommit' # None
  <2>1. /\ HeadCommit' = HeadCommit + 1 /\ main'[HeadCommit'] = kind
        /\ \A c \in Commits : main'[c] = main[c]
    BY <1>11, AppendMain
  <2>2. Commits' = 1 .. HeadCommit'
    BY DEF Commits
  <2>3. \A c \in Commits' : c \in Commits \/ c = HeadCommit'
    BY <2>1, <2>2 DEF Commits
  <2>4. QED
    BY <2>1, <2>3 DEF None
<1>12. ASSUME NEW kind \in Kinds, main' = Append(main, kind),
              kind = "card" => HeadCommit > 0 /\ main[HeadCommit] = "files",
              UNCHANGED refs, run'.expected = run.expected,
              \/ pc' = "failed"
              \/ UNCHANGED <<pc, run>>
              \/ pc' = "card" /\ kind = "files" /\ run'.upload = HeadCommit'
              \/ pc' = "inspect" /\ kind = "card" /\ run'.final = HeadCommit'
       PROVE  CommitsInv'
  <2> /\ HeadCommit' = HeadCommit + 1 /\ main'[HeadCommit'] = kind /\ HeadCommit' # None
      /\ \A c \in Commits : main'[c] = main[c]
      /\ \A c \in Commits' : c \in Commits \/ c = HeadCommit'
    BY <1>11, <1>12
  <2>1. \A c \in Commits' : main'[c] = "card" => c > 1 /\ main'[c - 1] = "files"
    <3>1. ASSUME NEW c \in Commits', main'[c] = "card"
          PROVE  c > 1 /\ main'[c - 1] = "files"
      <4>1. CASE c \in Commits
        <5>1. c > 1 /\ main[c - 1] = "files"
          BY <3>1, <4>1 DEF CommitsInv
        <5>2. c - 1 \in Commits
          BY <4>1, <5>1 DEF Commits
        <5>3. QED
          BY <5>1, <5>2
      <4>2. CASE c = HeadCommit'
        <5>1. HeadCommit > 0 /\ main[HeadCommit] = "files" /\ c = HeadCommit + 1
          BY <1>12, <3>1, <4>2
        <5>2. HeadCommit \in Commits /\ c - 1 = HeadCommit
          BY <5>1 DEF Commits
        <5>3. QED
          BY <5>1, <5>2
      <4>3. QED
        BY <4>1, <4>2
    <3>2. QED
      BY <3>1
  <2>2. \A c \in 0 .. HeadCommit : c # None => main'[c] = main[c]
    BY DEF Commits, None
  <2>3. refs'[Version] # None => main'[refs'[Version]] # "files"
    BY <1>12, <2>2 DEF CommitsInv
  <2>4. run'.expected # None => main'[run'.expected] # "files"
    BY <1>12, <2>2 DEF CommitsInv
  <2>5. pc' = "card" => run'.upload # None /\ main'[run'.upload] = "files"
    BY <1>12, <2>2 DEF CommitsInv
  <2>6. pc' \in Carded => run'.final # None /\ main'[run'.final] = "card"
    BY <1>12, <2>2 DEF CommitsInv
  <2>7. QED
    BY <2>1, <2>3, <2>4, <2>5, <2>6 DEF CommitsInv
<1>13. CASE Upload
  <2>1. UNCHANGED refs
        /\ (run' = run \/ run' = [run EXCEPT !.upload = HeadCommit'])
    BY <1>13, CommitSteps
  <2>2. run'.expected = run.expected
    BY <2>1 DEF TypeOK
  <2>3. CASE main' = Append(main, "files")
    <3>1. \/ pc' = "failed"
          \/ pc' = "card" /\ run'.upload = HeadCommit'
      BY <1>13, <2>3, CommitSteps, RunFields
    <3>2. QED
      BY <1>12, <2>1, <2>2, <2>3, <3>1 DEF Kinds
  <2>4. QED
    BY <1>1, <1>13, <2>1, <2>2, <2>3, CommitSteps
<1>14. CASE PublishCard
  <2>1. UNCHANGED refs
        /\ (run' = run \/ run' = [run EXCEPT !.final = HeadCommit'])
    BY <1>14, CommitSteps
  <2>2. run'.expected = run.expected
    BY <2>1 DEF TypeOK
  <2>3. CASE main' = Append(main, "card") /\ run.upload \in {None, HeadCommit}
    <3>1. \/ pc' = "failed"
          \/ pc' = "inspect" /\ run'.final = HeadCommit'
      BY <1>14, <2>3, CommitSteps, RunFields
    <3>2. HeadCommit > 0 /\ main[HeadCommit] = "files"
      BY <1>14, <2>3, CommitSteps DEF CommitsInv, None
    <3>3. QED
      BY <1>12, <2>1, <2>2, <2>3, <3>1, <3>2 DEF Kinds
  <2>4. QED
    BY <1>1, <1>14, <2>1, <2>2, <2>3, CommitSteps
<1>15. CASE OtherCommits
  BY <1>12, <1>15 DEF OtherCommits, Other, Kinds
<1>16. CASE OtherCreatesRepo \/ UNCHANGED vars
  BY <1>1, <1>16 DEF OtherCreatesRepo, vars
<1>17. ASSUME NEW target \in {None} \cup {c \in Commits : main[c] # "files"}, OtherTags(target)
       PROVE  CommitsInv'
  <2>1. refs'[Version] = target
    BY <1>17 DEF OtherTags, TypeOK
  <2>2. QED
    BY <1>1, <1>17, <2>1 DEF OtherTags, Other
<1>18. QED
  BY <1>2, <1>3, <1>4, <1>5, <1>6, <1>7, <1>8, <1>9, <1>10, <1>13, <1>14, <1>15, <1>16, <1>17
     DEF Next, Quiet

-----------------------------------------------------------------------------
(* A tag the other publisher moved is where they left it. *)
LEMMA OthersInit == Init => OthersInv
BY DEF Init, OthersInv, Untouched, Commits

LEMMA OthersStep == TypeOK /\ MoveInv /\ OthersInv /\ [Next]_vars => OthersInv'
<1> SUFFICES ASSUME TypeOK, MoveInv, OthersInv, [Next]_vars PROVE OthersInv'
  OBVIOUS
<1> USE TypeFacts
<1>1. ASSUME theirs' = theirs, theirs \in Commits' => theirs \in Commits,
             run'.expected = run.expected,
             theirs \in Commits \ {run.expected} => refs'[Version] = refs[Version]
      PROVE  OthersInv'
  BY <1>1 DEF OthersInv
<1>2. ASSUME UNCHANGED main PROVE Commits' = Commits
  BY <1>2 DEF Commits, HeadCommit
<1>3. ASSUME theirs' = Untouched PROVE OthersInv'
  BY <1>3 DEF OthersInv, Untouched, Commits
<1>4. CASE Quiet
  BY <1>1, <1>2, <1>4, QuietSteps
<1>5. CASE PreflightHead \/ NewHead
  <2>1. run'.expected = run.expected
    BY <1>5, EarlySteps, RunFields DEF TypeOK
  <2>2. QED
    BY <1>1, <1>2, <1>5, <2>1, EarlySteps
<1>6. CASE CreateRepo
  BY <1>1, <1>2, <1>6, EarlySteps
<1>7. CASE PreflightTag \/ StartRun
  BY <1>3, <1>7, EarlySteps
(* The head moves on: a commit that someone tagged was there before. *)
<1>8. ASSUME theirs' = theirs, UNCHANGED refs, run'.expected = run.expected PROVE OthersInv'
  <2>1. theirs \in Commits' => theirs \in Commits
    BY DEF TypeOK, Commits, Overtaken
  <2>2. QED
    BY <1>1, <1>8, <2>1
<1>9. CASE Upload \/ PublishCard
  <2>1. run' = run \/ run' = [run EXCEPT !.upload = HeadCommit']
        \/ run' = [run EXCEPT !.final = HeadCommit']
    BY <1>9, CommitSteps
  <2>2. run'.expected = run.expected
    BY <2>1 DEF TypeOK
  <2>3. QED
    BY <1>8, <1>9, <2>2, CommitSteps
<1>10. CASE OtherCommits \/ OtherCreatesRepo \/ UNCHANGED vars
  BY <1>8, <1>10 DEF OtherCommits, OtherCreatesRepo, Other, vars
<1>11. CASE Create \/ Move \/ Recreate
  <2>1. UNCHANGED <<main, run, theirs>>
    BY <1>11, Creates DEF Create, Move, Recreate
  <2>2. refs[Version] # None => refs'[Version] = refs[Version]
    BY <1>11, Creates DEF Create, Move, Recreate
  <2>3. theirs \in Commits \ {run.expected} => refs[Version] # None
    BY DEF OthersInv, Commits, None
  <2>4. QED
    BY <1>1, <1>2, <2>1, <2>2, <2>3
<1>12. CASE SecureBackup
  BY <1>1, <1>2, <1>12, Creates DEF SecureBackup
<1>13. CASE CleanUp
  BY <1>1, <1>2, <1>13, Deletes DEF CleanUp
<1>14. CASE Delete
  <2>1. pc = "delete" /\ UNCHANGED <<main, run, theirs>>
    BY <1>14, Deletes DEF Delete
  <2>2. theirs \notin Commits \ {run.expected}
    BY <2>1 DEF MoveInv, OthersInv, Commits, Overtaken
  <2>3. QED
    BY <1>1, <1>2, <2>1, <2>2
<1>15. ASSUME NEW target \in {None} \cup Commits, OtherTags(target) PROVE OthersInv'
  <2>1. refs'[Version] = target /\ UNCHANGED main
    BY <1>15 DEF OtherTags, TypeOK
  <2>2. theirs' = Overtaken \/ theirs' = target
    BY <1>15 DEF OtherTags
  <2>3. QED
    BY <1>2, <2>1, <2>2 DEF OthersInv, Commits, Overtaken
<1>16. QED
  BY <1>4, <1>5, <1>6, <1>7, <1>9, <1>10, <1>11, <1>12, <1>13, <1>14, <1>15 DEF Next, Quiet

-----------------------------------------------------------------------------
(* The recovery tag of the first run. *)
LEMMA BackupInit == Init => BackupInv
BY ConstantsAssumption DEF Init, BackupInv, Backup, Tags, Version

LEMMA BackupStep == TypeOK /\ MoveInv /\ BackupInv /\ [Next]_vars => BackupInv'
<1> SUFFICES ASSUME TypeOK, MoveInv, BackupInv, [Next]_vars, runs' = 1 PROVE BackupInv'
  BY DEF BackupInv
<1> USE TypeFacts
<1> USE DEF Early, LocalSteps, PlainSteps, MoveSteps, RestoreSteps, CleanUpSteps
<1>1. ~StartRun
  BY EarlySteps
<1>2. ASSUME UNCHANGED runs, refs'[Backup] = refs[Backup],
             pc' \in Early => pc \in Early,
             pc' = "published" /\ faults' = 0 =>
               refs[Backup] = None \/ pc \in Early \/ (pc = "published" /\ faults = 0)
      PROVE  BackupInv'
  BY <1>2 DEF BackupInv, Backup
<1>3. CASE Quiet
  <2>1. UNCHANGED <<refs, runs>>
    BY <1>3, QuietSteps
  <2>2. pc' \in Early => pc \in Early
    BY <1>3, QuietSteps, Errors DEF Inspect, Restore, Read, Returns
  <2>3. pc' = "published" /\ faults' = 0 => pc \in Early \/ pc = "cleaned"
    BY <1>3, QuietSteps, Errors DEF Inspect, Restore, Read, Returns
  <2>4. pc = "cleaned" => refs[Backup] = None
    BY DEF MoveInv
  <2>5. refs'[Backup] = refs[Backup]
    BY <2>1
  <2>6. pc' = "published" /\ faults' = 0 => refs[Backup] = None \/ pc \in Early
    BY <2>3, <2>4
  <2>7. QED
    BY <1>2, <2>1, <2>2, <2>5, <2>6
<1>4. CASE PreflightHead \/ PreflightTag \/ NewHead \/ CreateRepo
  BY <1>2, <1>4, EarlySteps
<1>5. CASE Upload \/ PublishCard
  BY <1>2, <1>5, CommitSteps
<1>6. CASE Create
  BY <1>2, <1>6, Creates, Errors DEF Create
<1>7. CASE Move \/ Recreate
  BY <1>2, <1>7, Creates, Errors DEF Move, Recreate
<1>8. CASE SecureBackup
  <2>1. pc' \in {"backed_up", "failed"}
    BY <1>8, Creates, Errors DEF SecureBackup
  <2>2. QED
    BY <2>1 DEF BackupInv
<1>9. CASE Delete
  BY <1>2, <1>9, Deletes, Errors DEF Delete
<1>10. CASE CleanUp
  <2>1. refs[Backup] # None
    BY <1>10, Deletes DEF CleanUp, MoveInv, Secured, Moving
  <2>2. pc = "cleanup" /\ (pc' = "cleaned" \/ (Raises /\ faults' = faults + 1))
    BY <1>10, <2>1, Deletes DEF CleanUp
  <2>3. pc' = "cleaned" \/ (pc' = "published" /\ faults' # 0)
    BY <2>2, Errors
  <2>4. QED
    BY <2>3 DEF BackupInv
<1>11. CASE OtherCommits \/ OtherCreatesRepo \/ UNCHANGED vars
  BY <1>2, <1>11 DEF OtherCommits, OtherCreatesRepo, Other, vars
<1>12. ASSUME NEW target, OtherTags(target) PROVE BackupInv'
  <2>1. refs'[Backup] = refs[Backup]
    BY <1>12 DEF OtherTags, TypeOK
  <2>2. QED
    BY <1>2, <1>12, <2>1 DEF OtherTags, Other
<1>13. QED
  BY <1>1, <1>3, <1>4, <1>5, <1>6, <1>7, <1>8, <1>9, <1>10, <1>11, <1>12 DEF Next, Quiet

-----------------------------------------------------------------------------
(* The version tag of a run that nobody interferes with. *)
LEMMA KeptInit == Init => KeptInv
<1>1. Init => run.expected = None
  BY BlankFields DEF Init
<1>2. QED
  BY <1>1 DEF KeptInv

LEMMA KeptStep == TypeOK /\ MoveInv /\ KeptInv /\ [Next]_vars => KeptInv'
<1> SUFFICES ASSUME TypeOK, MoveInv, KeptInv, [Next]_vars,
                    theirs' = Untouched, run'.expected # None
             PROVE  KeptInv'
  BY DEF KeptInv
<1> USE TypeFacts
<1> USE DEF Kept, MoveSteps, RestoreSteps, CleanUpSteps, LocalSteps
<1>1. ASSUME UNCHANGED <<refs, theirs, pc, faults>>, run'.expected = run.expected,
             run'.final = run.final
      PROVE  KeptInv'
  BY <1>1 DEF KeptInv
<1>2. ASSUME UNCHANGED <<refs, theirs>>, run'.expected = run.expected,
             pc \in Kept,
             pc' \in Kept \ {"restore", "recreate", "recreated", "restored", "unrestored",
                             "move", "moved", "published", "cleanup", "cleaned"}
      PROVE  KeptInv'
  BY <1>2 DEF KeptInv
<1>3. CASE Quiet
  <2>1. UNCHANGED <<refs, run, theirs>>
    BY <1>3, QuietSteps
  <2>2. theirs = Untouched /\ run.expected # None
    BY <2>1
  <2>3. CASE pc' = "killed"
    BY <2>3 DEF KeptInv
  <2>4. CASE pc \in CallSteps /\ Raises /\ faults' = faults + 1
    <3>1. pc \in MoveSteps => refs[Version] \in {None, run.expected, run.final}
      BY <2>2 DEF KeptInv
    <3>2. CASE pc \in MoveSteps
      BY <2>1, <2>2, <2>4, <3>1, <3>2, Errors DEF KeptInv
    <3>3. CASE pc \in RestoreSteps
      BY <2>1, <2>2, <2>4, <3>3, Errors DEF KeptInv
    <3>4. CASE pc \in CleanUpSteps
      BY <2>1, <2>2, <2>4, <3>4, Errors DEF KeptInv
    <3>5. CASE pc \notin MoveSteps \cup RestoreSteps \cup CleanUpSteps
      <4>1. pc \in Kept
        BY <2>2, <2>4, <3>5 DEF MoveInv, CallSteps, PlainSteps
      <4>2. QED
        BY <1>2, <2>1, <2>4, <3>5, <4>1, Errors
    <3>6. QED
      BY <3>2, <3>3, <3>4, <3>5
  <2>5. CASE pc \in LocalSteps
    BY <1>2, <1>3, <2>1, <2>3, <2>5, QuietSteps, Errors DEF CallSteps, PlainSteps
  <2>6. CASE pc \in {"revalidate", "created", "backed_up", "reread"} /\ faults' = faults
    <3>1. pc \in Kept
      BY <2>2, <2>6 DEF MoveInv
    <3>2. pc' \in {"upload", "reread", "delete", "failed"} \/ pc' = "killed" \/ pc = "created"
      BY <1>3, <2>6, QuietSteps, Errors
    <3>3. QED
      BY <1>2, <2>1, <2>2, <2>3, <2>6, <3>1, <3>2 DEF MoveInv
  <2>7. CASE pc = "inspect" /\ Inspect
    <3>1. \/ pc' = "published" /\ refs[Version] = run.final
          \/ pc' \in {"create", "backup", "failed"}
      BY <2>7, Errors DEF Inspect, Read, Returns
    <3>2. pc' = "create" => run.expected = None
      BY <2>7, Errors DEF Inspect, Read, Returns
    <3>3. QED
      BY <1>2, <2>1, <2>2, <2>7, <3>1, <3>2 DEF KeptInv
  <2>8. CASE pc = "restore" /\ Restore
    <3>1. \/ pc' = "recreate" /\ refs[Version] = None
          \/ pc' = "restored" /\ refs[Version] = run.expected
          \/ pc' = "unrestored" /\ refs[Version] \notin {None, run.expected}
      BY <2>8, Errors DEF Restore, Read, Returns
    <3>2. faults' = faults
      BY <2>8 DEF Restore, Read, NoFault
    <3>3. QED
      BY <2>1, <2>2, <2>8, <3>1, <3>2 DEF KeptInv
  <2>9. CASE pc \in {"moved", "recreated", "cleaned"} /\ faults' = faults
    <3>1. /\ pc = "moved" => refs[Version] = run.final
          /\ pc = "recreated" => refs[Version] = run.expected
          /\ pc = "cleaned" => refs[Version] = run.final
      BY <2>2 DEF KeptInv
    <3>2. \/ pc = "moved" /\ pc' = "cleanup"
          \/ pc = "recreated" /\ pc' = "restored"
          \/ pc = "cleaned" /\ pc' = "published"
          \/ pc' = "killed"
      BY <1>3, <2>9, <3>1, QuietSteps, Errors
    <3>3. QED
      BY <2>1, <2>2, <2>3, <2>9, <3>1, <3>2 DEF KeptInv
  <2>10. QED
    BY <1>3, <2>3, <2>4, <2>5, <2>6, <2>7, <2>8, <2>9, QuietSteps
<1>4. CASE PreflightHead
  <2>1. run'.expected = run.expected
    BY <1>4, EarlySteps, RunFields DEF TypeOK
  <2>2. QED
    BY <1>4, <2>1, EarlySteps DEF MoveInv
<1>5. CASE PreflightTag
  <2>1. run'.expected = refs[Version] /\ UNCHANGED refs /\ pc' \in {"content", "failed"}
    BY <1>5, EarlySteps, RunFields
  <2>2. QED
    BY <2>1 DEF KeptInv
<1>6. CASE NewHead
  <2>1. run'.expected = run.expected
    BY <1>6, EarlySteps DEF TypeOK
  <2>2. QED
    BY <1>2, <1>6, <2>1, EarlySteps
<1>7. CASE CreateRepo
  BY <1>2, <1>7, EarlySteps
<1>8. CASE StartRun
  BY <1>8, EarlySteps, BlankFields
<1>9. CASE Upload
  <2>1. run'.expected = run.expected
    BY <1>9, CommitSteps DEF TypeOK
  <2>2. QED
    BY <1>2, <1>9, <2>1, CommitSteps
<1>10. CASE PublishCard
  <2>1. run'.expected = run.expected
    BY <1>10, CommitSteps DEF TypeOK
  <2>2. QED
    BY <1>2, <1>10, <2>1, CommitSteps
<1>11. CASE Create
  BY <1>11, Creates DEF Create, MoveInv
<1>12. CASE SecureBackup
  <2>1. UNCHANGED <<run, theirs>> /\ refs'[Version] = refs[Version] /\ pc = "backup"
        /\ pc' \in {"backed_up", "failed"}
    BY <1>12, Creates, Errors DEF SecureBackup
  <2>2. QED
    BY <2>1 DEF KeptInv
<1>13. CASE Delete
  <2>1. UNCHANGED <<run, theirs>> /\ pc = "delete"
    BY <1>13, Deletes DEF Delete
  <2>2. refs[Version] = run.expected
    BY <2>1 DEF KeptInv
  <2>3. refs'[Version] = None /\ (pc' = "move" \/ (Raises /\ faults' = faults + 1))
    BY <1>13, <2>1, <2>2, Deletes DEF Delete
  <2>4. QED
    BY <2>1, <2>3, Errors DEF KeptInv
<1>14. CASE Move
  <2>1. UNCHANGED <<run, theirs>> /\ pc = "move"
    BY <1>14, Creates DEF Move
  <2>2. refs[Version] = None
    BY <2>1 DEF KeptInv
  <2>3. refs'[Version] = run.final /\ (pc' = "moved" \/ (Raises /\ faults' = faults + 1))
    BY <1>14, <2>1, <2>2, Creates DEF Move
  <2>4. QED
    BY <2>1, <2>3, Errors DEF KeptInv
<1>15. CASE Recreate
  <2>1. UNCHANGED <<run, theirs>> /\ pc = "recreate"
    BY <1>15, Creates DEF Recreate
  <2>2. refs[Version] = None /\ faults >= 1
    BY <2>1 DEF KeptInv
  <2>3. refs'[Version] = run.expected /\ faults' >= 1 /\ (pc' = "recreated" \/ Raises)
    BY <1>15, <2>1, <2>2, Creates DEF Recreate
  <2>4. pc' \in {"recreated", "unrestored"}
    BY <2>1, <2>3, Errors
  <2>5. QED
    BY <2>1, <2>3, <2>4 DEF KeptInv
<1>16. CASE CleanUp
  <2>1. UNCHANGED <<run, theirs>> /\ pc = "cleanup" /\ refs'[Version] = refs[Version]
        /\ pc' \in {"cleaned", "published"}
    BY <1>16, Deletes, Errors DEF CleanUp
  <2>2. QED
    BY <2>1 DEF KeptInv
<1>17. CASE OtherCommits \/ OtherCreatesRepo \/ UNCHANGED vars
  BY <1>1, <1>17 DEF OtherCommits, OtherCreatesRepo, Other, vars
<1>18. ASSUME NEW target \in {None} \cup Commits, OtherTags(target) PROVE FALSE
  BY <1>18 DEF OtherTags, Commits, None, Untouched, Overtaken
<1>19. QED
  BY <1>3, <1>4, <1>5, <1>6, <1>7, <1>8, <1>9, <1>10, <1>11, <1>12, <1>13, <1>14, <1>15, <1>16,
     <1>17, <1>18 DEF Next, Quiet

-----------------------------------------------------------------------------
(* The inductive invariant.  MoveInv carries the order of a move, on which *)
(* the parts after it rely.                                                *)
IndInv == TypeOK /\ MoveInv /\ CommitsInv /\ OthersInv /\ KeptInv /\ BackupInv

(* Every step of a run, of another publisher and every failing call keeps  *)
(* the order of a tag move and what each tag names (cli.py 470-687).       *)
THEOREM Inductive == Spec => []IndInv
<1>1. Init => IndInv
  BY TypeInit, MoveInit, CommitsInit, OthersInit, KeptInit, BackupInit DEF IndInv
<1>2. IndInv /\ [Next]_vars => IndInv'
  BY TypeStep, MoveStep, CommitsStep, OthersStep, KeptStep, BackupStep DEF IndInv
<1>3. QED
  BY <1>1, <1>2, PTL DEF Spec

(* "The tagged revision contains the generated README": whatever others    *)
(* commit and tag in between, a version tag of ours names a card, and      *)
(* right under it are the files.                                           *)
THEOREM AlwaysTagsComplete == Spec => []TaggedIsComplete
<1>1. TypeOK /\ CommitsInv => TaggedIsComplete
  <2> SUFFICES ASSUME TypeOK, CommitsInv, refs[Version] # None, main[refs[Version]] # "other"
               PROVE  main[refs[Version]] = "card" /\ main[refs[Version] - 1] = "files"
    BY DEF TaggedIsComplete
  <2>1. refs[Version] \in Commits
    BY TypeFacts DEF Commits, None
  <2>2. main[refs[Version]] \in {"other", "files", "card"}
    BY <2>1 DEF TypeOK, Commits, HeadCommit
  <2>3. main[refs[Version]] = "card"
    BY <2>2 DEF CommitsInv
  <2>4. QED
    BY <2>1, <2>3 DEF CommitsInv
<1>2. QED
  BY <1>1, Inductive, PTL DEF IndInv

(* A run that ends leaves the tags of others as they made them, the        *)
(* version tag in place after one failing call, and no recovery tag after  *)
(* a publication without a fault.                                          *)
THEOREM AlwaysEndsClean == Spec => []EndsClean
<1>1. OthersInv => OthersKept
  BY DEF OthersInv, OthersKept
<1>2. TypeOK /\ KeptInv => SingleFaultKeepsTag
  <2> SUFFICES ASSUME TypeOK, KeptInv, theirs = Untouched, run.expected # None, faults <= 1,
                      pc \in {"published", "failed", "restored", "unrestored"}
               PROVE  refs[Version] \in {run.expected, run.final}
    BY DEF SingleFaultKeepsTag
  <2>1. ~(faults >= 2)
    BY TypeFacts
  <2>2. QED
    BY <2>1 DEF KeptInv, Kept
<1>3. BackupInv => NoStrayBackup
  BY DEF BackupInv, NoStrayBackup
<1>4. IndInv => EndsClean
  BY <1>1, <1>2, <1>3 DEF IndInv, EndsClean
<1>5. QED
  BY <1>4, Inductive, PTL

-----------------------------------------------------------------------------
(* What a step takes away. *)
LEMMA TagsStep == TypeOK /\ MoveInv /\ [Next]_vars => [ReleaseKept /\ NothingRemoved]_vars
<1> SUFFICES ASSUME TypeOK, MoveInv, [Next]_vars, UNCHANGED others
             PROVE  /\ \A c \in Commits : Tagged(c) /\ ~Tagged(c)' =>
                         \/ pc = "cleanup" /\ c = run.expected
                         \/ pc = "delete" /\ theirs = Overtaken
                    /\ ~run.allow => \A t \in Tags : refs[t] # None => refs'[t] = refs[t]
  BY DEF ReleaseKept, NothingRemoved
<1> USE TypeFacts
<1>1. ASSUME \A t \in Tags : refs[t] # None => refs'[t] = refs[t]
      PROVE  \A c \in Commits : Tagged(c) => Tagged(c)'
  BY <1>1 DEF Tagged, Commits, None
<1>2. CASE UNCHANGED refs
  BY <1>1, <1>2
<1>3. ASSUME NEW step, NEW next, NEW tag \in Tags, NEW commit,
             CreateTag(step, tag, commit, next)
      PROVE  \A t \in Tags : refs[t] # None => refs'[t] = refs[t]
  BY <1>3, Creates
<1>4. CASE Create \/ SecureBackup \/ Move \/ Recreate
  BY <1>1, <1>3, <1>4 DEF Create, SecureBackup, Move, Recreate
<1>5. CASE Delete
  <2>1. pc = "delete" /\ run.allow /\ \A t \in Tags \ {Version} : refs'[t] = refs[t]
    BY <1>5, Deletes DEF Delete, MoveInv, Moving, MoveSteps
  <2>2. refs[Backup] = run.expected
    BY <2>1 DEF MoveInv, Secured, MoveSteps
  <2>3. ASSUME theirs # Overtaken, NEW c \in Commits, Tagged(c) PROVE Tagged(c)'
    <3>1. refs[Version] = refs[Backup]
      BY <2>1, <2>2, <2>3 DEF MoveInv
    <3>2. PICK t \in Tags \ {Version} : refs[t] = c
      BY <2>3, <3>1 DEF Tagged
    <3>3. QED
      BY <2>1, <3>2 DEF Tagged
  <2>4. QED
    BY <2>1, <2>3
<1>6. CASE CleanUp
  <2>1. pc = "cleanup" /\ run.allow /\ \A t \in Tags \ {Backup} : refs'[t] = refs[t]
    BY <1>6, Deletes DEF CleanUp, MoveInv, Moving, CleanUpSteps
  <2>2. refs[Backup] = run.expected
    BY <2>1 DEF MoveInv, Secured
  <2>3. ASSUME NEW c \in Commits, c # run.expected, Tagged(c) PROVE Tagged(c)'
    BY <2>1, <2>2, <2>3 DEF Tagged
  <2>4. QED
    BY <2>1, <2>3
<1>7. ASSUME NEW target, OtherTags(target) PROVE FALSE
  BY <1>7 DEF OtherTags, Other
<1>8. CASE Quiet
  BY <1>2, <1>8, QuietSteps
<1>9. CASE PreflightHead \/ PreflightTag \/ NewHead \/ CreateRepo \/ StartRun
  BY <1>2, <1>9, EarlySteps
<1>10. CASE Upload \/ PublishCard
  BY <1>2, <1>10, CommitSteps
<1>11. CASE OtherCommits \/ OtherCreatesRepo \/ UNCHANGED vars
  BY <1>2, <1>11 DEF OtherCommits, OtherCreatesRepo, vars
<1>12. QED
  BY <1>4, <1>5, <1>6, <1>7, <1>8, <1>9, <1>10, <1>11 DEF Next, Quiet

(* No step takes the last tag of a release before the new version tag has  *)
(* been verified, but for a tag overtaken right before it is deleted by    *)
(* its name; without the opt-in no step of a run removes a tag at all.     *)
THEOREM StepsKeepTags == Spec => TagsSafe
<1>1. IndInv /\ [Next]_vars => [ReleaseKept /\ NothingRemoved]_vars
  BY TagsStep DEF IndInv
<1>2. QED
  BY <1>1, Inductive, PTL DEF Spec, TagsSafe

-----------------------------------------------------------------------------
(***************************************************************************)
(* The batch scripts, whose runs publish, for any invocations, lists,       *)
(* recipes and revisions, and any number of failing commands, kills and     *)
(* pushes to the sources: what is published is pure, what an invocation     *)
(* records of its work is so, and batches leave each other's work alone.    *)
(***************************************************************************)

Ended == {"start", "refused", "over", "aborted", "killed"}

(* The steps of an item, by what lies behind them.                          *)
Unmarked  == {"download", "fetch", "prepare", "convert", "aside", "annotate"}
Logged    == {"convert", "aside", "annotate", "pushed", "ran", "mark"}
Delivered == {"pushed", "ran", "mark", "tidy"}

(* The tree of an item on its way: one revision and nothing else.           *)
Tree(b, state, version) == [revs |-> {sha[b]}, state |-> state, version |-> version]

Partial(b)  == Tree(b, "partial", VersionOf[sha[b]])
Snapshot(b) == Tree(b, "whole", VersionOf[sha[b]])
Original(b) == Tree(b, "clean", VersionOf[sha[b]])
Dataset(b)  == Tree(b, "clean", "v3")

(* The item k of an invocation's list is published with its recipe.         *)
IsPublished(b, k) ==
  \E p \in pushed :
    /\ p.repo = Batches[b].list[k] /\ p.content.mode = Mode(b)
    /\ p.content.recipe = Batches[b].recipe

(* The revision an invocation works on is published.                        *)
IsDelivered(b) ==
  \E p \in pushed :
    /\ p.repo = Repo(b) /\ p.content.mode = Mode(b)
    /\ p.content.recipe = Batches[b].recipe /\ p.content.tree.revs = {sha[b]}

-----------------------------------------------------------------------------
(* The inductive invariant. *)

ShapeInv ==
  /\ doing \in [Invocations -> Held \cup Ended]
  /\ pos \in [Invocations -> Nat \ {0}]
  /\ sha \in [Invocations -> Revisions \cup {Nothing}]
  /\ failed \in [Invocations -> SUBSET Nat]
  /\ \A b \in Invocations : failed[b] \subseteq 1 .. pos[b] - 1
  /\ source \in [Repos -> Revisions]

(* The stores have a place for each mode and source. *)
Places(f) == DOMAIN f = Modes /\ \A m \in Modes : DOMAIN f[m] = Repos

StoresInv ==
  /\ Places(work) /\ Places(old) /\ Places(log) /\ Places(marker)
  /\ DOMAIN dest = Repos

(* The flock on WORK_ROOT. *)
LockInv == \A b, c \in Invocations : doing[b] \in Held /\ doing[c] \in Held => b = c

(* Past the resolution, an invocation works on a revision of a source.      *)
ItemOf(b) ==
  doing[b] \in Held \ {"item"} =>
    pos[b] \in DOMAIN Batches[b].list /\ Repo(b) \in Repos /\ sha[b] \in Revisions

(* What is in the tree, step by step. *)
TreeOf(b) ==
  /\ doing[b] = "download" => Here(work, b) = Nothing
  /\ doing[b] \in {"download", "fetch", "prepare", "convert"} /\ Mode(b) = "generate" =>
       Here(old, b) = Nothing
  /\ doing[b] = "fetch" => Here(work, b) = Partial(b)
  /\ doing[b] = "prepare" => Here(work, b) = Snapshot(b)
  /\ doing[b] = "convert" =>
       Mode(b) = "generate" /\ Here(work, b) = Original(b)
  /\ doing[b] \in {"aside", "annotate"} => Here(work, b) = Dataset(b)

(* Between the look at the marker and the push it stays as it was. The log  *)
(* that a run has emptied has no verdict but its own.                       *)
RecordsOf(b) ==
  /\ doing[b] \in Unmarked => ~Done(b)
  /\ doing[b] \in Logged => Here(log, b) \in {b, Nothing}
  /\ doing[b] = "mark" => Here(log, b) = b
  /\ doing[b] \in Delivered => IsDelivered(b)

WorkInv == \A b \in Invocations : ItemOf(b) /\ TreeOf(b) /\ RecordsOf(b)

PureInv ==
  \A r \in Repos : dest[r] # Nothing =>
    /\ dest[r].tree.state = "clean" /\ dest[r].tree.version = "v3"
    /\ \E v \in Revisions : dest[r].tree.revs = {v}

(* Every item that lies behind an invocation has failed or is published.    *)
BehindInv ==
  \A b \in Invocations : \A k \in 1 .. pos[b] - 1 : k \in failed[b] \/ IsPublished(b, k)

OverInv == \A b \in Invocations : doing[b] = "over" => pos[b] > Len(Batches[b].list)

IInv ==
  /\ ShapeInv /\ StoresInv /\ LockInv /\ WorkInv
  /\ PureInv /\ MarkerHonest /\ BehindInv /\ OverInv

-----------------------------------------------------------------------------
(* Steps of an invocation that end its work on an item. *)
Leaves(b) ==
  \/ Begin(b) \/ Refused(b) \/ Finish(b) \/ InvalidId(b) \/ ResolveFails(b) \/ Skip(b)
  \/ RemoveFails(b) \/ DownloadFails(b) \/ PrepareFails(b) \/ Unsupported(b)
  \/ ConvertFails(b) \/ AnnotateFails(b) \/ NotValidated(b) \/ MarkFails(b) \/ Tidy(b)
  \/ Killed(b)

(* Steps that go on with it. *)
Proceeds(b) ==
  \/ Resolve(b) \/ Clean(b) \/ Download(b) \/ Downloaded(b) \/ Prepare(b) \/ Convert(b)
  \/ Converted(b) \/ Push(b) \/ Annotated(b) \/ Validated(b) \/ Mark(b)

LEMMA Cases ==
  ASSUME NEW b \in Invocations, Work(b) \/ Killed(b)
  PROVE  Leaves(b) \/ Proceeds(b)
BY DEF Work, Leaves, Proceeds

LEMMA LeavesStep ==
  ASSUME ShapeInv, NEW b \in Invocations, Leaves(b)
  PROVE  \E step \in {"item"} \cup (Ended \ {"start"}) :
           /\ doing' = [doing EXCEPT ![b] = step]
           /\ doing[b] \in Held \cup {"start"}
           /\ doing[b] = "start" => step \in {"item", "refused"}
           /\ step = "item" /\ doing[b] = "start" => ~Locked(b)
BY DEF Leaves, Begin, Refused, Finish, InvalidId, ResolveFails, Skip, RemoveFails, DownloadFails, 
       PrepareFails, Unsupported, ConvertFails, AnnotateFails, NotValidated, MarkFails, Tidy, Killed, 
       Fail, Continue, Goto, AtItem, Ended, Held

LEMMA ProceedsStep ==
  ASSUME ShapeInv, NEW b \in Invocations, Proceeds(b)
  PROVE  \E step \in Held :
           /\ doing' = [doing EXCEPT ![b] = step]
           /\ doing[b] \in Held
           /\ UNCHANGED << pos, failed, source >>
BY DEF Proceeds, Resolve, Clean, Download, Downloaded, Prepare, Convert, Converted, Push,
       Annotated, Validated, Mark, Goto, AtItem, Held

(* The stores of one mode and source are set, the others stay.              *)
LEMMA PutHere ==
  ASSUME NEW f, Places(f), NEW b \in Invocations, Mode(b) \in Modes, Repo(b) \in Repos,
         NEW value
  PROVE  /\ Places(Put(f, b, value))
         /\ Put(f, b, value)[Mode(b)][Repo(b)] = value
         /\ \A m \in Modes, r \in Repos :
              m # Mode(b) \/ r # Repo(b) => Put(f, b, value)[m][r] = f[m][r]
         /\ \A m \in Modes : m # Mode(b) => Put(f, b, value)[m] = f[m]
BY DEF Places, Put

LEMMA TreeSteps ==
  ASSUME NEW b
  PROVE  /\ [Partial(b) EXCEPT !.state = "whole"] = Snapshot(b)
         /\ [Snapshot(b) EXCEPT !.state = "clean"] = Original(b)
         /\ [Original(b) EXCEPT !.version = "v3"] = Dataset(b)
         /\ Original(b).version = VersionOf[sha[b]]
BY DEF Partial, Snapshot, Original, Dataset, Tree

(* While one invocation holds the lock no other is at work. *)
LEMMA OthersAway ==
  ASSUME ShapeInv, LockInv, NEW b \in Invocations, NEW step,
         doing[b] \in Held \/ ~Locked(b), doing' = [doing EXCEPT ![b] = step]
  PROVE  \A c \in Invocations \ {b} :
           doing'[c] \notin Held /\ ItemOf(c)' /\ TreeOf(c)' /\ RecordsOf(c)'
<1> SUFFICES ASSUME NEW c \in Invocations \ {b}
             PROVE  doing'[c] \notin Held /\ ItemOf(c)' /\ TreeOf(c)' /\ RecordsOf(c)'
  OBVIOUS
<1>1. doing'[c] \notin Held
  BY DEF ShapeInv, LockInv, Locked
<1>2. QED
  BY <1>1 DEF ItemOf, TreeOf, RecordsOf, Held, Unmarked, Logged, Delivered

(* A step that goes on with an item leaves it as the next step needs it.    *)
LEMMA ProceedsWork ==
  ASSUME IInv, NEW b \in Invocations, Proceeds(b)
  PROVE  ItemOf(b)' /\ TreeOf(b)' /\ RecordsOf(b)'
<1> USE DEF IInv
<1>0. /\ ItemOf(b) /\ TreeOf(b) /\ RecordsOf(b) /\ Mode(b) \in Modes
      /\ doing \in [Invocations -> Held \cup Ended] /\ sha \in [Invocations -> Revisions \cup {Nothing}]
      /\ pos \in [Invocations -> Nat \ {0}]
  BY BatchAssumption DEF WorkInv, ShapeInv, Mode
<1>1. pos' = pos
  BY ProceedsStep
<1>2. /\ Repo(b)' = Repo(b) /\ Mode(b)' = Mode(b)
      /\ Here(work, b)' = work'[Mode(b)][Repo(b)] /\ Here(old, b)' = old'[Mode(b)][Repo(b)]
      /\ Here(log, b)' = log'[Mode(b)][Repo(b)] /\ Here(marker, b)' = marker'[Mode(b)][Repo(b)]
      /\ sha' = sha => /\ Partial(b)' = Partial(b) /\ Snapshot(b)' = Snapshot(b)
                       /\ Original(b)' = Original(b) /\ Dataset(b)' = Dataset(b)
  BY <1>1 DEF Repo, Mode, Here, Partial, Snapshot, Original, Dataset, Tree
<1>3. ASSUME NEW step \in Held, doing' = [doing EXCEPT ![b] = step], UNCHANGED sha,
             doing[b] \in Held \ {"item"}
      PROVE  doing'[b] = step /\ ItemOf(b)'
  BY <1>0, <1>1, <1>2, <1>3 DEF ItemOf
<1>4. CASE Resolve(b)
  <2>1. doing'[b] = "check" /\ sha'[b] = source[Repo(b)] /\ Repo(b) \in Repos
    BY <1>0, <1>4 DEF Resolve, Goto
  <2>2. ItemOf(b)'
    BY <1>0, <1>1, <1>2, <1>4, <2>1, BatchAssumption DEF Resolve, AtItem, ItemOf, ShapeInv
  <2>3. QED
    BY <2>1, <2>2 DEF TreeOf, RecordsOf, Unmarked, Logged, Delivered
<1>5. CASE Clean(b)
  <2>1. doing'[b] = "download" /\ ItemOf(b)' /\ Repo(b) \in Repos
    BY <1>0, <1>3, <1>5 DEF Clean, Goto, Held, ItemOf
  <2>2. TreeOf(b)'
    BY <1>0, <1>2, <1>5, <2>1, PutHere DEF Clean, TreeOf, StoresInv, Here
  <2>3. RecordsOf(b)'
    BY <1>2, <1>5, <2>1 DEF Clean, RecordsOf, Unmarked, Logged, Delivered, Done, Here
  <2>4. QED
    BY <2>1, <2>2, <2>3
<1>6. CASE Download(b)
  <2>1. doing[b] = "download" /\ doing'[b] = "fetch" /\ ItemOf(b)' /\ Repo(b) \in Repos
    BY <1>0, <1>3, <1>6 DEF Download, Goto, Held, ItemOf
  <2>2. Here(work, b)' = Partial(b)
    <3>1. Revs(Here(work, b)) = {}
      BY <1>0, <2>1 DEF TreeOf, Revs
    <3>2. work' = Put(work, b, Partial(b))
      BY <1>6, <3>1 DEF Download, Partial, Tree
    <3>3. QED
      BY <1>0, <1>2, <2>1, <3>2, PutHere DEF StoresInv
  <2>3. TreeOf(b)'
    BY <1>0, <1>2, <1>6, <2>1, <2>2 DEF Download, TreeOf, Here
  <2>4. RecordsOf(b)'
    BY <1>0, <1>2, <1>6, <2>1 DEF Download, RecordsOf, Unmarked, Logged, Delivered, Done, Here
  <2>5. QED
    BY <2>1, <2>3, <2>4
<1>7. CASE Downloaded(b)
  <2>1. doing[b] = "fetch" /\ doing'[b] = "prepare" /\ ItemOf(b)' /\ Repo(b) \in Repos
    BY <1>0, <1>3, <1>7 DEF Downloaded, Goto, Held, ItemOf
  <2>2. Here(work, b)' = Snapshot(b)
    <3>1. Here(work, b) = Partial(b)
      BY <1>0, <2>1 DEF TreeOf
    <3>2. [Partial(b) EXCEPT !.state = "whole"] = Snapshot(b)
      BY TreeSteps
    <3>3. work' = Put(work, b, Snapshot(b))
      BY <1>7, <3>1, <3>2 DEF Downloaded
    <3>4. QED
      BY <1>0, <1>2, <2>1, <3>3, PutHere DEF StoresInv, Here
  <2>3. TreeOf(b)'
    BY <1>0, <1>2, <1>7, <2>1, <2>2 DEF Downloaded, TreeOf, Here
  <2>4. RecordsOf(b)'
    BY <1>0, <1>2, <1>7, <2>1 DEF Downloaded, RecordsOf, Unmarked, Logged, Delivered, Done, Here
  <2>5. QED
    BY <2>1, <2>3, <2>4
<1>8. CASE Prepare(b)
  <2>1. /\ doing[b] = "prepare" /\ doing'[b] \in {"annotate", "convert"}
        /\ ItemOf(b)' /\ Repo(b) \in Repos
    BY <1>0, <1>3, <1>8 DEF Prepare, Goto, Held, ItemOf
  <2>2. Here(work, b) = Snapshot(b) /\ [Here(work, b) EXCEPT !.state = "clean"] = Original(b)
    BY <1>0, <2>1, TreeSteps DEF TreeOf
  <2>3. Here(work, b).version = VersionOf[sha[b]]
    BY <2>2 DEF Snapshot, Tree
  <2>4. work' = Put(work, b, Original(b))
    BY <1>8, <2>2 DEF Prepare
  <2>5. Here(work, b)' = Original(b)
    BY <1>0, <1>2, <2>1, <2>4, PutHere DEF StoresInv
  <2>6. /\ doing'[b] = "annotate" => VersionOf[sha[b]] = "v3"
        /\ doing'[b] = "convert" => Mode(b) = "generate"
    BY <1>0, <1>8, <2>3 DEF Prepare, Goto
  <2>7. TreeOf(b)'
    <3>1. doing'[b] = "annotate" => Here(work, b)' = Dataset(b)
      BY <2>5, <2>6 DEF Original, Dataset, Tree
    <3>2. sha' = sha /\ (Mode(b) = "generate" => Here(old, b)' = Nothing)
      BY <1>0, <1>2, <1>8, <2>1 DEF Prepare, TreeOf, Here
    <3>3. QED
      BY <1>2, <2>1, <2>5, <2>6, <3>1, <3>2 DEF TreeOf
  <2>8. Here(log, b)' = Nothing
    BY <1>0, <1>2, <1>8, <2>1, PutHere DEF Prepare, Truncated, StoresInv
  <2>9. RecordsOf(b)'
    BY <1>0, <1>2, <1>8, <2>1, <2>8 DEF Prepare, RecordsOf, Unmarked, Logged, Delivered, Done, Here
  <2>10. QED
    BY <2>1, <2>7, <2>9
<1>9. CASE Convert(b)
  <2>1. doing[b] = "convert" /\ doing'[b] = "aside" /\ ItemOf(b)' /\ Repo(b) \in Repos
    BY <1>0, <1>3, <1>9 DEF Convert, Goto, Held, ItemOf
  <2>2. Here(old, b) = Nothing /\ Here(work, b) = Original(b)
    BY <1>0, <2>1 DEF TreeOf
  <2>3. work' = Put(work, b, Dataset(b))
    BY <1>9, <2>2, TreeSteps DEF Convert
  <2>4. TreeOf(b)'
    BY <1>0, <1>2, <1>9, <2>1, <2>3, PutHere DEF Convert, TreeOf, StoresInv
  <2>5. RecordsOf(b)'
    BY <1>0, <1>2, <1>9, <2>1 DEF Convert, RecordsOf, Unmarked, Logged, Delivered, Done, Here
  <2>6. QED
    BY <2>1, <2>4, <2>5
<1>10. CASE Converted(b)
  <2>1. doing[b] = "aside" /\ doing'[b] = "annotate" /\ ItemOf(b)' /\ Repo(b) \in Repos
    BY <1>0, <1>3, <1>10 DEF Converted, Goto, Held, ItemOf
  <2>2. TreeOf(b)'
    BY <1>0, <1>2, <1>10, <2>1 DEF Converted, TreeOf, Here
  <2>3. RecordsOf(b)'
    BY <1>0, <1>2, <1>10, <2>1 DEF Converted, RecordsOf, Unmarked, Logged, Delivered, Done, Here
  <2>4. QED
    BY <2>1, <2>2, <2>3
<1>11. CASE Push(b)
  <2>1. doing[b] = "annotate" /\ doing'[b] = "pushed" /\ ItemOf(b)' /\ Repo(b) \in Repos
    BY <1>0, <1>3, <1>11 DEF Push, Goto, Held, ItemOf
  <2>2. TreeOf(b)'
    BY <2>1 DEF TreeOf
  <2>3. Here(log, b)' \in {b, Nothing}
    BY <1>0, <1>2, <1>11, <2>1, PutHere DEF Push, RecordsOf, Logged, StoresInv
  <2>4. IsDelivered(b)'
    <3>1. Here(work, b).revs = {sha[b]}
      BY <1>0, <2>1 DEF TreeOf, Dataset, Tree
    <3>2. QED
      <4> DEFINE p == [repo |-> Repo(b),
                       content |-> [tree |-> Here(work, b), mode |-> Mode(b),
                                    recipe |-> Batches[b].recipe]]
      <4>1. p \in pushed' /\ sha' = sha
        BY <1>11 DEF Push
      <4>2. /\ p.repo = Repo(b)' /\ p.content.mode = Mode(b)'
            /\ p.content.recipe = Batches[b].recipe /\ p.content.tree.revs = {sha'[b]}
        BY <1>2, <3>1, <4>1
      <4>3. QED
        BY <4>1, <4>2 DEF IsDelivered
  <2>5. RecordsOf(b)'
    BY <2>1, <2>3, <2>4 DEF RecordsOf, Unmarked, Logged, Delivered
  <2>6. QED
    BY <2>1, <2>2, <2>5
<1>12. CASE Annotated(b) \/ Validated(b)
  <2>1. /\ doing[b] \in {"pushed", "ran"} /\ doing'[b] \in {"ran", "mark"} /\ ItemOf(b)'
        /\ UNCHANGED << sha, log, pushed >>
        /\ doing'[b] = "mark" => Here(log, b) # Nothing
    BY <1>0, <1>3, <1>12 DEF Annotated, Validated, Goto, Held, ItemOf, remote
  <2>2. TreeOf(b)'
    BY <2>1 DEF TreeOf
  <2>3. IsDelivered(b)'
    <3>1. IsDelivered(b)
      BY <1>0, <2>1 DEF RecordsOf, Delivered
    <3>2. QED
      BY <1>2, <2>1, <3>1 DEF IsDelivered
  <2>4. RecordsOf(b)'
    <3>1. Here(log, b) \in {b, Nothing} /\ Here(log, b)' = Here(log, b)
      BY <1>0, <1>2, <2>1 DEF RecordsOf, Logged, Here
    <3>2. QED
      BY <2>1, <2>3, <3>1 DEF RecordsOf, Unmarked, Logged, Delivered
  <2>5. QED
    BY <2>1, <2>2, <2>4
<1>13. CASE Mark(b)
  <2>1. /\ doing[b] = "mark" /\ doing'[b] = "tidy" /\ ItemOf(b)' /\ UNCHANGED << sha, pushed >>
    BY <1>0, <1>3, <1>13 DEF Mark, Goto, Held, ItemOf, remote
  <2>2. IsDelivered(b)'
    <3>1. IsDelivered(b)
      BY <1>0, <2>1 DEF RecordsOf, Delivered
    <3>2. QED
      BY <1>2, <2>1, <3>1 DEF IsDelivered
  <2>3. QED
    BY <2>1, <2>2 DEF TreeOf, RecordsOf, Unmarked, Logged, Delivered
<1>14. QED
  BY <1>4, <1>5, <1>6, <1>7, <1>8, <1>9, <1>10, <1>11, <1>12, <1>13 DEF Proceeds

-----------------------------------------------------------------------------
(* What a step of an invocation does to the rest. *)

LEMMA BehindStep ==
  ASSUME ShapeInv, NEW b \in Invocations, Leaves(b)
  PROVE  /\ source' = source
         /\ \/ UNCHANGED << pos, failed >>
            \/ /\ pos' = [pos EXCEPT ![b] = @ + 1]
               /\ failed' = [failed EXCEPT ![b] = @ \cup {pos[b]}]
            \/ /\ pos' = [pos EXCEPT ![b] = @ + 1] /\ UNCHANGED failed
               /\ (doing[b] = "check" /\ Done(b)) \/ doing[b] = "tidy"
BY DEF Leaves, Begin, Refused, Finish, InvalidId, ResolveFails, Skip, RemoveFails, DownloadFails,
       PrepareFails, Unsupported, ConvertFails, AnnotateFails, NotValidated, MarkFails, Tidy, Killed,
       Fail, Continue, Goto, Breaks

LEMMA RemoteStep ==
  ASSUME NEW b \in Invocations, Leaves(b) \/ Proceeds(b)
  PROVE  /\ Push(b) \/ UNCHANGED remote
         /\ Mark(b) \/ UNCHANGED marker
         /\ pushed \subseteq pushed'
<1>1. CASE Push(b)
  BY <1>1 DEF Push
<1>2. CASE Leaves(b)
  BY <1>2 DEF Leaves, Begin, Refused, Finish, InvalidId, ResolveFails, Skip, RemoveFails,
       DownloadFails, PrepareFails, Unsupported, ConvertFails, AnnotateFails, NotValidated, MarkFails,
       Tidy, Killed, remote
<1>3. CASE Proceeds(b) /\ ~Push(b)
  BY <1>3 DEF Proceeds, Resolve, Clean, Download, Downloaded, Prepare, Convert, Converted,
       Annotated, Validated, Mark, remote
<1>4. QED
  BY <1>1, <1>2, <1>3

LEMMA StoresStep ==
  ASSUME IInv, NEW b \in Invocations, Leaves(b) \/ Proceeds(b)
  PROVE  /\ StoresInv'
         /\ \A m \in Modes : m # Mode(b) =>
              work'[m] = work[m] /\ old'[m] = old[m] /\ marker'[m] = marker[m]
<1>1. /\ Mode(b) \in Modes /\ (doing[b] \in Held \ {"item"} => Repo(b) \in Repos)
      /\ Places(work) /\ Places(old) /\ Places(log) /\ Places(marker) /\ DOMAIN dest = Repos
  BY BatchAssumption DEF IInv, WorkInv, ItemOf, StoresInv, Mode
<1>2. ASSUME NEW f, Places(f), NEW g, NEW value, Repo(b) \in Repos,
             g = f \/ g = Put(f, b, value)
      PROVE  Places(g) /\ \A m \in Modes : m # Mode(b) => g[m] = f[m]
  BY <1>1, <1>2, PutHere
<1>3. CASE doing[b] \in {"start", "item"}
  <2>1. UNCHANGED << work, old, log, marker, dest >>
    BY <1>3 DEF Leaves, Proceeds, Begin, Refused, Finish, InvalidId, ResolveFails, Skip, RemoveFails,
         DownloadFails, PrepareFails, Unsupported, ConvertFails, AnnotateFails, NotValidated,
         MarkFails, Tidy, Killed, Resolve, Clean, Download, Downloaded, Prepare, Convert, Converted,
         Push, Annotated, Validated, Mark, trees, remote
  <2>2. QED
    BY <1>1, <2>1 DEF StoresInv
<1>4. CASE doing[b] \in Held \ {"item"}
  <2>1. Repo(b) \in Repos
    BY <1>1, <1>4
  <2>2. /\ \E value : work' = work \/ work' = Put(work, b, value)
        /\ \E value : old' = old \/ old' = Put(old, b, value)
        /\ \E value : log' = log \/ log' = Put(log, b, value)
        /\ \E value : marker' = marker \/ marker' = Put(marker, b, value)
    <3>1. CASE Leaves(b)
      BY <3>1, <1>4 DEF Leaves, Begin, Refused, Finish, InvalidId, ResolveFails, Skip, RemoveFails,
         DownloadFails, PrepareFails, Unsupported, ConvertFails, AnnotateFails, NotValidated,
         MarkFails, Tidy, Killed, Truncated, trees, remote
    <3>2. CASE Proceeds(b)
      BY <3>2 DEF Proceeds, Resolve, Clean, Download, Downloaded, Prepare, Convert, Converted,
         Push, Annotated, Validated, Mark, Truncated, trees, remote
    <3>3. QED
      BY <3>1, <3>2
  <2>3. DOMAIN dest' = Repos
    BY <1>1, RemoteStep DEF Push, remote
  <2>4. QED
    BY <1>1, <1>2, <2>1, <2>2, <2>3 DEF StoresInv
<1>5. QED
  BY <1>3, <1>4, LeavesStep, ProceedsStep DEF IInv

LEMMA ShapeStep ==
  ASSUME IInv, NEW b \in Invocations, Leaves(b) \/ Proceeds(b)
  PROVE  ShapeInv'
<1> USE DEF IInv
<1>1. doing' \in [Invocations -> Held \cup Ended]
  BY LeavesStep, ProceedsStep DEF ShapeInv, Ended, Held
<1>2. sha' \in [Invocations -> Revisions \cup {Nothing}]
  <2>1. CASE Leaves(b)
    BY <2>1 DEF ShapeInv, Leaves, Begin, Refused, Finish, InvalidId, ResolveFails, Skip, RemoveFails,
         DownloadFails, PrepareFails, Unsupported, ConvertFails, AnnotateFails, NotValidated,
         MarkFails, Tidy, Killed
  <2>2. CASE Proceeds(b)
    BY <2>2 DEF ShapeInv, Proceeds, Resolve, Clean, Download, Downloaded, Prepare, Convert,
         Converted, Push, Annotated, Validated, Mark
  <2>3. QED
    BY <2>1, <2>2
<1>3. /\ source' = source
      /\ \/ UNCHANGED << pos, failed >>
         \/ /\ pos' = [pos EXCEPT ![b] = @ + 1]
            /\ \/ UNCHANGED failed
               \/ failed' = [failed EXCEPT ![b] = @ \cup {pos[b]}]
  BY BehindStep, ProceedsStep
<1>4. /\ pos' \in [Invocations -> Nat \ {0}] /\ failed' \in [Invocations -> SUBSET Nat]
      /\ \A c \in Invocations : failed'[c] \subseteq 1 .. pos'[c] - 1
  <2>1. ASSUME NEW c \in Invocations
        PROVE  /\ pos'[c] \in Nat \ {0} /\ failed'[c] \in SUBSET Nat
               /\ failed'[c] \subseteq 1 .. pos'[c] - 1
    BY <1>3 DEF ShapeInv
  <2>2. DOMAIN pos' = Invocations /\ DOMAIN failed' = Invocations
    BY <1>3 DEF ShapeInv
  <2>3. pos' = [c \in Invocations |-> pos'[c]] /\ failed' = [c \in Invocations |-> failed'[c]]
    BY <1>3, <2>2 DEF ShapeInv
  <2>4. QED
    BY <2>1, <2>3
<1>5. source' \in [Repos -> Revisions]
  <2>1. source \in [Repos -> Revisions]
    BY DEF ShapeInv
  <2>2. source' = source
    BY BehindStep, ProceedsStep
  <2>3. QED
    BY <2>1, <2>2
<1>6. QED
  BY <1>1, <1>2, <1>4, <1>5 DEF ShapeInv

LEMMA LockStep ==
  ASSUME IInv, NEW b \in Invocations, Leaves(b) \/ Proceeds(b)
  PROVE  LockInv' /\ WorkInv'
<1> USE DEF IInv
<1>1. PICK step \in Held \cup Ended :
        /\ doing' = [doing EXCEPT ![b] = step]
        /\ doing[b] \in Held \/ step \notin Held \/ ~Locked(b)
        /\ Proceeds(b) => doing[b] \in Held
        /\ Leaves(b) => step \in {"item"} \cup Ended
  BY LeavesStep, ProceedsStep DEF Ended, Held
<1>2. doing \in [Invocations -> Held \cup Ended] /\ doing'[b] = step
  BY <1>1 DEF ShapeInv
<1>3. LockInv'
  BY <1>1, <1>2 DEF LockInv, Locked
<1>4. ItemOf(b)' /\ TreeOf(b)' /\ RecordsOf(b)'
  <2>1. CASE Leaves(b)
    BY <1>1, <1>2, <2>1 DEF ItemOf, TreeOf, RecordsOf, Ended, Held, Unmarked, Logged, Delivered
  <2>2. CASE Proceeds(b)
    BY <2>2, ProceedsWork
  <2>3. QED
    BY <2>1, <2>2
<1>5. CASE doing[b] \in Held \/ ~Locked(b)
  BY <1>1, <1>3, <1>4, <1>5, OthersAway DEF WorkInv
<1>6. CASE step \notin Held /\ doing[b] \notin Held
  <2>1. Leaves(b) /\ doing[b] = "start" /\ ~Begin(b)
    BY <1>1, <1>2, <1>6, LeavesStep DEF Begin, Goto, Held, Ended
  <2>2. UNCHANGED << pos, sha, work, old, log, marker, pushed >>
    BY <2>1 DEF Leaves, Refused, Finish, InvalidId, ResolveFails, Skip, RemoveFails, DownloadFails,
         PrepareFails, Unsupported, ConvertFails, AnnotateFails, NotValidated, MarkFails, Tidy,
         Killed, AtItem, Held, trees, remote
  <2>3. ASSUME NEW c \in Invocations \ {b} PROVE ItemOf(c)' /\ TreeOf(c)' /\ RecordsOf(c)'
    <3>1. ItemOf(c) /\ TreeOf(c) /\ RecordsOf(c) /\ doing'[c] = doing[c]
      BY <1>1, <1>2 DEF WorkInv
    <3>2. ItemOf(c)'
      BY <2>2, <3>1 DEF ItemOf, Repo
    <3>3. TreeOf(c)'
      BY <2>2, <3>1 DEF TreeOf, Here, Repo, Mode, Partial, Snapshot, Original, Dataset, Tree
    <3>4. RecordsOf(c)'
      BY <2>2, <3>1 DEF RecordsOf, Here, Repo, Mode, Done, IsDelivered
    <3>5. QED
      BY <3>2, <3>3, <3>4
  <2>4. QED
    BY <1>3, <1>4, <2>3 DEF WorkInv
<1>7. QED
  BY <1>1, <1>3, <1>5, <1>6

LEMMA PureStep ==
  ASSUME IInv, NEW b \in Invocations, Leaves(b) \/ Proceeds(b)
  PROVE  PureInv'
<1> USE DEF IInv
<1>1. CASE UNCHANGED remote
  BY <1>1 DEF remote, PureInv
<1>2. CASE Push(b)
  <2>1. /\ doing[b] = "annotate" /\ Here(work, b) = Dataset(b)
        /\ Repo(b) \in Repos /\ sha[b] \in Revisions
    BY <1>2 DEF Push, WorkInv, ItemOf, TreeOf, Held
  <2>2. /\ \A r \in Repos \ {Repo(b)} : dest'[r] = dest[r]
        /\ dest'[Repo(b)].tree = Dataset(b)
    BY <1>2, <2>1 DEF Push, StoresInv
  <2>3. QED
    BY <2>1, <2>2 DEF PureInv, Dataset, Tree
<1>3. QED
  BY <1>1, <1>2, RemoteStep

LEMMA MarkerStep ==
  ASSUME IInv, NEW b \in Invocations, Leaves(b) \/ Proceeds(b)
  PROVE  MarkerHonest'
<1> USE DEF IInv
<1>1. pushed \subseteq pushed'
  BY RemoteStep
<1>2. CASE UNCHANGED marker
  BY <1>1, <1>2 DEF MarkerHonest
<1>3. CASE Mark(b)
  <2>1. Mode(b) \in Modes /\ Repo(b) \in Repos /\ IsDelivered(b)
    BY <1>3, BatchAssumption DEF Mark, WorkInv, ItemOf, RecordsOf, Held, Delivered, Mode
  <2>2. marker' = Put(marker, b, Record(b))
    BY <1>3 DEF Mark
  <2>3. ASSUME NEW m \in Modes, NEW r \in Repos, marker'[m][r] # Nothing
        PROVE  \E p \in pushed :
                 /\ p.repo = r /\ p.content.mode = m
                 /\ p.content.recipe = marker'[m][r].recipe
                 /\ p.content.tree.revs = {marker'[m][r].rev}
    <3>1. CASE m = Mode(b) /\ r = Repo(b)
      <4>1. marker'[m][r] = Record(b)
        BY <2>1, <2>2, <3>1, PutHere DEF StoresInv
      <4>2. QED
        BY <2>1, <3>1, <4>1 DEF IsDelivered, Record
    <3>2. CASE m # Mode(b) \/ r # Repo(b)
      <4>1. marker'[m][r] = marker[m][r]
        BY <2>1, <2>2, <3>2, PutHere DEF StoresInv
      <4>2. QED
        BY <1>1, <2>3, <4>1 DEF MarkerHonest
    <3>3. QED
      BY <3>1, <3>2
  <2>4. QED
    BY <1>1, <2>3 DEF MarkerHonest
<1>4. QED
  BY <1>2, <1>3, RemoteStep

(* An item that an invocation leaves without a failure is published: by     *)
(* itself, or by the run that wrote the marker.                             *)
LEMMA ItemPublished ==
  ASSUME IInv, NEW b \in Invocations, (doing[b] = "check" /\ Done(b)) \/ doing[b] = "tidy"
  PROVE  IsPublished(b, pos[b])
<1> USE DEF IInv
<1>1. Mode(b) \in Modes /\ Repo(b) \in Repos /\ sha[b] \in Revisions
  BY BatchAssumption DEF WorkInv, ItemOf, Held, Mode
<1>2. CASE doing[b] = "tidy"
  BY <1>2 DEF WorkInv, RecordsOf, Delivered, IsDelivered, IsPublished, Repo
<1>3. CASE Done(b)
  <2>1. /\ Here(marker, b) # Nothing /\ Here(marker, b).recipe = Batches[b].recipe
    BY <1>1, <1>3, NoneAssumption DEF Done
  <2>2. QED
    BY <1>1, <2>1 DEF MarkerHonest, Here, IsPublished, Repo
<1>4. QED
  BY <1>2, <1>3

LEMMA PassedStep ==
  ASSUME IInv, NEW b \in Invocations, Leaves(b) \/ Proceeds(b)
  PROVE  BehindInv' /\ OverInv'
<1> USE DEF IInv
<1>1. /\ doing \in [Invocations -> Held \cup Ended] /\ pos \in [Invocations -> Nat \ {0}]
      /\ failed \in [Invocations -> SUBSET Nat]
  BY DEF ShapeInv
<1>2. \A c \in Invocations : \A k : IsPublished(c, k) => IsPublished(c, k)'
  BY RemoteStep DEF IsPublished, Mode
<1>3. \A c \in Invocations \ {b} : doing'[c] = doing[c] /\ pos'[c] = pos[c] /\ failed'[c] = failed[c]
  BY <1>1, LeavesStep, BehindStep, ProceedsStep
<1>4. \A k \in 1 .. pos'[b] - 1 : k \in failed'[b] \/ IsPublished(b, k)'
  <2>1. CASE UNCHANGED << pos, failed >>
    BY <1>2, <2>1 DEF BehindInv
  <2>2. CASE pos' = [pos EXCEPT ![b] = @ + 1] /\ failed' = [failed EXCEPT ![b] = @ \cup {pos[b]}]
    BY <1>1, <1>2, <2>2 DEF BehindInv
  <2>3. CASE /\ pos' = [pos EXCEPT ![b] = @ + 1] /\ UNCHANGED failed
             /\ (doing[b] = "check" /\ Done(b)) \/ doing[b] = "tidy"
    BY <1>1, <1>2, <2>3, ItemPublished DEF BehindInv
  <2>4. QED
    BY <2>1, <2>2, <2>3, BehindStep, ProceedsStep
<1>5. BehindInv'
  BY <1>2, <1>3, <1>4 DEF BehindInv
<1>6. doing'[b] = "over" => pos'[b] > Len(Batches[b].list)
  <2>1. CASE Finish(b)
    BY <2>1 DEF Finish
  <2>2. CASE ~Finish(b)
    BY <1>1, <2>2 DEF Leaves, Proceeds, Begin, Refused, InvalidId, ResolveFails, Skip, RemoveFails,
         DownloadFails, PrepareFails, Unsupported, ConvertFails, AnnotateFails, NotValidated,
         MarkFails, Tidy, Killed, Resolve, Clean, Download, Downloaded, Prepare, Convert, Converted,
         Push, Annotated, Validated, Mark, Fail, Continue, Goto
  <2>3. QED
    BY <2>1, <2>2
<1>7. QED
  BY <1>3, <1>5, <1>6 DEF OverInv

LEMMA InitInv == BatchInit => IInv
<1> SUFFICES ASSUME BatchInit PROVE IInv
  OBVIOUS
<1>1. \A b \in Invocations : doing[b] = "start"
  BY DEF BatchInit
<1>2. ShapeInv
  BY <1>1, RevisionAssumption DEF BatchInit, ShapeInv, Ended
<1>3. StoresInv
  BY DEF BatchInit, StoresInv, Places, Empty
<1>4. LockInv
  BY <1>1 DEF LockInv, Held
<1>5. WorkInv
  BY <1>1 DEF WorkInv, ItemOf, TreeOf, RecordsOf, Held, Unmarked, Logged, Delivered
<1>6. PureInv /\ MarkerHonest
  BY DEF BatchInit, PureInv, MarkerHonest, Empty
<1>7. BehindInv /\ OverInv
  BY <1>1 DEF BatchInit, BehindInv, OverInv
<1>8. QED
  BY <1>2, <1>3, <1>4, <1>5, <1>6, <1>7 DEF IInv

(* What the invariant speaks of when the sources, the counters or nothing   *)
(* at all changes.                                                          *)
LEMMA QuietStep ==
  ASSUME IInv, ShapeInv',
         UNCHANGED << doing, pos, sha, failed, work, old, log, marker, dest, pushed >>
  PROVE  IInv'
<1> USE DEF IInv
<1>1. StoresInv' /\ LockInv' /\ OverInv'
  BY DEF StoresInv, LockInv, OverInv
<1>2. WorkInv'
  <2>1. ASSUME NEW b \in Invocations PROVE ItemOf(b)' /\ TreeOf(b)' /\ RecordsOf(b)'
    <3>1. ItemOf(b) /\ TreeOf(b) /\ RecordsOf(b)
      BY DEF WorkInv
    <3>2. ItemOf(b)'
      BY <3>1 DEF ItemOf, Repo
    <3>3. TreeOf(b)'
      BY <3>1 DEF TreeOf, Here, Repo, Mode, Partial, Snapshot, Original, Dataset, Tree
    <3>4. RecordsOf(b)'
      BY <3>1 DEF RecordsOf, Here, Repo, Mode, Done, IsDelivered
    <3>5. QED
      BY <3>2, <3>3, <3>4
  <2>2. QED
    BY <2>1 DEF WorkInv
<1>3. PureInv' /\ MarkerHonest'
  <2>1. PureInv'
    BY DEF PureInv
  <2>2. MarkerHonest'
    BY DEF MarkerHonest
  <2>3. QED
    BY <2>1, <2>2
<1>4. BehindInv'
  BY DEF BehindInv, IsPublished, Mode
<1>5. QED
  BY <1>1, <1>2, <1>3, <1>4

LEMMA NextInv == IInv /\ [BatchNext]_batchVars => IInv'
<1> SUFFICES ASSUME IInv, [BatchNext]_batchVars PROVE IInv'
  OBVIOUS
<1>1. ASSUME NEW b \in Invocations, Work(b) \/ Killed(b) PROVE IInv'
  <2>1. Leaves(b) \/ Proceeds(b)
    BY <1>1, Cases
  <2>2. QED
    BY <2>1, ShapeStep, StoresStep, LockStep, PureStep, MarkerStep, PassedStep DEF IInv
<1>2. CASE SourceMoves
  <2>1. ShapeInv'
    BY <1>2 DEF SourceMoves, IInv, ShapeInv
  <2>2. QED
    BY <1>2, <2>1, QuietStep DEF SourceMoves, trees, remote
<1>3. CASE UNCHANGED batchVars
  <2>1. ShapeInv'
    BY <1>3 DEF batchVars, IInv, ShapeInv
  <2>2. QED
    BY <1>3, <2>1, QuietStep DEF batchVars
<1>4. QED
  BY <1>1, <1>2, <1>3 DEF BatchNext

(* The inductive invariant holds of every reachable state. *)
LEMMA BatchInductive == BatchSpec => []IInv
BY InitInv, NextInv, PTL DEF BatchSpec

(* What a destination holds is one whole revision of its source in version  *)
(* 3, whatever earlier, killed and failed runs left in the trees.           *)
THEOREM AlwaysPure == BatchSpec => []PublishedPure
<1>1. IInv => PublishedPure
  <2> SUFFICES ASSUME IInv PROVE PublishedPure
    OBVIOUS
  <2>1. BatchTypeOK
    BY DEF IInv, ShapeInv, LockInv, BatchTypeOK, Ended
  <2>2. QED
    BY <2>1 DEF IInv, PureInv, PublishedPure
<1>2. QED
  BY <1>1, BatchInductive, PTL

(* What an invocation says of its work is so: each marker names what was    *)
(* pushed, rests on this run's own verdict, and an invocation that ends     *)
(* without a failed item has published every item of its list.              *)
THEOREM AlwaysHonest == BatchSpec => []RecordsHonest
<1>1. IInv => OwnVerdict
  BY DEF IInv, WorkInv, RecordsOf, OwnVerdict
<1>2. IInv => SuccessIsPublished
  <2> SUFFICES ASSUME IInv, NEW b \in Invocations, doing[b] = "over", failed[b] = {},
                      NEW k \in DOMAIN Batches[b].list
               PROVE  IsPublished(b, k)
    BY DEF SuccessIsPublished, IsPublished
  <2>1. k \in 1 .. pos[b] - 1
    <3>1. pos[b] > Len(Batches[b].list) /\ pos[b] \in Nat
      BY DEF IInv, OverInv, ShapeInv
    <3>2. k \in 1 .. Len(Batches[b].list) /\ Len(Batches[b].list) \in Nat
      <4>1. Batches[b].list \in Seq({Batches[b].list[i] : i \in DOMAIN Batches[b].list})
        BY BatchAssumption
      <4>2. QED
        BY <4>1, LenProperties
    <3>3. QED
      BY <3>1, <3>2
  <2>2. QED
    BY <2>1 DEF IInv, BehindInv
<1>3. IInv => RecordsHonest
  BY <1>1, <1>2 DEF IInv, RecordsHonest
<1>4. QED
  BY <1>3, BatchInductive, PTL

(* No invocation does again what is marked as done, and none touches the    *)
(* trees and markers of the other mode.                                     *)
THEOREM AlwaysKept == BatchSpec => WorkKept
<1>1. ASSUME IInv, BatchNext
      PROVE  /\ \A b \in Invocations : doing[b] = "annotate" /\ doing'[b] = "pushed" => ~Done(b)
             /\ \A b \in Invocations, m \in Modes : doing[b] # doing'[b] /\ m # Mode(b) =>
                  work'[m] = work[m] /\ old'[m] = old[m] /\ marker'[m] = marker[m]
  <2>1. \A b \in Invocations : doing[b] = "annotate" => ~Done(b)
    BY <1>1 DEF IInv, WorkInv, RecordsOf, Unmarked
  <2>2. ASSUME NEW b \in Invocations, doing[b] # doing'[b] PROVE Leaves(b) \/ Proceeds(b)
    <3>1. ~SourceMoves
      BY <2>2 DEF SourceMoves
    <3>2. PICK c \in Invocations : Work(c) \/ Killed(c)
      BY <1>1, <3>1 DEF BatchNext
    <3>3. PICK step : doing' = [doing EXCEPT ![c] = step]
      BY <1>1, <3>2, Cases, LeavesStep, ProceedsStep DEF IInv
    <3>4. b = c
      BY <1>1, <2>2, <3>3 DEF IInv, ShapeInv
    <3>5. QED
      BY <3>2, <3>4, Cases
  <2>3. QED
    BY <1>1, <2>1, <2>2, StoresStep
<1>2. IInv /\ [BatchNext]_batchVars =>
        /\ [\A b \in Invocations : doing[b] = "annotate" /\ doing'[b] = "pushed" => ~Done(b)]_batchVars
        /\ [\A b \in Invocations, m \in Modes : doing[b] # doing'[b] /\ m # Mode(b) =>
              work'[m] = work[m] /\ old'[m] = old[m] /\ marker'[m] = marker[m]]_batchVars
  BY <1>1
<1>3. QED
  BY <1>2, BatchInductive, PTL DEF BatchSpec, WorkKept, NeverRedone, OtherModeKept
=============================================================================
