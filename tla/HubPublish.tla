----------------------------- MODULE HubPublish -----------------------------
(***************************************************************************)
(* cli.py: publication of an annotated dataset to a Hub repository.        *)
(*                                                                         *)
(* A run inspects the repository before any local work, uploads the files  *)
(* and then the dataset card as two commits guarded by their parent, and   *)
(* creates or moves the version tag to the card commit.  A move keeps the  *)
(* old target under a recovery tag: backup, re-read, delete, create,       *)
(* verify, and on an error restores the old target if no tag is there.     *)
(*                                                                         *)
(* Another publisher works on the same repository.  Each call may fail,    *)
(* before or after the Hub has done what it asked.  The Hub itself         *)
(* (HfApi) is modelled from how cli.py uses it: a commit is refused when   *)
(* main is not the given parent, a tag is not created over another one.    *)
(***************************************************************************)
EXTENDS Integers, Sequences

CONSTANTS
  MaxRuns,     \* bound: runs that publish
  MaxFaults,   \* bound: failing calls
  MaxOthers    \* bound: steps of the other publisher

ASSUME ConstantsAssumption ==
  /\ MaxRuns \in Nat \ {0} /\ MaxFaults \in Nat /\ MaxOthers \in Nat

(* A commit is its position on main.  None is no commit: an empty main, a  *)
(* tag that does not exist.                                                *)
None    == 0
Version == 0                      \* the version tag
Tags    == 0 .. MaxRuns           \* the recovery tag of run n is n

VARIABLES
  repo,    \* the repository exists
  main,    \* what each commit on main is: "other", "files" or "card"
  refs,    \* the commit of every tag
  pc,      \* the next call of the run, or how it ended
  run,     \* what the run remembers
  runs,    \* runs started so far; the number of the current one
  theirs,  \* where the other publisher moved the version tag since the
           \* run first read it
  faults, others

hub    == <<repo, main, refs>>
world  == <<theirs, others>>
vars   == <<repo, main, refs, pc, run, runs, theirs, faults, others>>

HeadCommit == Len(main)
Commits    == 1 .. HeadCommit
Backup     == runs                \* _unique_backup_tag
Untouched  == -1                  \* theirs: the tag is as this run found it
Overtaken  == -2                  \* theirs: moved right before it is deleted

(* allow is --allow_version_tag_move, which every run has or has not.      *)
Blank(allow) == [allow |-> allow, exists |-> FALSE, parent |-> None,
                 expected |-> None, upload |-> None, final |-> None]

Init ==
  /\ repo \in BOOLEAN
  /\ main \in {<<>>, <<"other">>} /\ (main # <<>> => repo)
  /\ \E target \in 0 .. HeadCommit :
       refs = [t \in Tags |-> IF t = Version THEN target ELSE None]
  /\ pc = "head" /\ run \in {Blank(b) : b \in BOOLEAN} /\ runs = 1
  /\ theirs = Untouched /\ faults = 0 /\ others = 0

-----------------------------------------------------------------------------
(* What a step of the run does when its call raises. *)
MoveSteps    == {"delete", "move", "moved"}
RestoreSteps == {"restore", "recreate", "recreated"}
CleanUpSteps == {"cleanup", "cleaned"}
PlainSteps   == {"head", "tag", "create_repo", "new_head", "revalidate", "upload", "card",
                 "inspect", "create", "created", "backup", "backed_up", "reread"}
CallSteps    == PlainSteps \cup MoveSteps \cup RestoreSteps \cup CleanUpSteps
LocalSteps   == {"content", "work", "recheck"}   \* call nothing on the Hub
Ends         == {"published", "failed", "restored", "unrestored", "killed"}

OnError(step) == IF step \in MoveSteps THEN "restore"
                 ELSE IF step \in RestoreSteps THEN "unrestored"
                 ELSE IF step \in CleanUpSteps THEN "published"
                 ELSE "failed"

Raises  == pc' = OnError(pc)
Returns(next) == pc' = next

Fault   == faults < MaxFaults /\ faults' = faults + 1
NoFault == UNCHANGED faults

(* A read answers, and the run goes on or raises. *)
Read(step, answer, next) ==
  /\ pc = step
  /\ NoFault
  /\ IF answer THEN Returns(next) ELSE Raises
  /\ UNCHANGED <<hub, runs, world>>

(* A step on the local dataset, which may find nothing wrong or raise. *)
Local(step, next) ==
  /\ pc = step
  /\ Returns(next) \/ Raises
  /\ UNCHANGED <<hub, run, runs, world, faults>>

(* A call that changes the Hub: the Hub accepts and answers, accepts and   *)
(* the answer is lost, or the call fails without effect.                   *)
Write(step, accepted, change, next) ==
  /\ pc = step
  /\ \/ accepted /\ change /\ Returns(next) /\ NoFault
     \/ accepted /\ change /\ Raises /\ Fault
     \/ ~accepted /\ Raises /\ NoFault /\ UNCHANGED hub
  /\ UNCHANGED <<runs, world>>

(* A call fails without effect. *)
CallFails ==
  /\ pc \in CallSteps
  /\ Raises /\ Fault
  /\ UNCHANGED <<hub, run, runs, world>>

Commit(step, kind, parent, next) ==
  Write(step, parent \in {None, HeadCommit},
        main' = Append(main, kind) /\ UNCHANGED <<repo, refs>>, next)

CreateTag(step, tag, commit, next) ==
  /\ Write(step, refs[tag] = None,
           refs' = [refs EXCEPT ![tag] = commit] /\ UNCHANGED <<repo, main>>, next)
  /\ UNCHANGED run

DeleteTag(step, tag, next) ==
  /\ Write(step, refs[tag] # None,
           refs' = [refs EXCEPT ![tag] = None] /\ UNCHANGED <<repo, main>>, next)
  /\ UNCHANGED run

(* _find_tag_target after a change of the tag. *)
Verify(step, tag, commit, next) ==
  Read(step, refs[tag] = commit, next) /\ UNCHANGED run

-----------------------------------------------------------------------------
(* _preflight_hub_push, before any local work.  A repository that does not *)
(* exist has nothing to inspect.                                           *)
PreflightHead ==
  /\ Read("head", TRUE, IF repo THEN "tag" ELSE "content")
  /\ run' = [run EXCEPT !.exists = repo, !.parent = HeadCommit]

PreflightTag ==
  /\ pc = "tag"
  /\ IF refs[Version] = None \/ run.allow THEN Returns("content") ELSE Raises
  /\ UNCHANGED <<hub, runs, faults, others>>
  /\ run' = [run EXCEPT !.expected = refs[Version]]
  /\ theirs' = Untouched

(* The manifest and the dataset card, before the annotation and again      *)
(* after it, with the version in meta/info.json: content that may not be   *)
(* published, a missing or another license, or another version raise.      *)
CheckContent   == Local("content", "work")
LocalWork      == Local("work", "recheck")
RecheckContent == Local("recheck", "create_repo")

(* _push_to_hub, after the local work. *)
CreateRepo ==
  /\ Write("create_repo", TRUE, repo' = TRUE /\ UNCHANGED <<main, refs>>,
           IF run.exists THEN "revalidate" ELSE "new_head")
  /\ UNCHANGED run

NewHead ==
  /\ Read("new_head", TRUE, "revalidate")
  /\ run' = [run EXCEPT !.parent = HeadCommit]

Revalidate ==
  Read("revalidate", refs[Version] = run.expected, "upload") /\ UNCHANGED run

Upload ==
  /\ Commit("upload", "files", run.parent, "card")
  /\ run' = IF pc' = "card" THEN [run EXCEPT !.upload = Len(main')] ELSE run

PublishCard ==
  /\ Commit("card", "card", run.upload, "inspect")
  /\ run' = IF pc' = "inspect" THEN [run EXCEPT !.final = Len(main')] ELSE run

(* _publish_required_version_tag. *)
Inspect ==
  /\ Read("inspect", \/ refs[Version] = run.final
                     \/ refs[Version] = run.expected /\ (run.expected = None \/ run.allow),
          IF refs[Version] = run.final THEN "published"
          ELSE IF run.expected = None THEN "create" ELSE "backup")
  /\ UNCHANGED run

(* The version tag is put on the commit of the files.                      *)
BugTagUpload == CreateTag("create", Version, run.upload, "published")

Create      == CreateTag("create", Version, run.final, "created")
VerifyTag   == Verify("created", Version, run.final, "published")

(* The old target gets no recovery tag, or the tag is not read again.      *)
BugNoBackup  == Read("backup", TRUE, "reread") /\ UNCHANGED run
BugNoReread  == Read("reread", TRUE, "delete") /\ UNCHANGED run

(* _move_version_tag_with_backup. *)
SecureBackup == CreateTag("backup", Backup, run.expected, "backed_up")
VerifyBackup == Verify("backed_up", Backup, run.expected, "reread")
Reread       == Verify("reread", Version, run.expected, "delete")
Delete       == DeleteTag("delete", Version, "move")
Move         == CreateTag("move", Version, run.final, "moved")
VerifyMove   == Verify("moved", Version, run.final, "cleanup")

(* _restore_version_tag_if_absent. *)
Restore ==
  /\ Read("restore", refs[Version] \in {None, run.expected},
          IF refs[Version] = None THEN "recreate" ELSE "restored")
  /\ UNCHANGED run
Recreate        == CreateTag("recreate", Version, run.expected, "recreated")
VerifyRecreated == Verify("recreated", Version, run.expected, "restored")

(* _cleanup_backup_tag: best effort. *)
CleanUp       == DeleteTag("cleanup", Backup, "cleaned")
VerifyCleanUp == Verify("cleaned", Backup, None, "published")

(* The process dies between two calls. *)
Kill ==
  /\ pc \notin Ends
  /\ pc' = "killed" /\ Fault
  /\ UNCHANGED <<hub, run, runs, world>>

(* Somebody publishes again. *)
StartRun ==
  /\ pc \in Ends /\ runs < MaxRuns
  /\ pc' = "head" /\ runs' = runs + 1
  /\ run' \in {Blank(b) : b \in BOOLEAN} /\ theirs' = Untouched
  /\ UNCHANGED <<hub, faults, others>>

-----------------------------------------------------------------------------
(* The other publisher: another program, another machine. *)
Other ==
  /\ repo /\ others < MaxOthers
  /\ others' = others + 1
  /\ UNCHANGED <<repo, pc, run, runs, faults>>

OtherCommits ==
  /\ Other
  /\ main' = Append(main, "other")
  /\ UNCHANGED <<refs, theirs>>

OtherTags(target) ==
  /\ Other
  /\ (target = None) # (refs[Version] = None)
  /\ refs' = [refs EXCEPT ![Version] = target]
  /\ theirs' = IF pc = "delete" THEN Overtaken ELSE target
  /\ UNCHANGED main

OtherCreatesRepo ==
  /\ ~repo /\ others < MaxOthers
  /\ others' = others + 1 /\ repo' = TRUE
  /\ UNCHANGED <<main, refs, pc, run, runs, theirs, faults>>

-----------------------------------------------------------------------------
Next ==
  \/ PreflightHead \/ PreflightTag \/ CheckContent \/ LocalWork \/ RecheckContent
  \/ CreateRepo \/ NewHead \/ Revalidate \/ Upload \/ PublishCard
  \/ Inspect \/ Create \/ VerifyTag
  \/ SecureBackup \/ VerifyBackup \/ Reread \/ Delete \/ Move \/ VerifyMove
  \/ Restore \/ Recreate \/ VerifyRecreated \/ CleanUp \/ VerifyCleanUp
  \/ CallFails \/ Kill \/ StartRun
  \/ OtherCommits \/ OtherCreatesRepo
  \/ \E target \in {None} \cup {c \in Commits : main[c] # "files"} : OtherTags(target)

Spec == Init /\ [][Next]_vars

-----------------------------------------------------------------------------
(* Properties. *)

(* Types of the state. *)
TypeOK ==
  /\ repo \in BOOLEAN
  /\ main \in Seq({"other", "files", "card"})
  /\ refs \in [Tags -> 0 .. HeadCommit]
  /\ pc \in CallSteps \cup LocalSteps \cup Ends
  /\ run \in [allow : BOOLEAN, exists : BOOLEAN, parent : 0 .. HeadCommit,
              expected : 0 .. HeadCommit, upload : 0 .. HeadCommit, final : 0 .. HeadCommit]
  /\ runs \in 1 .. MaxRuns
  /\ theirs \in Overtaken .. HeadCommit
  /\ faults \in 0 .. MaxFaults /\ others \in 0 .. MaxOthers

(* "The tagged revision contains the generated README": a version tag that *)
(* is ours names the card commit of a publication, right on its files      *)
(* (cli.py 298-360), whatever others commit, and tag, in between.          *)
TaggedIsComplete ==
  /\ TypeOK
  /\ LET tagged == refs[Version] IN
       tagged # None /\ main[tagged] # "other" =>
         main[tagged] = "card" /\ main[tagged - 1] = "files"

(* "Failed moves are rolled back without overwriting a concurrent          *)
(* publisher": when a run has failed, a version tag the other publisher    *)
(* moved elsewhere while it ran is where they left it.  One they moved     *)
(* between the last read of the tag and its deletion is not: the tag is    *)
(* deleted by its name.                                                    *)
OthersKept ==
  /\ pc \in {"failed", "restored", "unrestored"}
  /\ theirs \in Commits \ {run.expected}
  => refs[Version] = theirs

(* One failing call does not cost the repository its version tag.          *)
SingleFaultKeepsTag ==
  /\ pc \in {"published", "failed", "restored", "unrestored"}
  /\ runs = 1 /\ faults <= 1 /\ theirs = Untouched
  /\ run.expected # None
  => refs[Version] \in {run.expected, run.final}

(* A publication without a fault leaves no recovery tag behind.            *)
NoStrayBackup ==
  pc = "published" /\ runs = 1 /\ faults = 0 => refs[Backup] = None

(* How a run leaves the tags: those of others as they made them, the       *)
(* version tag in place after one failing call, and no recovery tag after  *)
(* a publication without a fault (cli.py 560-687).                         *)
EndsClean == OthersKept /\ SingleFaultKeepsTag /\ NoStrayBackup

(* A release that has a tag keeps one through every step of a run, faults  *)
(* and kills included, until the new version tag has been verified.        *)
Tagged(c) == \E t \in Tags : refs[t] = c

ReleaseKept ==
  \A c \in Commits : Tagged(c) /\ ~Tagged(c)' /\ UNCHANGED others =>
    \/ pc = "cleanup" /\ c = run.expected
    \/ pc = "delete" /\ theirs = Overtaken

(* Without the opt-in no run removes a tag, whatever the other publisher   *)
(* and the failing calls do.                                               *)
NothingRemoved ==
  ~run.allow /\ UNCHANGED others =>
    \A t \in Tags : refs[t] # None => refs'[t] = refs[t]

(* What a step of a run may take away: never the last tag of a release,    *)
(* and no tag at all without the opt-in (cli.py 470-684).                  *)
TagsSafe == [][ReleaseKept /\ NothingRemoved]_vars
=============================================================================
