---------------------------- MODULE BatchRunner ----------------------------
(***************************************************************************)
(* scripts/run_generate_batch.sh and scripts/run_import_batch.sh: a list of  *)
(* source datasets is downloaded, converted, annotated and pushed, one after *)
(* the other, and a completion marker is left for each.                      *)
(*                                                                           *)
(* Several invocations of the two scripts share one WORK_ROOT, any of them   *)
(* may be killed at any point, and the revision that a source's branch names *)
(* may move meanwhile.                                                       *)
(***************************************************************************)
EXTENDS Integers, Sequences, FiniteSets

CONSTANTS
  Batches,     \* the invocations: records mode, recipe, keep, list
  Repos,       \* source repositories with a valid ID
  Revisions,   \* 1 .. n: revisions of a source, the later ones newer
  VersionOf,   \* VersionOf[rev]: the codebase_version of a revision
  MaxMoves,    \* bound: how often a source's branch moves
  MaxFails,    \* bound: commands that fail
  Nothing      \* no revision, tree, verdict or marker

Modes == {"generate", "import"}

Invocations == DOMAIN Batches

(* A list has any items, not only the IDs of repositories.                  *)
ASSUME BatchAssumption ==
  \A b \in Invocations :
    /\ Batches[b].mode \in Modes /\ Batches[b].keep \in BOOLEAN
    /\ Batches[b].list \in Seq({Batches[b].list[i] : i \in DOMAIN Batches[b].list})

ASSUME RevisionAssumption == Revisions \subseteq Nat /\ 1 \in Revisions

(* No marker that could be written is the absence of one.                   *)
ASSUME NoneAssumption ==
  \A v \in Revisions, b \in Invocations :
    Nothing # [rev |-> v, recipe |-> Batches[b].recipe]

VARIABLES
  doing,    \* what each invocation does next
  pos,      \* its item of the list
  sha,      \* SHA: the revision it resolved
  failed,   \* FAILED: the items that failed
  source,   \* the revision that SOURCE_REVISION names, per source
  work,     \* WORK: the tree of a mode and a source: its revisions, whether the
            \* download is partial, whole, or rid of its .cache, and its version
  old,      \* ${WORK}_old: what a conversion put aside
  log,      \* the invocation whose "errors=0" is the log's last verdict
  marker,   \* DONE
  dest,     \* what the destination of a source holds
  pushed,   \* history: the contents that were pushed, and by whom
  moves, fails

batchVars == << doing, pos, sha, failed, source, work, old, log, marker, dest, pushed, moves, fails >>
trees == << work, old >>
remote == << dest, pushed >>
counters == << moves, fails >>

Held == {"item", "check", "download", "fetch", "prepare", "convert", "aside",
         "annotate", "pushed", "ran", "mark", "tidy"}

Mode(b) == Batches[b].mode
Repo(b) == Batches[b].list[pos[b]]
Goto(b, step) == doing' = [doing EXCEPT ![b] = step]

(* The item is tried again.                                                 *)
BugStays(b) == Goto(b, "item") /\ UNCHANGED pos

(* "continue": on to the next line of the list.                             *)
Continue(b) == Goto(b, "item") /\ pos' = [pos EXCEPT ![b] = @ + 1]

Fail(b) == Continue(b) /\ failed' = [failed EXCEPT ![b] = @ \cup {pos[b]}]

(* A command returns a status that is not zero.                             *)
Breaks == fails < MaxFails /\ fails' = fails + 1 /\ UNCHANGED moves

Here(f, b) == f[Mode(b)][Repo(b)]
(* The two modes share their paths.                                         *)
BugOneTree(f, b, value) == [m \in Modes |-> [f[m] EXCEPT ![Repo(b)] = value]]

Put(f, b, value) == [f EXCEPT ![Mode(b)][Repo(b)] = value]

Empty == [m \in Modes |-> [r \in Repos |-> Nothing]]

BatchInit ==
  /\ doing = [b \in Invocations |-> "start"]
  /\ pos = [b \in Invocations |-> 1]
  /\ sha = [b \in Invocations |-> Nothing]
  /\ failed = [b \in Invocations |-> {}]
  /\ source = [r \in Repos |-> 1]
  /\ work = Empty /\ old = Empty /\ log = Empty /\ marker = Empty
  /\ dest = [r \in Repos |-> Nothing]
  /\ pushed = {} /\ moves = 0 /\ fails = 0

-----------------------------------------------------------------------------
(* flock -n on WORK_ROOT: the kernel drops the lock of a process that ends.  *)
Locked(b) == \E c \in Invocations \ {b} : doing[c] \in Held

Begin(b) ==
  /\ doing[b] = "start" /\ ~Locked(b)
  /\ Goto(b, "item")
  /\ UNCHANGED << pos, sha, failed, source, log, marker >>
  /\ UNCHANGED << trees, remote, counters >>

Refused(b) ==
  /\ doing[b] = "start" /\ Locked(b)
  /\ Goto(b, "refused")
  /\ UNCHANGED << pos, sha, failed, source, log, marker >>
  /\ UNCHANGED << trees, remote, counters >>

(* The list is at its end; the status says whether anything failed.         *)
Finish(b) ==
  /\ doing[b] = "item" /\ pos[b] > Len(Batches[b].list)
  /\ Goto(b, "over")
  /\ UNCHANGED << pos, sha, failed, source, log, marker >>
  /\ UNCHANGED << trees, remote, counters >>

AtItem(b) == doing[b] = "item" /\ pos[b] <= Len(Batches[b].list)

(* valid_repo_id.                                                           *)
InvalidId(b) ==
  /\ AtItem(b) /\ Repo(b) \notin Repos
  /\ Fail(b)
  /\ UNCHANGED << sha, source, log, marker >> /\ UNCHANGED << trees, remote, counters >>

(* resolve_revision: the branch is read once.                               *)
Resolve(b) ==
  /\ AtItem(b) /\ Repo(b) \in Repos
  /\ sha' = [sha EXCEPT ![b] = source[Repo(b)]]
  /\ Goto(b, "check")
  /\ UNCHANGED << pos, failed, source, log, marker >>
  /\ UNCHANGED << trees, remote, counters >>

ResolveFails(b) ==
  /\ AtItem(b) /\ Repo(b) \in Repos /\ Breaks /\ Fail(b)
  /\ UNCHANGED << sha, source, log, marker >> /\ UNCHANGED << trees, remote >>

(* The marker names this source, revision, destination, mode and recipe.    *)
Done(b) == Here(marker, b) = [rev |-> sha[b], recipe |-> Batches[b].recipe]

Skip(b) ==
  /\ doing[b] = "check" /\ Done(b)
  /\ Continue(b)
  /\ UNCHANGED << sha, failed, source, log, marker >>
  /\ UNCHANGED << trees, remote, counters >>

(* What an earlier run left is downloaded into.                             *)
BugKeepsTree(b) ==
  /\ doing[b] = "check" /\ ~Done(b)
  /\ old' = Put(old, b, Nothing)
  /\ Goto(b, "download")
  /\ UNCHANGED << pos, sha, failed, source, log, marker, work >>
  /\ UNCHANGED << remote, counters >>

(* safe_remove_tree of the tree and of what a conversion puts beside it; the *)
(* import has no conversion.                                                *)
Clean(b) ==
  /\ doing[b] = "check" /\ ~Done(b)
  /\ work' = Put(work, b, Nothing)
  /\ old' = IF Mode(b) = "generate" THEN Put(old, b, Nothing) ELSE old
  /\ Goto(b, "download")
  /\ UNCHANGED << pos, sha, failed, source, log, marker >>
  /\ UNCHANGED << remote, counters >>

(* "safe_remove_tree ... || exit 2".                                        *)
RemoveFails(b) ==
  /\ \/ doing[b] \in {"prepare", "aside"}
     \/ doing[b] = "check" /\ ~Done(b)
     \/ doing[b] = "tidy" /\ ~Batches[b].keep
  /\ Breaks
  /\ Goto(b, "aborted")
  /\ UNCHANGED << pos, sha, failed, source, log, marker >>
  /\ UNCHANGED << trees, remote >>

-----------------------------------------------------------------------------
(* The download adds to what the tree holds.                                *)
Revs(tree) == IF tree = Nothing THEN {} ELSE tree.revs

Download(b) ==
  /\ doing[b] = "download"
  /\ work' = Put(work, b, [revs |-> Revs(Here(work, b)) \cup {sha[b]},
                           state |-> "partial", version |-> VersionOf[sha[b]]])
  /\ Goto(b, "fetch")
  /\ UNCHANGED << pos, sha, failed, source, log, marker, old >>
  /\ UNCHANGED << remote, counters >>

Downloaded(b) ==
  /\ doing[b] = "fetch"
  /\ work' = Put(work, b, [Here(work, b) EXCEPT !.state = "whole"])
  /\ Goto(b, "prepare")
  /\ UNCHANGED << pos, sha, failed, source, log, marker, old >>
  /\ UNCHANGED << remote, counters >>

(* It fails, or the snapshot is no dataset: the tree is removed.            *)
DownloadFails(b) ==
  /\ doing[b] \in {"fetch", "prepare"} /\ Breaks /\ Fail(b)
  /\ work' = Put(work, b, Nothing)
  /\ UNCHANGED << sha, source, log, marker, old >> /\ UNCHANGED remote

(* ": > LOG", which a generating run does at once and an importing one once  *)
(* it knows the version.                                                    *)
Truncated(b) == Put(log, b, Nothing)

(* .cache goes; then the version decides.                                   *)
Prepare(b) ==
  /\ doing[b] = "prepare" /\ VersionOf[sha[b]] \in {"v3", IF Mode(b) = "generate" THEN "v2.1" ELSE "v3"}
  /\ work' = Put(work, b, [Here(work, b) EXCEPT !.state = "clean"])
  /\ log' = Truncated(b)
  /\ Goto(b, IF Here(work, b).version = "v3" THEN "annotate" ELSE "convert")
  /\ UNCHANGED << pos, sha, failed, source, marker, old >>
  /\ UNCHANGED << remote, counters >>

(* The tree of a version that is not supported stays.                       *)
Unsupported(b) ==
  /\ doing[b] = "prepare" /\ VersionOf[sha[b]] \notin {"v3", IF Mode(b) = "generate" THEN "v2.1" ELSE "v3"}
  /\ work' = Put(work, b, [Here(work, b) EXCEPT !.state = "clean"])
  /\ log' = IF Mode(b) = "generate" THEN Truncated(b) ELSE log
  /\ Fail(b)
  /\ UNCHANGED << sha, source, marker, old >> /\ UNCHANGED << remote, counters >>

(* The log cannot be made, or info.json not be read.                        *)
PrepareFails(b) ==
  /\ doing[b] = "prepare" /\ Breaks /\ Fail(b)
  /\ work' = Put(work, b, [Here(work, b) EXCEPT !.state = "clean"])
  /\ UNCHANGED << sha, source, log, marker, old >> /\ UNCHANGED remote

(* The converter of lerobot: the tree is put aside and a new one takes its   *)
(* place.  If something is aside already, that is what is converted.        *)
Convert(b) ==
  /\ doing[b] = "convert"
  /\ LET from == IF Here(old, b) = Nothing THEN Here(work, b) ELSE Here(old, b)
     IN  /\ work' = Put(work, b, [from EXCEPT !.version = "v3"])
         /\ old' = Put(old, b, from)
  /\ Goto(b, "aside")
  /\ UNCHANGED << pos, sha, failed, source, log, marker >>
  /\ UNCHANGED << remote, counters >>

(* It fails, before or after it put the tree aside; both stay.              *)
ConvertFails(b) ==
  /\ doing[b] = "convert" /\ Breaks /\ Fail(b)
  /\ \E moved \in BOOLEAN :
       old' = IF moved /\ Here(old, b) = Nothing THEN Put(old, b, Here(work, b)) ELSE old
  /\ UNCHANGED << sha, source, log, marker, work >> /\ UNCHANGED remote

Converted(b) ==
  /\ doing[b] = "aside"
  /\ old' = Put(old, b, Nothing)
  /\ Goto(b, "annotate")
  /\ UNCHANGED << pos, sha, failed, source, log, marker, work >>
  /\ UNCHANGED << remote, counters >>

-----------------------------------------------------------------------------
(* lerobot-align annotates the tree in place, validates it and pushes it; it *)
(* logs a verdict with errors=0, one with errors, or none.                  *)
Push(b) ==
  /\ doing[b] = "annotate"
  /\ LET content == [tree |-> Here(work, b), mode |-> Mode(b),
                     recipe |-> Batches[b].recipe]
     IN  /\ dest' = [dest EXCEPT ![Repo(b)] = content]
         /\ pushed' = pushed \cup {[repo |-> Repo(b), content |-> content]}
  /\ \E verdict \in {b, Nothing, Here(log, b)} : log' = Put(log, b, verdict)
  /\ Goto(b, "pushed")
  /\ UNCHANGED << pos, sha, failed, source, marker >> /\ UNCHANGED << trees, counters >>

(* It exits with an error, before the push or after it.                     *)
AnnotateFails(b) ==
  /\ doing[b] \in {"annotate", "pushed"} /\ Breaks /\ Fail(b)
  /\ UNCHANGED << sha, source, log, marker >> /\ UNCHANGED << trees, remote >>

Annotated(b) ==
  /\ doing[b] = "pushed"
  /\ Goto(b, "ran")
  /\ UNCHANGED << pos, sha, failed, source, log, marker >>
  /\ UNCHANGED << trees, remote, counters >>

(* VLINE, the last line of the validator in the log, must say errors=0.     *)
Validated(b) ==
  /\ doing[b] = "ran" /\ Here(log, b) # Nothing
  /\ Goto(b, "mark")
  /\ UNCHANGED << pos, sha, failed, source, log, marker >>
  /\ UNCHANGED << trees, remote, counters >>

NotValidated(b) ==
  /\ doing[b] = "ran" /\ Here(log, b) = Nothing
  /\ Fail(b)
  /\ UNCHANGED << sha, source, log, marker >> /\ UNCHANGED << trees, remote, counters >>

(* The marker names the branch's revision of now.                           *)
BugResolvesAgain(b) == [rev |-> source[Repo(b)], recipe |-> Batches[b].recipe]

Record(b) == [rev |-> sha[b], recipe |-> Batches[b].recipe]

(* mktemp, printf, mv: the marker is whole or not there.                    *)
Mark(b) ==
  /\ doing[b] = "mark"
  /\ marker' = Put(marker, b, Record(b))
  /\ Goto(b, "tidy")
  /\ UNCHANGED << pos, sha, failed, source, log >>
  /\ UNCHANGED << trees, remote, counters >>

MarkFails(b) ==
  /\ doing[b] = "mark" /\ Breaks /\ Fail(b)
  /\ UNCHANGED << sha, source, log, marker >> /\ UNCHANGED << trees, remote >>

(* KEEP_WORK.                                                               *)
Tidy(b) ==
  /\ doing[b] = "tidy"
  /\ work' = IF Batches[b].keep THEN work ELSE Put(work, b, Nothing)
  /\ Continue(b)
  /\ UNCHANGED << sha, failed, source, log, marker, old >>
  /\ UNCHANGED << remote, counters >>

-----------------------------------------------------------------------------
Killed(b) ==
  /\ doing[b] \in Held
  /\ Goto(b, "killed")
  /\ UNCHANGED << pos, sha, failed, source, log, marker >>
  /\ UNCHANGED << trees, remote, counters >>

(* Somebody pushes to the source.                                           *)
SourceMoves ==
  /\ moves < MaxMoves /\ moves' = moves + 1
  /\ \E r \in Repos, v \in Revisions :
       v > source[r] /\ source' = [source EXCEPT ![r] = v]
  /\ UNCHANGED << doing, pos, sha, failed, log, marker, fails >>
  /\ UNCHANGED << trees, remote >>

Work(b) ==
  \/ Begin(b) \/ Refused(b) \/ Finish(b) \/ InvalidId(b) \/ Resolve(b)
  \/ ResolveFails(b) \/ Skip(b) \/ Clean(b) \/ RemoveFails(b)
  \/ Download(b) \/ Downloaded(b) \/ DownloadFails(b) \/ Prepare(b)
  \/ PrepareFails(b) \/ Unsupported(b) \/ Convert(b) \/ ConvertFails(b) \/ Converted(b)
  \/ Push(b) \/ AnnotateFails(b) \/ Annotated(b) \/ Validated(b)
  \/ NotValidated(b) \/ Mark(b) \/ MarkFails(b) \/ Tidy(b)

BatchNext == SourceMoves \/ \E b \in Invocations : Work(b) \/ Killed(b)

BatchSpec == BatchInit /\ [][BatchNext]_batchVars

(* A script that was started goes on.                                       *)
BatchFairSpec == BatchSpec /\ \A b \in Invocations : WF_batchVars(Work(b))

-----------------------------------------------------------------------------
(* Properties.                                                              *)

(* Types, and an item is only worked on by one invocation at a time.        *)
BatchTypeOK ==
  /\ doing \in [Invocations -> Held \cup {"start", "refused", "over", "aborted", "killed"}]
  /\ \A b, c \in Invocations : doing[b] \in Held /\ doing[c] \in Held => b = c
  /\ sha \in [Invocations -> Revisions \cup {Nothing}]
  /\ \A b \in Invocations : failed[b] \subseteq 1 .. pos[b] - 1

(* The destination holds one whole revision of the source, in version 3,     *)
(* and nothing of earlier, killed or failed runs or of the download's cache.*)
PublishedPure ==
  /\ BatchTypeOK
  /\ \A r \in Repos : dest[r] # Nothing =>
       /\ dest[r].tree.state = "clean" /\ dest[r].tree.version = "v3"
       /\ \E v \in Revisions : dest[r].tree.revs = {v}

(* The marker is what a later run trusts: the revision and the recipe it     *)
(* names were pushed by a run of its mode.                                   *)
MarkerHonest ==
  \A m \in Modes, r \in Repos : marker[m][r] # Nothing =>
    \E p \in pushed :
      /\ p.repo = r /\ p.content.mode = m
      /\ p.content.recipe = marker[m][r].recipe
      /\ p.content.tree.revs = {marker[m][r].rev}

(* "done in ... validator output missing": a marker is written for a run     *)
(* whose own validator reported, not for what an earlier run logged.        *)
OwnVerdict ==
  \A b \in Invocations : doing[b] = "mark" => Here(log, b) = b

(* Status 0: each item of the list is published with this recipe, at a       *)
(* revision that its source had.                                            *)
SuccessIsPublished ==
  \A b \in Invocations : doing[b] = "over" /\ failed[b] = {} =>
    \A k \in DOMAIN Batches[b].list :
      \E p \in pushed :
        /\ p.repo = Batches[b].list[k] /\ p.content.mode = Mode(b)
        /\ p.content.recipe = Batches[b].recipe

(* What an invocation says of its work is so: each marker, the verdict it    *)
(* rests on, and the status at its end (run_one of both batch scripts).      *)
RecordsHonest == MarkerHonest /\ OwnVerdict /\ SuccessIsPublished

(* What is completed is not annotated again: between the look at the marker  *)
(* and the push nobody completes the same revision with the same recipe.    *)
NeverRedone ==
  [][\A b \in Invocations : doing[b] = "annotate" /\ doing'[b] = "pushed" => ~Done(b)]_batchVars

(* "must never make one another look complete or delete one another's local  *)
(* worktree": an invocation changes the trees and markers of its mode only.  *)
OtherModeKept ==
  [][\A b \in Invocations, m \in Modes : doing[b] # doing'[b] /\ m # Mode(b) =>
       work'[m] = work[m] /\ old'[m] = old[m] /\ marker'[m] = marker[m]]_batchVars

(* Batches of two modes over the same items leave each other's work alone,   *)
(* and none does again what is done.                                        *)
WorkKept == NeverRedone /\ OtherModeKept

(* Every invocation comes to the end of its list, or is refused or stopped.  *)
BatchEnds ==
  \A b \in Invocations : <>(doing[b] \in {"over", "refused", "aborted", "killed"})
=============================================================================
