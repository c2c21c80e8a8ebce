------------------------- MODULE AnnotationPipeline -------------------------
(***************************************************************************)
(* executor.py with staging.py, validator.py and writer.py: the annotation *)
(* runs over a dataset.                                                    *)
(*                                                                         *)
(* A run holds the lock of its dataset.  Each phase runs one module on     *)
(* every selected episode, in a thread pool, and the module replaces the   *)
(* episode's staging file; a disabled module's file is emptied.  The       *)
(* staging tree outlives the run.  Then the tree is validated, incomplete  *)
(* episodes are set aside, and the shards of the selected episodes are     *)
(* rewritten from the tree in one transaction (DatasetTransaction shows    *)
(* that it happens entirely or not at all, so it is one step here).        *)
(*                                                                         *)
(* The rows of an episode are reduced to where they are: the boundaries    *)
(* with a subtask, plan, memory or interjection row, whether the initial   *)
(* speech was said, whether there is a VQA pair.  What the model behind a  *)
(* module answers is a free choice.  task_aug rows are left out: to the    *)
(* validator they are one more output that may be missing.                 *)
(***************************************************************************)
EXTENDS Integers, FiniteSets

CONSTANTS
  Datasets,       \* dataset roots, one lock each
  Episodes,       \* episode numbers, the same in every dataset
  ShardOf,        \* the parquet shard of each episode
  LastBoundary,   \* subtask boundaries of an episode are 0 .. LastBoundary
  Requests,       \* bound: the selected episodes and enabled modules of a run
  Parallel,       \* episode_parallelism > 1
  EmitPlan,       \* --plan.emit_plan
  SkipValidation, \* --skip_validation
  LimitPercent,   \* max_incomplete_episode_fraction
  SharedStaging,  \* every dataset is given the same --staging_dir
  MaxRuns,        \* bound: runs of each dataset
  MaxFaults       \* bound: modules that raise, kills, rewrites that fail

Modules == {"plan", "interjections", "vqa"}

ASSUME ConstantsAssumption ==
  /\ Datasets \subseteq Nat \ {0} /\ Episodes \subseteq Nat /\ Episodes # {}
  /\ ShardOf \in [Episodes -> Nat]
  /\ LastBoundary \in Nat /\ LimitPercent \in 0 .. 100
  /\ Requests \subseteq [selected : SUBSET Episodes \ {{}}, modules : SUBSET Modules]
  /\ {Parallel, EmitPlan, SkipValidation, SharedStaging} \subseteq BOOLEAN
  /\ MaxRuns \in Nat /\ MaxFaults \in Nat

Shards     == {ShardOf[e] : e \in Episodes}
Boundaries == 0 .. LastBoundary
Steps      == Modules \cup {"plan_update", "idle", "validate", "rewrite"}

(* The run that staged a row.  Nobody: the file is not there.              *)
Stamps == [root : Datasets \cup {0}, run : 0 .. MaxRuns, modules : SUBSET Modules]
Nobody == [root |-> 0, run |-> 0, modules |-> {}]

(* The staged rows of an episode, by module. *)
Rows ==
  [plan : [by : Stamps, subtasks : SUBSET Boundaries, plans : SUBSET Boundaries,
           memories : SUBSET Boundaries],
   interjections : [by : Stamps, times : SUBSET Boundaries, speech : BOOLEAN],
   vqa : [by : Stamps, pair : BOOLEAN]]

NoRows(by) ==
  [plan |-> [by |-> by, subtasks |-> {}, plans |-> {}, memories |-> {}],
   interjections |-> [by |-> by, times |-> {}, speech |-> FALSE],
   vqa |-> [by |-> by, pair |-> FALSE]]

VARIABLES
  staging,    \* rows by staging tree, episode and module
  published,  \* rows in the shards, by dataset, episode and module
  canonical,  \* shards of each dataset that have the language columns
  info,       \* meta/info.json of each dataset declares them
  pc,         \* phase of the run that holds each dataset's lock
  run,        \* its number, options and outcome so far
  waiting,    \* episodes its phase has not finished
  faults

vars == <<staging, published, canonical, info, pc, run, waiting, faults>>

Tree(d)      == IF SharedStaging THEN 0 ELSE d
Staged(d, e) == staging[Tree(d)][e]
Stamp(d)     == [root |-> d, run |-> run[d].number, modules |-> run[d].modules]

Init ==
  /\ staging = [t \in {Tree(d) : d \in Datasets} |-> [e \in Episodes |-> NoRows(Nobody)]]
  /\ published = [d \in Datasets |-> [e \in Episodes |-> NoRows(Nobody)]]
  /\ canonical = [d \in Datasets |-> {}]
  /\ info = [d \in Datasets |-> FALSE]
  /\ pc = [d \in Datasets |-> "idle"]
  /\ run = [d \in Datasets |-> [number |-> 0, selected |-> {}, modules |-> {},
                                skipped |-> {}, failed |-> FALSE]]
  /\ waiting = [d \in Datasets |-> {}]
  /\ faults = 0

-----------------------------------------------------------------------------
(* What a module stages for an episode. *)

Later(subtasks) == {t \in subtasks : \E s \in subtasks : s < t}

(* Subtask spans are stitched to cover the episode from its first frame.   *)
(* There is a plan row at every boundary, and a memory row at every later  *)
(* one for which the model gave an answer.                                 *)
PlanRows(by) ==
  {[by |-> by, subtasks |-> s, plans |-> IF EmitPlan THEN s ELSE {}, memories |-> k] :
     s \in {s \in SUBSET Boundaries : s # {} => 0 \in s}, k \in SUBSET Boundaries}

(* Interjections are anchored at the later boundaries staged by the plan   *)
(* module, each with a speech atom of its own.                             *)
InterjectionRows(by, subtasks) ==
  {[by |-> by, times |-> t, speech |-> s] : t \in SUBSET Later(subtasks), s \in BOOLEAN}

(* What an enabled module may stage. *)
Answers(d, e, m) ==
  CASE m = "plan" -> {r \in PlanRows(Stamp(d)) : r.memories \subseteq Later(r.subtasks)}
    [] m = "interjections" -> InterjectionRows(Stamp(d), Staged(d, e).plan.subtasks)
    [] m = "vqa" -> {[by |-> Stamp(d), pair |-> p] : p \in BOOLEAN}

(* Mistakes in a definition are named Bug...; no action uses one.          *)
(* A disabled module's file is left as an earlier run staged it.           *)
BugKeepsDisabled(d, e, m) ==
  IF m \notin run[d].modules THEN {Staged(d, e)[m]} ELSE Answers(d, e, m)

(* What the phase of module m may leave in the staging file of episode e.  *)
Outputs(d, e, m) ==
  IF m \notin run[d].modules THEN {NoRows(Stamp(d))[m]} ELSE Answers(d, e, m)

(* run_plan_updates: a plan row at every interjection time that has none,  *)
(* if some subtask is still to do then.                                    *)
UpdatedPlan(rows) ==
  LET planned(t) == \E s \in rows.plan.subtasks : s >= t
  IN  IF EmitPlan
      THEN [rows.plan EXCEPT !.plans = @ \cup {t \in rows.interjections.times : planned(t)}]
      ELSE rows.plan

-----------------------------------------------------------------------------
(* The validator. *)

(* Of the plan module only the subtasks are counted. *)
BugSparseMemory(rows, modules) ==
  \/ "plan" \in modules /\ rows.plan.subtasks = {}
  \/ /\ "interjections" \in modules
     /\ ~rows.interjections.speech /\ rows.interjections.times = {}
  \/ "vqa" \in modules /\ ~rows.vqa.pair

(* Output an enabled module owes the episode and did not stage. *)
Incomplete(rows, modules) ==
  \/ /\ "plan" \in modules
     /\ \/ rows.plan.subtasks = {}
        \/ ~(Later(rows.plan.subtasks) \subseteq rows.plan.memories)
        \/ EmitPlan /\ ~(rows.plan.subtasks \subseteq rows.plan.plans)
        \/ /\ EmitPlan /\ "interjections" \in modules
           /\ ~(rows.interjections.times \subseteq rows.plan.plans)
  \/ /\ "interjections" \in modules
     /\ ~rows.interjections.speech /\ rows.interjections.times = {}
  \/ "vqa" \in modules /\ ~rows.vqa.pair

(* The structural check that the modules do not pass by construction. *)
Inconsistent(rows) == ~(rows.interjections.times \subseteq rows.plan.plans)

Skipped(d) == {e \in run[d].selected : Incomplete(Staged(d, e), run[d].modules)}

Refused(d) ==
  \/ Skipped(d) = run[d].selected
  \/ 100 * Cardinality(Skipped(d)) > LimitPercent * Cardinality(run[d].selected)
  \/ /\ ~SkipValidation
     /\ \E e \in run[d].selected \ Skipped(d) : Inconsistent(Staged(d, e))

-----------------------------------------------------------------------------
(* The steps of a run. *)

(* Every shard that is not canonical yet is rewritten as a whole. *)
WriteScope(d, selected) ==
  \A e \in Episodes : ShardOf[e] \notin canonical[d] => e \in selected

StartRun(d) ==
  /\ pc[d] = "idle" /\ run[d].number < MaxRuns
  /\ \E request \in {r \in Requests : WriteScope(d, r.selected)} :
       /\ run' = [run EXCEPT ![d] =
            [number |-> @.number + 1, selected |-> request.selected,
             modules |-> request.modules, skipped |-> {}, failed |-> FALSE]]
       /\ waiting' = [waiting EXCEPT ![d] = request.selected]
  /\ pc' = [pc EXCEPT ![d] = "plan"]
  /\ UNCHANGED <<staging, published, canonical, info, faults>>

(* Episodes the phase may finish next: any in the pool, else the first. *)
Ready(d) ==
  IF Parallel /\ pc[d] \in run[d].modules
  THEN waiting[d]
  ELSE {e \in waiting[d] : \A f \in waiting[d] : e <= f}

(* A module replaces its staging file when it is done with the episode.    *)
(* The interjections module reads the plan file before and writes after;   *)
(* unless datasets share a tree nobody changes it in between.              *)
RunEpisode(d) ==
  /\ pc[d] \in Modules
  /\ \E e \in Ready(d) :
       /\ \E rows \in Outputs(d, e, pc[d]) :
            staging' = [staging EXCEPT ![Tree(d)][e][pc[d]] = rows]
       /\ waiting' = [waiting EXCEPT ![d] = @ \ {e}]
  /\ UNCHANGED <<published, canonical, info, pc, run, faults>>

(* A pool finishes the other episodes before the error surfaces; without   *)
(* one it surfaces at once.                                                *)
EpisodeRaises(d) ==
  /\ pc[d] \in run[d].modules /\ faults < MaxFaults
  /\ \E e \in Ready(d) :
       waiting' = [waiting EXCEPT ![d] = IF Parallel THEN @ \ {e} ELSE {}]
  /\ run' = [run EXCEPT ![d].failed = TRUE]
  /\ faults' = faults + 1
  /\ UNCHANGED <<staging, published, canonical, info, pc>>

PlanUpdate(d) ==
  /\ pc[d] = "plan_update"
  /\ \E e \in Ready(d) :
       /\ staging' = [staging EXCEPT ![Tree(d)][e].plan = UpdatedPlan(Staged(d, e))]
       /\ waiting' = [waiting EXCEPT ![d] = @ \ {e}]
  /\ UNCHANGED <<published, canonical, info, pc, run, faults>>

NextPhase ==
  [plan |-> "interjections", interjections |-> "plan_update",
   plan_update |-> "vqa", vqa |-> "validate"]

EndsPhase(d) == IF run[d].failed THEN "idle" ELSE NextPhase[pc[d]]

(* plan_update has nothing to do unless both modules are enabled. *)
EndPhase(d) ==
  /\ pc[d] \in DOMAIN NextPhase /\ waiting[d] = {}
  /\ pc' = [pc EXCEPT ![d] = EndsPhase(d)]
  /\ waiting' = [waiting EXCEPT ![d] =
       CASE pc'[d] \in Modules -> run[d].selected
         [] pc'[d] = "plan_update" /\ {"plan", "interjections"} \subseteq run[d].modules
              -> {e \in run[d].selected : Staged(d, e).interjections.times # {}}
         [] OTHER -> {}]
  /\ UNCHANGED <<staging, published, canonical, info, run, faults>>

Validate(d) ==
  /\ pc[d] = "validate"
  /\ run' = [run EXCEPT ![d].skipped = Skipped(d)]
  /\ pc' = [pc EXCEPT ![d] = IF Refused(d) THEN "idle" ELSE "rewrite"]
  /\ UNCHANGED <<staging, published, canonical, info, waiting, faults>>

(* Shards the rewrite migrates: one of skipped episodes only is, too. *)
Migrated(d) == {ShardOf[e] : e \in run[d].selected}

(* A packed shard is filled from the staging tree as a whole. *)
BugWholeShards(d) == {e \in Episodes : ShardOf[e] \in Migrated(d)}

(* Episodes whose rows are taken from the staging tree, read again. *)
Replaced(d) == run[d].selected \ run[d].skipped

Rewrite(d) ==
  /\ pc[d] = "rewrite"
  /\ published' = [published EXCEPT ![d] =
       [e \in Episodes |-> IF e \in Replaced(d) THEN Staged(d, e) ELSE @[e]]]
  /\ canonical' = [canonical EXCEPT ![d] = @ \cup Migrated(d)]
  /\ info' = [info EXCEPT ![d] = TRUE]
  /\ pc' = [pc EXCEPT ![d] = "idle"]
  /\ UNCHANGED <<staging, run, waiting, faults>>

(* The rewrite raises, or the process dies anywhere: the lock is free, the *)
(* dataset is as it was and the staging tree keeps what was staged.        *)
Stop(d) ==
  /\ pc[d] # "idle" /\ faults < MaxFaults
  /\ pc' = [pc EXCEPT ![d] = "idle"]
  /\ waiting' = [waiting EXCEPT ![d] = {}]
  /\ faults' = faults + 1
  /\ UNCHANGED <<staging, published, canonical, info, run>>

Next ==
  \E d \in Datasets :
    \/ StartRun(d) \/ RunEpisode(d) \/ EpisodeRaises(d) \/ PlanUpdate(d)
    \/ EndPhase(d) \/ Validate(d) \/ Rewrite(d) \/ Stop(d)

Spec == Init /\ [][Next]_vars
-----------------------------------------------------------------------------
(* Properties. *)

TypeOK ==
  /\ staging \in [{Tree(d) : d \in Datasets} -> [Episodes -> Rows]]
  /\ published \in [Datasets -> [Episodes -> Rows]]
  /\ canonical \in [Datasets -> SUBSET Shards] /\ info \in [Datasets -> BOOLEAN]
  /\ pc \in [Datasets -> Steps]
  /\ run \in [Datasets ->
       [number : 0 .. MaxRuns, selected : SUBSET Episodes, modules : SUBSET Modules,
        skipped : SUBSET Episodes, failed : BOOLEAN]]
  /\ waiting \in [Datasets -> SUBSET Episodes]
  /\ faults \in 0 .. MaxFaults

(* The staging tree outlives a run and every run may enable other modules, *)
(* yet all rows published for an episode come from one run, and from a run *)
(* over that very dataset (executor.py 355-363; the lock, cli.py 209-212). *)
OneRunPerEpisode ==
  \A d \in Datasets, e \in Episodes :
    \E by \in Stamps : /\ by = Nobody \/ by.root = d
                      /\ \A m \in Modules : published[d][e][m].by = by

(* A published episode has all that its run was asked for: subtasks from   *)
(* the first frame, a memory at every later boundary, a plan at every one  *)
(* if plans are on, speech, a VQA pair; and no interjection without a      *)
(* subtask it cues (validator.py; README.md:453: skip_validation never     *)
(* lets an incomplete episode through).                                    *)
PublishedIsComplete ==
  \A d \in Datasets, e \in Episodes :
    LET rows == published[d][e]
        on   == rows.plan.by.modules
    IN  /\ "plan" \in on =>
             /\ 0 \in rows.plan.subtasks
             /\ rows.plan.memories = Later(rows.plan.subtasks)
             /\ EmitPlan => rows.plan.plans = rows.plan.subtasks
        /\ "interjections" \in on =>
             rows.interjections.speech \/ rows.interjections.times # {}
        /\ "vqa" \in on => rows.vqa.pair
        /\ rows.interjections.times \subseteq Later(rows.plan.subtasks)

(* One module that raises on one episode keeps the whole run from          *)
(* publishing, although a pool goes on with the other episodes and their   *)
(* rows are staged (executor.py 386-400).                                  *)
FailedPublishesNothing ==
  \A d \in Datasets : run[d].failed =>
    \A e \in Episodes, m \in Modules : published[d][e][m].by # Stamp(d)

(* Runs do not mix: neither do their rows in an episode, nor do those of a *)
(* run that failed get out.                                                *)
RunsApart == OneRunPerEpisode /\ FailedPublishesNothing

(* meta/info.json declares the language columns exactly when every shard   *)
(* of the dataset has them, after partial runs and skipped episodes too    *)
(* (writer.py validate_write_scope and write_all).                         *)
MetadataHonest ==
  \A d \in Datasets : info[d] <=> canonical[d] = Shards

(* What a dataset holds is whole: each published episode, and the columns  *)
(* that meta/info.json declares.                                           *)
PublishedWhole == TypeOK /\ PublishedIsComplete /\ MetadataHonest

(* What an earlier run published for an episode stays when a later run     *)
(* does not select it, even in a shard that is rewritten, and when it      *)
(* selects it and comes to nothing (writer.py _rewrite_one_locked).        *)
RejectedKeepRows ==
  [][\A d \in Datasets, e \in Episodes :
       e \notin run[d].selected \/ Incomplete(Staged(d, e), run[d].modules)
         => published'[d][e] = published[d][e]]_vars
=============================================================================
