--------------------------- MODULE AlignmentStudy ---------------------------
(***************************************************************************)
(* The fixed-label alignment study of evaluation/scripts:                   *)
(* prepare_alignment_study.py splits the trajectories of several sources     *)
(* into seeds and evaluation components, and evaluate_alignment_study.py     *)
(* runs four stages over them in one output directory:                       *)
(*   fit        fit_task_calibration.py, per calibrated arm: seed inference  *)
(*              and a calibration per cohort, frozen under its digest;       *)
(*   run        run_alignment_arms.py: a run_arm.py job per arm and component;*)
(*   score      merge_alignment_predictions.py, align_floors.py,             *)
(*              score_alignment.py;                                          *)
(*   aggregate  all arms must cover the same trajectories.                   *)
(*                                                                           *)
(* Fits and jobs are threads that lease a port each.  An invocation runs one *)
(* stage or all, it may be killed anywhere, and a later one goes on in the   *)
(* same directory; a frozen file may change on disk under all of them.       *)
(***************************************************************************)
EXTENDS Integers, Sequences, SequencesExt, FiniteSets

CONSTANTS
  Records,         \* 1 .. n -> [source, episode, task, count], in that order
  SeedBudget,      \* seeds per task
  MinCohort,       \* seeds of a cohort that is fitted
  Calibrated,      \* the arms that take a calibration, in order
  Plain,           \* Plain[a]: the same arm without the calibration
  Floors,          \* the model-free arms
  Ports, Models,
  Allocations,     \* bound: the seeds that the hashes of the names may select
  FirstModel,      \* bound: models are alike, and the first invocation's is this
  MaxInvocations,  \* bound: invocations of the driver
  MaxFailures,     \* bound: fits and jobs that fail, episodes without spans
  MaxFaults,       \* bound: kills, and failure records that are not written
  Changed,         \* what a frozen file holds when it was changed
  None

Trajectories == DOMAIN Records
Tasks == {Records[g].task : g \in Trajectories}
TaskOf(t) == {g \in Trajectories : Records[g].task = t}
CalArms == Range(Calibrated)
Arms == CalArms \cup {Plain[a] : a \in CalArms}
Stages == << "fit", "run", "score", "aggregate" >>

(* What a calibration records of its fit.                                    *)
Fits ==
  [arm : CalArms, cohort : [task : Tasks, count : {Records[g].count : g \in Trajectories}],
   model : Models, used : SUBSET Trajectories, pairs : SUBSET (Trajectories \X Trajectories)]

ASSUME StudyAssumption ==
  /\ Len(Records) \in Nat /\ DOMAIN Records = 1 .. Len(Records)
  /\ MinCohort \in 1 .. SeedBudget /\ Allocations \subseteq SUBSET Trajectories
  /\ Len(Calibrated) \in Nat \ {0} /\ DOMAIN Calibrated = 1 .. Len(Calibrated)
  /\ Arms \cap Floors = {}
  /\ Ports \in Seq(Range(Ports)) /\ Ports # <<>> /\ IsInjective(Ports)
  /\ None \notin Models \cup Range(Ports) /\ Changed \notin Fits \cup {None}
  /\ \A g, h \in Trajectories : g # h =>
       << Records[g].source, Records[g].episode >> # << Records[h].source, Records[h].episode >>

VARIABLES
  seeds,       \* the plan's allocation; None before the study is prepared
  prepared,    \* "no", "partly" or "yes": study.json is written last
  tampered,    \* a frozen calibration file is not what was frozen
  marker,      \* run_manifest.json: the model of this output directory
  driver,      \* [at, arm, left, model]: the command, the arm that is fitted,
               \* the stages left, the model
  fitting,     \* the fit command: per cohort, where it is or what it gave
  fits,        \* calibration_routing.json per calibrated arm
  job,         \* the run command: per job, where its thread is
  free,        \* the queue of ports
  record,      \* predictions/<component>__<arm>.json
  jobsFile,    \* jobs_manifest.json is there
  summary,     \* run_summary.json
  merged,      \* merged-predictions, per arm
  scores,      \* scores_arms.jsonl and scores_floors.jsonl
  result,      \* scores.jsonl, which the aggregates are made from
  invocations, failures, faults

prep == << seeds, prepared >>
disk == << marker, fits, record, jobsFile, summary, merged, scores, result >>
threads == << fitting, job, free >>
bounds == << tampered, invocations, failures, faults >>
vars == << prep, disk, threads, bounds, driver >>

Count(g) == Records[g].count
Cohort(g) == [task |-> Records[g].task, count |-> Count(g)]
Component(g) == [task |-> Records[g].task, count |-> Count(g), source |-> Records[g].source]

Eval == Trajectories \ seeds
Components == {Component(g) : g \in Eval}
CohortOf(c) == [task |-> c.task, count |-> c.count]

-----------------------------------------------------------------------------
(* prepare_alignment_study.py                                               *)

Ordered(set) ==
  CHOOSE list \in [1 .. Cardinality(set) -> set] :
    \A i, j \in DOMAIN list : i < j => list[i] < list[j]

(* index_map.json: new_index -> original_index.                             *)
IndexMap(c) == Ordered({g \in Eval : Component(g) = c})

(* split_dataset: the episodes that the component's copy holds.             *)
Copied(c) == Ordered({g \in Eval : Component(g) = c})

(* Seeds are taken by count alone.                                          *)
BugSeedsOfCount(c) == {g \in Trajectories : Cohort(g) = c}

SeedsOf(c) == {g \in seeds : Cohort(g) = c}

(* The cohorts that get a fit.                                              *)
Cohorts == {c \in {Cohort(g) : g \in Trajectories} :
              c.count >= 2 /\ Cardinality(SeedsOf(c)) >= MinCohort}

Jobs == Components \X Arms

(* plan_study: each task gives its budget of seeds, chosen by the hash of    *)
(* their names, and has trajectories left.  The directory must be new.       *)
Plan ==
  /\ prepared = "no"
  /\ \E chosen \in Allocations :
       /\ \A t \in Tasks : /\ Cardinality(chosen \cap TaskOf(t)) = SeedBudget
                           /\ Cardinality(TaskOf(t)) > SeedBudget
       /\ seeds' = chosen
  /\ prepared' = "partly"
  /\ UNCHANGED << disk, threads, bounds, driver >>

(* materialize ends with study.json; if it is killed it never gets one.      *)
Materialize ==
  /\ prepared = "partly"
  /\ prepared' = "yes"
  /\ UNCHANGED << seeds, disk, threads, bounds, driver >>

-----------------------------------------------------------------------------
(* evaluate_alignment_study.py                                              *)

Idle == [at |-> "idle", arm |-> 1, left |-> <<>>, model |-> None]
FirstCommand == [fit |-> "fit", run |-> "labels", score |-> "merge", aggregate |-> "combine"]

NoJobs == [j \in {} |-> None]
NoMerge == [a \in Arms |-> None]

Init ==
  /\ seeds = {} /\ prepared = "no" /\ tampered = FALSE
  /\ marker = None /\ driver = Idle
  /\ fitting = NoJobs /\ job = NoJobs /\ free = <<>>
  /\ fits = [a \in CalArms |-> None]
  /\ record = NoJobs /\ jobsFile = FALSE /\ summary = None
  /\ merged = NoMerge /\ scores = [f \in {"arms", "floors"} |-> None] /\ result = None
  /\ invocations = 0 /\ failures = 0 /\ faults = 0


Goto(command) == driver' = [driver EXCEPT !.at = command]

Resting == driver.at \in {"idle", "completed", "error"}

(* The next command of the driver, or the next stage's first.               *)
NextStage ==
  driver' = IF driver.left = <<>> THEN [Idle EXCEPT !.at = "completed"]
            ELSE [driver EXCEPT !.at = FirstCommand[Head(driver.left)], !.arm = 1, !.left = Tail(@)]

(* CalledProcessError, or an error of the driver's own.                      *)
Stop == driver' = [Idle EXCEPT !.at = "error"]

(* "existing run uses different study/model/protocol settings".             *)
SameRun(model) == marker \in {None, model}

(* The frozen fits of an arm may be replaced.                               *)
BugThaw(a) == TRUE

(* "completed calibration manifest is frozen".                              *)
MayFit(a) == fits[a] = None

Begin ==
  /\ prepared = "yes" /\ Resting /\ invocations < MaxInvocations
  /\ invocations' = invocations + 1
  /\ \E model \in Models, stages \in {Stages} \cup {<< s >> : s \in Range(Stages)} :
       /\ SameRun(model)
       /\ invocations = 0 => model = FirstModel
       /\ marker' = model
       /\ driver' = [at |-> FirstCommand[Head(stages)], arm |-> 1,
                     left |-> Tail(stages), model |-> model]
  /\ fitting' = NoJobs /\ job' = NoJobs /\ free' = <<>>
  /\ UNCHANGED << prep, fits, record, jobsFile, summary, merged, scores, result >>
  /\ UNCHANGED << tampered, failures, faults >>

-----------------------------------------------------------------------------
(* fit_task_calibration.py, once per calibrated arm.                         *)

Arm == Calibrated[driver.arm]

FitArm ==
  /\ driver.at = "fit"
  /\ IF MayFit(Arm)
     THEN /\ Goto("fitting")
          /\ fitting' = [c \in Cohorts |-> [step |-> "wait", port |-> None, fit |-> None]]
          /\ free' = Ports
     ELSE Stop /\ UNCHANGED << fitting, free >>
  /\ UNCHANGED << prep, disk, job, bounds >>

(* The "finally" of both kinds of thread.                                   *)
GiveBack(port) == Append(free, port)

FitThread(c, step) ==
  driver.at = "fitting" /\ c \in DOMAIN fitting /\ fitting[c].step = step
FitKept == << prep, disk, job, driver >>

(* Something fails.                                                         *)
Failure == failures < MaxFailures /\ failures' = failures + 1 /\ UNCHANGED << tampered, invocations, faults >>

LeaseFit(c) ==
  /\ FitThread(c, "wait") /\ free # <<>>
  /\ fitting' = [fitting EXCEPT ![c].step = "fit", ![c].port = Head(free)]
  /\ free' = Tail(free)
  /\ UNCHANGED << bounds, FitKept >>

(* One batch per source root, whose rows get the study's numbers: whose      *)
(* frames are seen, and whose truth they are compared with.                  *)
Collected(c) ==
  {p \in Trajectories \X SeedsOf(c) :
     << Records[p[1]].source, Records[p[1]].episode >>
       = << Records[p[2]].source, Records[p[2]].episode >>}

(* The inference or the fit fails or times out, or the gain is too small.    *)
FitFails(c) ==
  /\ FitThread(c, "fit") /\ Failure
  /\ fitting' = [fitting EXCEPT ![c].step = "failed", ![c].port = None]
  /\ free' = GiveBack(fitting[c].port)
  /\ UNCHANGED FitKept

(* validate_fit.                                                            *)
ValidFit(c, used) == Cardinality(used) >= MinCohort /\ used \subseteq SeedsOf(c)

(* lerobot-align-fit says which episodes it used.  A calibration that is     *)
(* valid is frozen under its digest.                                        *)
Fit(c) ==
  /\ FitThread(c, "fit")
  /\ \E used \in SUBSET Trajectories :
       /\ ValidFit(c, used)
       /\ fitting' = [fitting EXCEPT ![c] =
            [step |-> "done", port |-> None,
             fit |-> [arm |-> Arm, cohort |-> c, model |-> driver.model, used |-> used,
                      pairs |-> {p \in Collected(c) : p[2] \in used}]]]
  /\ free' = GiveBack(fitting[c].port)
  /\ UNCHANGED << bounds, FitKept >>

(* Each cohort must have its file.                                          *)
BugWaitsForFiles == \A c \in DOMAIN fitting : fitting[c].step = "done"

FitsEnded == \A c \in DOMAIN fitting : fitting[c].step \in {"done", "failed"}

(* The manifest appears under its name when all cohorts are through.         *)
FitManifest ==
  /\ driver.at = "fitting" /\ FitsEnded
  /\ fits' = [fits EXCEPT ![Arm] =
       [model |-> driver.model,
        files |-> [c \in {d \in DOMAIN fitting : fitting[d].step = "done"} |-> fitting[c].fit]]]
  /\ IF driver.arm < Len(Calibrated)
     THEN driver' = [driver EXCEPT !.at = "fit", !.arm = @ + 1]
     ELSE NextStage
  /\ fitting' = NoJobs /\ free' = <<>>
  /\ UNCHANGED << prep, marker, record, jobsFile, summary, merged, scores, result >>
  /\ UNCHANGED << job, bounds >>

-----------------------------------------------------------------------------
(* make_alignment_labels.py and run_alignment_arms.py                        *)

Labels ==
  /\ driver.at = "labels"
  /\ Goto("run")
  /\ UNCHANGED << prep, disk, threads, bounds >>

(* What the job's calibration is, if any: the fit of its task and count.     *)
Calibration(j) ==
  IF j[2] \notin CalArms \/ CohortOf(j[1]) \notin DOMAIN fits[j[2]].files THEN None
  ELSE fits[j[2]].files[CohortOf(j[1])]

(* run_as: without a fit the job is the one of the plain counterpart.        *)
RunAs(j) == IF j[2] \in CalArms /\ Calibration(j) = None THEN Plain[j[2]] ELSE j[2]

(* load_manifests: every calibrated arm has one, of this model, whose files  *)
(* are what was frozen.                                                      *)
ManifestsGood ==
  /\ \A a \in CalArms : fits[a] # None /\ fits[a].model = driver.model
  /\ tampered => \A a \in CalArms : DOMAIN fits[a].files = {}

Dispatch ==
  /\ driver.at = "run" /\ job = NoJobs /\ ManifestsGood
  /\ job' = [j \in Jobs |-> [step |-> "wait", port |-> None, read |-> None]]
  /\ record' = [j \in Jobs |-> IF j \in DOMAIN record THEN record[j] ELSE None]
  /\ jobsFile' = TRUE
  /\ free' = Ports
  /\ UNCHANGED << prep, marker, fits, summary, merged, scores, result >>
  /\ UNCHANGED << fitting, bounds, driver >>

(* run_command: a run that ends with status 1 is good enough when all files  *)
(* agree that every job is recorded.                                         *)
Accounted(sum) ==
  /\ jobsFile /\ sum # None
  /\ sum.jobs = Cardinality(Jobs) /\ sum.ok + sum.failed = sum.jobs
  /\ Cardinality({j \in DOMAIN record : record[j] # None}) = sum.jobs

(* SystemExit with a message: status 1.                                     *)
RunRefused ==
  /\ driver.at = "run" /\ job = NoJobs /\ ~ManifestsGood
  /\ IF Accounted(summary) THEN NextStage ELSE Stop
  /\ UNCHANGED << prep, disk, threads, bounds >>

Thread(j) == driver.at = "run" /\ j \in DOMAIN job
Unfrozen(j) == tampered /\ Calibration(j) # None

FailedRecord(j) == [state |-> "failed", as |-> RunAs(j), model |-> driver.model,
               spans |-> <<>>, read |-> None]

Quiet == << prep, marker, fits, jobsFile, summary, merged, scores, result >>
Kept == << Quiet, fitting, driver >>

(* write_failed_job, and the port goes back whatever the status.            *)
Fails(j, queue) ==
  /\ job' = [job EXCEPT ![j] = [step |-> "failed", port |-> None, read |-> None]]
  /\ free' = queue
  /\ \/ record' = [record EXCEPT ![j] = FailedRecord(j)] /\ faults' = faults
     \/ record' = record /\ faults < MaxFaults /\ faults' = faults + 1
  /\ UNCHANGED << tampered, invocations, failures >>
  /\ UNCHANGED Kept

(* The lease, and verify_frozen_calibration.                                *)
Lease(j) ==
  /\ Thread(j) /\ job[j].step = "wait" /\ free # <<>> /\ ~Unfrozen(j)
  /\ job' = [job EXCEPT ![j].step = "arm", ![j].port = Head(free)]
  /\ free' = Tail(free)
  /\ UNCHANGED << record, bounds, Kept >>

LeaseFails(j) ==
  /\ Thread(j) /\ job[j].step = "wait" /\ free # <<>> /\ Unfrozen(j)
  /\ Fails(j, Append(Tail(free), Head(free)))

(* The calibration's content, now.                                          *)
Content(j) == IF Unfrozen(j) THEN Changed ELSE Calibration(j)

(* run_arm.py takes a good record of the same fingerprint: the arm it ran    *)
(* as, the model, and the digest of the calibration.                         *)
Cached(j) ==
  /\ record[j] # None /\ record[j].state = "ok"
  /\ record[j].as = RunAs(j) /\ record[j].model = driver.model
  /\ record[j].read = Content(j)

ArmCached(j) ==
  /\ Thread(j) /\ job[j].step = "arm" /\ Cached(j)
  /\ job' = [job EXCEPT ![j].step = "ran"]
  /\ UNCHANGED << free, record, bounds, Kept >>

(* Otherwise lerobot-align runs on a clean copy and reads the calibration.   *)
Tool(j) ==
  /\ Thread(j) /\ job[j].step = "arm" /\ ~Cached(j)
  /\ job' = [job EXCEPT ![j].step = "tool", ![j].read = Content(j)]
  /\ UNCHANGED << free, record, bounds, Kept >>

(* The record: the spans it gave for each episode of the copy, if any; the   *)
(* calibration is hashed again first.                                        *)
ArmRecords(j) ==
  /\ Thread(j) /\ job[j].step = "tool" /\ job[j].read = Content(j)
  /\ \E given \in SUBSET DOMAIN Copied(j[1]) :
       /\ IF given = DOMAIN Copied(j[1]) THEN UNCHANGED bounds ELSE Failure
       /\ record' = [record EXCEPT ![j] =
            [state |-> "ok", as |-> RunAs(j), model |-> driver.model, read |-> job[j].read,
             spans |-> [e \in DOMAIN Copied(j[1]) |->
                          IF e \in given THEN Copied(j[1])[e] ELSE None]]]
  /\ job' = [job EXCEPT ![j].step = "ran", ![j].read = None]
  /\ UNCHANGED << free, Kept >>

(* The tool fails, times out, or the file changed while it ran.              *)
ArmFails(j) ==
  /\ Thread(j) /\ job[j].step = "tool"
  /\ IF job[j].read = Content(j) THEN Failure ELSE UNCHANGED bounds
  /\ record' \in {record, [record EXCEPT ![j] = FailedRecord(j)]}
  /\ job' = [job EXCEPT ![j].step = "bad", ![j].read = None]
  /\ UNCHANGED << free, Kept >>

StillFrozen(j) == ~Unfrozen(j)

(* Verified once more, the record is written again with what was requested.  *)
Succeeds(j) ==
  /\ Thread(j) /\ job[j].step = "ran" /\ StillFrozen(j)
  /\ record' = record
  /\ job' = [job EXCEPT ![j] = [step |-> "ok", port |-> None, read |-> None]]
  /\ free' = GiveBack(job[j].port)
  /\ UNCHANGED << bounds, Kept >>

JobFails(j) ==
  /\ Thread(j)
  /\ \/ job[j].step = "ran" /\ ~StillFrozen(j)
     \/ job[j].step = "bad"
  /\ Fails(j, GiveBack(job[j].port))

Ended(s) == {j \in DOMAIN job : job[j].step = s}

(* run_summary.json; status 1 if a job failed.                              *)
Summarise ==
  /\ driver.at = "run" /\ job # NoJobs /\ Ended("ok") \cup Ended("failed") = DOMAIN job
  /\ summary' = [jobs |-> Cardinality(DOMAIN job), ok |-> Cardinality(Ended("ok")),
                 failed |-> Cardinality(Ended("failed"))]
  /\ IF Ended("failed") = {} \/ Accounted(summary') THEN NextStage ELSE Stop
  /\ UNCHANGED << prep, marker, fits, record, jobsFile, merged, scores, result >>
  /\ UNCHANGED << threads, bounds >>
-----------------------------------------------------------------------------
(* merge_alignment_predictions.py                                            *)

(* The records are exactly those of the manifest's jobs.                    *)
Complete == jobsFile /\ \A j \in Jobs : j \in DOMAIN record /\ record[j] # None

(* Which job gave, for an arm, the spans of a trajectory.                    *)
Delivered(a, g) ==
  {j \in Jobs : j[2] = a /\ record[j] # None /\ record[j].state = "ok"
                /\ \E i \in DOMAIN record[j].spans :
                     record[j].spans[i] # None /\ IndexMap(j[1])[i] = g}

NoOutput == [spans |-> None, read |-> None]

(* One entry per trajectory of the evaluation; what a job did not deliver is *)
(* "no_output".                                                              *)
Merged(a) ==
  [g \in Eval |->
     IF Delivered(a, g) = {} THEN NoOutput
     ELSE LET j == CHOOSE x \in Delivered(a, g) : TRUE
              i == CHOOSE x \in DOMAIN record[j].spans : IndexMap(j[1])[x] = g
          IN  [spans |-> record[j].spans[i], read |-> record[j].read]]

MergeGood ==
  /\ Complete
  /\ \A j \in Jobs : record[j].state # "torn"
  /\ \A a \in Arms, g \in Eval : Cardinality(Delivered(a, g)) <= 1

Merge ==
  /\ driver.at = "merge"
  /\ IF MergeGood
     THEN merged' = [a \in Arms |-> Merged(a)] /\ Goto("floors")
     ELSE merged' = merged /\ Stop
  /\ UNCHANGED << prep, marker, fits, record, jobsFile, summary, scores, result >>
  /\ UNCHANGED << threads, bounds >>

(* align_floors.py: boundaries from the seeds of the same task and count, if *)
(* there are enough, or even ones.                                           *)
FloorRow(f, g) ==
  LET group == SeedsOf(Cohort(g))
  IN  [spans |-> g, read |-> IF Cardinality(group) < MinCohort THEN {} ELSE group]

ScoreFloors ==
  /\ driver.at = "floors"
  /\ scores' = [scores EXCEPT !["floors"] = [f \in Floors |-> [g \in Eval |-> FloorRow(f, g)]]]
  /\ Goto("score")
  /\ UNCHANGED << prep, marker, fits, record, jobsFile, summary, merged, result >>
  /\ UNCHANGED << threads, bounds >>

(* A row per episode of the split; no spans, a row that is not ok.           *)
Scored(a) == [g \in Eval |-> merged[a][g]]

ScoreArms ==
  /\ driver.at = "score"
  /\ scores' = [scores EXCEPT !["arms"] = [a \in Arms |-> Scored(a)]]
  /\ NextStage
  /\ UNCHANGED << prep, marker, fits, record, jobsFile, summary, merged, result >>
  /\ UNCHANGED << threads, bounds >>

(* combine_scores: all arms are there and cover the same trajectories.       *)
SameCover ==
  /\ \A f \in {"arms", "floors"} : scores[f] # None
  /\ DOMAIN scores["arms"] = Arms /\ DOMAIN scores["floors"] = Floors
  /\ \A a, b \in Arms \cup Floors :
       LET Rows(x) == IF x \in Arms THEN scores["arms"][x] ELSE scores["floors"][x]
       IN  DOMAIN Rows(a) = DOMAIN Rows(b)

Combine ==
  /\ driver.at = "combine"
  /\ IF SameCover
     THEN /\ result' = [a \in Arms \cup Floors |->
                 IF a \in Arms THEN scores["arms"][a] ELSE scores["floors"][a]]
          /\ NextStage
     ELSE result' = result /\ Stop
  /\ UNCHANGED << prep, marker, fits, record, jobsFile, summary, merged, scores >>
  /\ UNCHANGED << threads, bounds >>

-----------------------------------------------------------------------------
(* The invocation is killed with all it started.  A record that is being     *)
(* written is torn, and a merge has written some of its files.               *)
Torn(j) == [record[j] EXCEPT !.state = "torn"]

Killed ==
  /\ ~Resting /\ faults < MaxFaults /\ faults' = faults + 1
  /\ driver' = Idle /\ fitting' = NoJobs /\ job' = NoJobs /\ free' = <<>>
  /\ \E writing \in SUBSET {j \in DOMAIN job : job[j].step = "ran" /\ record[j] # None} :
       record' = [j \in DOMAIN record |-> IF j \in writing THEN Torn(j) ELSE record[j]]
  /\ \E done \in SUBSET Arms :
       /\ done # {} => driver.at = "merge" /\ MergeGood
       /\ merged' = [a \in Arms |-> IF a \in done THEN Merged(a) ELSE merged[a]]
  /\ UNCHANGED << prep, marker, fits, jobsFile, summary, scores, result >>
  /\ UNCHANGED << tampered, invocations, failures >>

(* A calibration file changes on disk.                                      *)
Tamper ==
  /\ ~tampered /\ \E a \in CalArms : fits[a] # None
  /\ tampered' = TRUE
  /\ UNCHANGED << prep, disk, threads, invocations, failures, faults, driver >>

Work ==
  \/ FitArm \/ FitManifest \/ Labels \/ Dispatch \/ RunRefused \/ Summarise
  \/ Merge \/ ScoreFloors \/ ScoreArms \/ Combine
  \/ \E c \in DOMAIN fitting : LeaseFit(c) \/ FitFails(c) \/ Fit(c)
  \/ \E j \in DOMAIN job :
       \/ Lease(j) \/ LeaseFails(j) \/ ArmCached(j) \/ Tool(j) \/ ArmRecords(j)
       \/ ArmFails(j) \/ Succeeds(j) \/ JobFails(j)

Next == Plan \/ Materialize \/ Begin \/ Work \/ Killed \/ Tamper

Spec == Init /\ [][Next]_vars

(* Every command has a timeout; an invocation goes on.                      *)
FairSpec == Spec /\ WF_vars(Work)

-----------------------------------------------------------------------------
(* Properties.                                                              *)

PortsOf(lease) == {lease[t].port : t \in DOMAIN lease} \ {None}
Held == PortsOf(fitting) \cup PortsOf(job)

OnePortEach(lease) ==
  \A t, u \in DOMAIN lease :
    lease[t].port = lease[u].port => t = u \/ lease[t].port = None

(* Types.  "The read IS the lease": while threads run, each port is free or  *)
(* held by exactly one of them, and none is lost.                            *)
TypeOK ==
  /\ prepared \in {"no", "partly", "yes"} /\ seeds \subseteq Trajectories
  /\ marker \in Models \cup {None}
  /\ IsInjective(free) /\ Range(free) \cap Held = {}
  /\ OnePortEach(fitting) /\ OnePortEach(job) /\ PortsOf(fitting) \cap PortsOf(job) = {}
  /\ (driver.at = "fitting" \/ job # NoJobs) /\ driver.at \in {"fitting", "run"}
       => Range(free) \cup Held = Range(Ports)

(* "seed episodes fit the calibration and are in no scored dataset at all":  *)
(* what a calibration or a floor saw is disjoint from all that is scored.    *)
SeedsApart ==
  result # None => \A a \in DOMAIN result :
    /\ DOMAIN result[a] \cap seeds = {}
    /\ \A g \in DOMAIN result[a] :
         LET fit == result[a][g].read
         IN  fit \notin {None, Changed} =>
               (IF a \in Floors THEN fit ELSE fit.used) \subseteq seeds

(* A calibration is used for the trajectories of the task, the count, the    *)
(* arm and the model it was fitted for, and it was fitted by comparing each  *)
(* seed's own frames with its own truth.  Without a kill or an unwritten     *)
(* failure record, no spans are scored that were made with a changed file.   *)
CalibrationFits ==
  \A a \in CalArms : merged[a] # None => \A g \in DOMAIN merged[a] :
    LET fit == merged[a][g].read
    IN  /\ fit = Changed => faults > 0
        /\ fit \notin {None, Changed} =>
             /\ fit.arm = a /\ fit.model = marker /\ fit.cohort = Cohort(g)
             /\ \A p \in fit.pairs : p[1] = p[2]

(* The spans of a trajectory are the ones that were predicted from it.       *)
RightTrajectory ==
  \A a \in Arms : merged[a] # None => \A g \in DOMAIN merged[a] :
    merged[a][g].spans \in {g, None}

(* "all nine arms must cover exactly the same requested trajectories": the   *)
(* scores have a row for each arm and each trajectory of the evaluation,     *)
(* also where the job failed.                                                *)
FullMatrix ==
  /\ result # None => \A a \in Arms \cup Floors : DOMAIN result[a] = Eval
  /\ scores["arms"] # None => \A a \in Arms : DOMAIN scores["arms"][a] = Eval

(* What one directory holds is of one model: fits, records, and its name.    *)
OneModel ==
  /\ \A a \in CalArms : fits[a] # None => fits[a].model = marker
  /\ \A j \in DOMAIN record : record[j] # None => record[j].model = marker

(* A score rests on calibrations that are of one model, of the right cohort  *)
(* and blind to all that is scored.                                          *)
FitsSound == SeedsApart /\ CalibrationFits /\ OneModel

(* The scores compare like with like: one row for each arm and trajectory,   *)
(* made from that trajectory, and no port is lost on the way.                *)
MatrixSound == TypeOK /\ RightTrajectory /\ FullMatrix

(* What a study reports: scores of every arm on every trajectory, each blind *)
(* to what it was fitted on.                                                *)
StudySound == FitsSound /\ MatrixSound

(* "completed fits cannot be overwritten".                                   *)
FitsFrozen == [][\A a \in CalArms : fits[a] # None => fits'[a] = fits[a]]_vars

(* An invocation comes to its end.                                          *)
DriverEnds == ~Resting ~> Resting
=============================================================================
