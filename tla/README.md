# Verification of lerobot-align

`lerobot-align` rewrites a LeRobot dataset in place: a vision-language model
proposes subtasks, plans, memories, interjections and questions for every
episode, the results are staged and validated, and the parquet shards and
`meta/info.json` are replaced in one recoverable transaction. Optionally the
dataset is then published to a Hugging Face repository and tagged. Shell
scripts run this over lists of datasets, and an evaluation study compares
configurations of it on leased inference servers.

This directory holds TLA+ models of the parts of the program where order,
interruption, concurrency or arithmetic decide correctness, TLC configurations
that check them on small instances, and TLAPS proofs for every instance about
`DatasetTransaction`, `LanguageColumns`, `HubPublish`, `BatchRunner`,
`AnnotationPipeline`, `ServerPool`, `FrameCache`, `EpisodeSubtasks` with
`SubtaskSpans` and `BoundarySolver`, `AlignmentStudy`, `Sweep` and `JudgeCache`.
`PROJECT.json` maps every definition to the lines it stands
for. Paths below are relative to `src/lerobot_align/` of the repository unless
they start with `evaluation/` or `scripts/`.

## 1. Inventory

| Part | State it keeps | Operations | Interacts with |
| --- | --- | --- | --- |
| Dataset transaction (`transaction.py`) | files below `.lerobot-align-transaction`: staged copies, backups, a journal | `rewrite_dataset`, `recover_dataset`, the `lerobot-align-recover` command | called by the executor and, to recover, by everyone who takes the lock |
| Run lock (`writer.py` 77-108) | an advisory file lock per dataset root | acquire (and recover), release | held around a whole run |
| Executor (`executor.py`) | phase, results of a thread pool | preflight, four phases, gate, rewrite, metadata | modules, staging, validator, transaction |
| Staging (`staging.py`) | one JSONL file per episode and module; survives a run | atomic replace, read | modules write; later modules, validator and writer read |
| Plan module (`modules/plan_subtasks_memory.py`) | temporary clips; nothing between calls | visual requests, spans from given labels, import or generation; plan and memory rows | VLM client, frame provider |
| Interjections and VQA modules | none | rows at subtask boundaries, question-answer pairs | staged plan rows, VLM client |
| Validator (`validator.py`) | a report | completeness per enabled module, structural checks | decides what may be published |
| Reader and writer (`reader.py`, `writer.py`) | none | records of a shard, scope check, language columns of a shard | transaction |
| Hub publication (`cli.py` 234-687) | what preflight saw; refs on the Hub | guarded commits, tag creation, tag move with backup, restore, clean-up | Hub API, other publishers |
| Frame provider (`frames.py`) | a bounded cache and a decoder shared by the pool's threads | cached decoding, resolution of a camera | modules |
| VLM client and servers (`vlm_client.py`) | server processes, ready flags, exit hooks | spawn, readiness by banner or probe, batches of calls with a retry on invalid JSON, shutdown | modules; other runs on the same ports |
| Motion sampling, subtask import (`motion_sampling.py`, `subtask_import.py`) | none | selection of frames; recorded annotations to spans | plan module |
| Batch scripts (`scripts/run_generate_batch.sh`, `run_import_batch.sh`) | work trees, logs and completion markers below `WORK_ROOT`; a lock on it | download, convert, annotate, push, mark, for each item of a list | the command line, source and destination repositories |
| Alignment study (`evaluation/scripts/prepare_alignment_study.py`, `fit_task_calibration.py`, `run_alignment_arms.py`, `merge_alignment_predictions.py`, `evaluate_alignment_study.py`) | split, frozen calibrations with digests, job records, predictions, scores | fit, run, score, aggregate, over several invocations | leased ports |
| Sweep and gates (`evaluation/scripts/run_all.sh`, `run_arm.py`, `c1_gate.py`, `gate_fingerprint.py`, `score_runs.py`) | predictions with provenance, gates, calibrations, a FIFO of leased replicas | stages falsify, pilot, full, calibrate, align-full, analyse | leased replicas, an operator who edits the source |
| Diagnostics and metrics (`diagnostics/`, `alignment_metrics.py`, `evaluation/scripts/score_alignment.py`) | saved answers | offsets fitted to answers, scores of boundaries | plan module applies what is fitted |
| Judge of labels (`evaluation/scripts/run_judge.py`, `evaluation/metrics/semantic.py`) | an append-only file of verdicts on pairs of labels, a batch of requests under way, counters of the run | pre-warm with batches and retries, look-up, scoring that asks what it misses, report | a judging model behind an API; predictions written by other programs |
| Episode metrics (`evaluation/metrics/segmentation.py`, `joint.py`, `semantic.py`, `score.py`, `evaluation/scripts/score_runs.py`) | none | the row of scores of one episode | a matcher of labels: the judge, or a similarity |
| Remote jobs, configuration, prompts, reports, dataset preparation | none | pure or sequential | command line |

What is hard in it, and hard to test:

* **Crashes.** A rewrite is a sequence of renames and directory fsyncs. The
  process may die, raise or lose power between any two; power may also lose or
  reorder entries that were not fsynced. Recovery itself may be interrupted.
  Batches, sweeps and studies are killed and started again on what they left.
* **Other actors.** Another program may overwrite a data file while a rollback
  is pending. Another publisher may commit or move the tag at any moment, and
  the Hub may carry out a call whose answer is lost. Runs may share ports, a
  source repository may move while it is annotated, an operator edits the
  source while a stage runs.
* **Shared objects.** Threads share one frame cache and one decoder, a batch of
  calls shares the servers, jobs share a FIFO of ports.
* **Leftovers.** Staging trees, work trees, predictions, gates and calibrations
  outlive the run that made them.
* **Partial success.** One episode fails in a pool; some episodes are
  incomplete while the others are to be published; a shard contains episodes
  that were not selected; a request falls back to another medium.
* **Numbers.** Windows must cover an episode within a budget; alignment solves
  for boundaries on a grid, moves them to frames and drops what collides; rows
  are joined to frames on equal timestamps.

`PROJECT.json` lists each as a hazard with its line and the properties that
cover it, or a note where none does.

## 2. Modules

### DatasetTransaction, AtomicDataset

`AtomicDataset` is the promise: the files of a transaction change together in
one step to a new version, or not at all; once a rewrite has returned, what it
reported stays. `DatasetTransaction` is `transaction.py` under
`dataset_run_lock`.

A file is named by the target it belongs to, `1 .. NumShards` for the shards and
`Info` for `meta/info.json`; its content is a version number, so that comparing
checksums becomes comparing versions. There are two images of the file system:
`cache` is what processes see, `disk` what a power failure leaves. A rename
changes `cache`; `_sync_dir` copies the entries of one directory to `disk`
(`SyncTarget`, `SyncBackups`, `SyncJournal`, `SyncRoot`); `Writeback...` lets
the kernel write any single entry back at any time. A target renamed before its
data was flushed (`unflushed`) reaches the disk `Torn`.

Each rename and each directory fsync is one action, in the order of the code:
`BeginRewrite`, `MkdirSync`, `Stage`, `BackUp`, `SyncDirectories`,
`Prepare`/`PrepareSync`, `StartCommit`/`StartCommitSync`,
`Publish`/`PublishSync` per file, `Finish`/`FinishSync`, then `recover_dataset`
as clean-up. Recovery is `NothingToRecover`, `OnlyCleanUp`, `StartRollback` (all
backups and targets verified before the first is touched), `RollbackTarget`
per file, `RollbackJournal`, `RemoveEntry` (rmtree, in any order),
`RemoveDirectory`, or `RefuseToRecover`. `caller` says whether recovery returns
to a run that took the lock, to an exception, or to the caller of a finished
rewrite. `Raise`, `Kill` and `PowerFailure` may come between any two steps.
`EditTarget` and `RestoreByHand` are another program and an operator.

`SyncWindow = FALSE` excludes one thing: a kill or an exception between the
rename of a journal that ends a transaction and the fsync of its directory
(lines 48 and 49); see Known divergences.

### HubPublish

Publication from the preflight to the verified tag. `main` is the list of
commits, `refs` the commit of the version tag and of each run's recovery tag.
Every Hub call is one step: reads may fail; writes may succeed, succeed with
the answer lost, or fail without effect. `OnError` is the except-clause that
surrounds each call. `theirs` records where another publisher put the version
tag since the run's first read; it is `Overtaken` when they moved it between the
last read and the deletion, which the program cannot notice. The Hub is
external: a commit is refused unless its parent is the head (no parent, no
guard), `create_tag` refuses an existing tag. Every run has the option
`--allow_version_tag_move` or not (`run.allow`).

Left out: calls that take effect after they were reported as timed out;
collisions of recovery tag names, which carry a random suffix.

### AnnotationPipeline

The executor with staging, validator and writer over several runs. The rows of
an episode are sets of boundaries: `subtasks`, `plans`, `memories`, interjection
`times`; a flag for the initial speech and one for a VQA pair. Every staged file
carries the stamp of the run that wrote it. What the model behind a module
answers is a free choice (`Answers`); a disabled module empties its file
(`Outputs`). `RunEpisode` replaces one file; with `Parallel` any waiting episode
may be next and a failure lets the pool finish (`EpisodeRaises`), without it
episodes are in order and the first failure ends the phase. `PlanUpdate` adds
plan rows for interjections. `Incomplete` is the completeness check,
`Inconsistent` the one structural check that module output does not satisfy by
construction, `Refused` the gate, `WriteScope` the check before a run. `Rewrite`
takes the rows from the staging tree again and updates the schema and
`meta/info.json` together; that this is one step is what `DatasetTransaction`
implements. `Stop` is a failing rewrite or a kill anywhere. `Requests` bounds
the selections and module sets a run may be given.

Left out: `task_aug` rows here (they are in `ModuleRows`), `emit_memory = false`.

### ModuleRows, LanguageColumns, DatasetRewrite

The same components seen from inside one run over one shard, row by row.
`ModuleRows` has the three modules as functions from an episode's frames, its
configuration and the model's answers to the rows they stage: subtask, plan,
memory and task-augmentation rows, interjections with their speech atoms,
anchors of questions and the frames they are bound to. `LanguageColumns` runs
them phase by phase on a shard with dropped frames, equal timestamps in two
episodes, missing or legacy columns; the validator's completeness and structural
checks (`Incomplete`, `Misrouted`, `WrongCamera`, `OffFrame`, `Unspoken`, ...)
and the writer's layout of persistent and event columns follow. Times are ticks,
a text is a sequence of words. `DatasetRewrite` has both sides of a rewrite in one
run, each followed by itself: the rows of a shard, which are made before the
transaction begins, and the files of `DatasetTransaction`, which does not look
into them.

Left out: row groups, the parquet encoding, the wording of the report.

### FrameSelection, SubtaskImport, VisualRequest

How the plan module gets to the subtasks of one episode. `FrameSelection` has
samples, windows (`FullWindows`, `EvenWindows`), the alignment grid and the
choice stratified by motion, where the motion signal is any choice of scores:
`ranked` gives each stratum that has frames one of them, `filled` then each empty
one the nearest frame left. `Filtering` has the list comprehension they all use.
`SubtaskImport` has the sources tried in order and the conversion of what they
record into spans. `VisualRequest` composes both: a series of generation
requests per window, optionally with a description first, or one alignment
request over several cameras; a native clip or contact sheets; `EncodeFails`,
`DecodeFails`, `BadBlock` and the policy `subtask_video_fallback` that decides
what may replace a clip; `Rebudget` and `Thinned` when the budget is divided
among views; `Unlink` and `Finally` for temporary clips. `Origin` is the time the
prompt counts from, which is what `TimesTrue` compares with the frames shown.

### SubtaskSpans, BoundarySolver, CalibrationTrial, AlignmentScore, SpanDiagnostics

`SubtaskSpans` goes on from there: from the answer of the model or the recorded
annotation to the spans that are staged: `_subtask_spans` with its origins and
the realignment of generated labels. Time is counted in ticks; a frame is its
timestamp; a label is its position in the list (equal texts are different
labels, as in the code). The answer is a free choice of intervals inside and
outside the episode, given forwards or backwards, for some of the labels. The
stages are actions in the order of the code: `Entry` (parsing, the first entry
for a label wins), `Uncalibrated`, `Shift` or `Solve`, `OrderNext` for each
label, `CheckCoverage`, `Clean` (clamp, swap), `SnapNext` for each span in order
of starts, `Stitch`, then `StartRealign` or `Finish`.

`BoundarySolver` is the dynamic program with its table of cheapest prefixes and
the walk back, used by the plan module and by the calibration tool; where two
choices cost the same the model takes either, since floating point decides it.
`CalibrationTrial` is `fit_align_calibration.py`: which of several saved rows of
an episode counts, which episodes are fitted, median offsets and lengths, the
result tried on an answer, and whether it is written (`Fits`): a first boundary
that is off by `MinFirst` on average, and a gain of `MinGain` on episodes left out
in turn (`HeldOut`), or `--force`. Where equally cheap boundaries make the gain
depend on which the solver returns, writing and refusing are both possible.
`AlignmentScore` matches predicted spans to
labels and charges a missing boundary its worst case. `SpanDiagnostics` composes
the three with `SubtaskSpans`: the fit is made from and judged on answers the
aligner reads, the score is taken of the spans it publishes.

Left out: the text of labels, and with it the seeded relabelling except that it
may fail; fractions of an episode are ticks, so rounding of fractions is not
modelled and episodes in a fit have equal lengths; the weight of the duration prior,
which the tool chooses among six by leaving episodes out, and the scales that a fit
takes from its residuals: both are prices that are constants here
(`FitCost`, `LengthCost`); bootstrap intervals.

`EpisodeSubtasks` puts the two halves behind each other, as `_subtask_spans`
does: `See` is a step of `VisualRequest`, and once that is done, `Place` one of
`SubtaskSpans` for the origin of the same episode; a request that failed leaves
no spans. What the model answers to the requests is a free choice in
`SubtaskSpans`, which is why the first step of `Place` forgets what was asked
(`Forget`). The second, aligning request of a realignment is not made again: that
kind of request is one of the cases of `VisualRequest`.

### FrameSource, FrameCache

`FrameSource` is the promise of the provider: a request gets all its frames in
order, or none, or an exception if it insists. `FrameCache` is `frames.py`
shared by threads: `Lookup` under the cache lock, `Aim`/`Read` under the decoder
lock (which the two-step read shows to be needed: `Aim` sets the position of the
shared decoder), `Store` with eviction under the cache lock again, `Warn` once
for a missing view. A frame is a camera and the place in its file, an episode a
part of that file; the decoder may return too few frames or fail. Decoding and
drawing themselves are calls into libraries.

### ServerPool

Processes that a run launches (`Launch`, `Register` of the exit hook), a reader
of each one's output and a probe of its port (`Banner`, `Probe`), `AllReady`,
`WaitRaises` and `Timeout`, then a batch of calls by `Concurrency` threads with
one retry of an answer that is no JSON (`Send`, `Reply`, `Collect`, `Retried`),
and the hook (`Shutdown`, `Kill`, `Reaped`). Servers print, listen, exit or hang
by themselves. Run 0 is somebody else's server on a port. Of the four banners the
reader knows, three come before the port is bound and one after: `Banner` may come
while the server loads or serves, and `early` has those that have announced
themselves and not yet tried to listen.

### BatchRunner, Publication

Both batch scripts over one `WORK_ROOT`: the lock, one item after the other with
`Resolve` of the source revision, `Skip` by marker, `Clean`, `Download`,
`Convert`, annotation and push by the command line, `Validated` by the log,
`Mark`, `Tidy`. Any command may fail, any invocation may be killed, the source
may move. A tree is the set of revisions whose files it holds, whether it is
whole, its version and whether the download cache is still inside. `Publication`
has both sides of a publication in one run, each followed by itself: the calls of
`HubPublish`, or the scripts to which these calls are one step.

### AlignmentStudy

The study's driver in one output directory: `Plan` and `Materialize` split
trajectories of several sources into seeds and components; `LeaseFit`, `Fit`
and `FitManifest` fit a calibration per cohort and freeze it under its digest;
`Dispatch`, `Lease`, `ArmRecords`, `StillFrozen`, `Succeeds`, `JobFails` run the
jobs on leased ports, with cached results of earlier invocations; `Merge`,
`ScoreFloors`, `ScoreArms` and `Combine` follow. `Killed` may come anywhere,
`Tamper` changes a frozen file, a later invocation may name another model.

### C1Gate, Sweep

`C1Gate` decides whether repeats of two arms agree, from rows with provenance,
and records a fingerprint. `Sweep` is `run_all.sh`: stages one after the other,
jobs leased from a FIFO (`Lease`, `Returned`), predictions reused when their
provenance fits (`Cached`), the gate, calibration with its four files
(`PinCohort`, `FitFlags`, `WriteFit`, `RecordGate`), interruptions, and an
operator who edits source, flags or model. The statistics are a choice among the
verdicts the rows allow.

### JudgeCache, EpisodeMetrics, LabelScoring

`JudgeCache` is the judge. A label stands for its normalised text, a pair is a
set of one or two labels, a completion the set of verdict words in its reasoning
and in what it says. `Warm` starts a pre-warm over the pairs scoring will look
up, and settles those that need no judge (`Free`); `AskBatch` and, per request, `Post`, `Retry`, `Reject`, `Break` and `Answer`
follow, then `EndBatch` and `Commit`, which writes line by line. `Scoring` starts
a scoring and `Consult` looks one pair up or asks what it misses, also about a
pair that a pre-warm would have settled. Requests are
made again up to `MaxRetries` times, `Kill` may fall between any two steps, arms
write more predictions (`Predict`), and the judge may be another model.

`EpisodeMetrics` computes the row of one episode (`Score`: matching of
boundaries and spans, overlaps, edit distance, one-to-one matching of labels by
augmenting paths) and states each score against a reference definition that enumerates.
Two scores say how much time is labelled right, one by samples (`SamplesRight`) and
one by durations (`TimeRight`). Samples lie in the middle of steps of `SampleStep`
from the start of the annotation, as many as fit (`SampleCounts`: one less may fit
where the quotient of two floats is rounded to just under a whole number), and at
least one. So `TimesAgree` allows a difference of one step for each in which a span
begins or ends, and the rest behind the last one; elsewhere the two must be equal.
Left out: a sample that falls on an edge exactly, where rounding decides, which an
odd step and whole times avoid.
`LabelScoring` puts the two ways to compare labels beside each other: a
behaviour is either one of `JudgeCache` or the scoring of one episode with a
similarity. What the judge decides does not flow into the row of an episode
there; a matcher is any relation to the metrics, which the similarities and
thresholds cover.

## 3. Runs

Each property of a passing run has a mutant in `PROJECT.json`: a plausible
mistake (`Bug...` in the module, used by no action) that makes TLC report the
property violated. A property below may be a conjunction of named parts; the
module states each.

| Run | Bounds | Properties |
| --- | --- | --- |
| `rewrite` | files: 2 shards, 2 rewrites, 2 faults, 1 edit, power loss, `SyncWindow` off; or rows: 4 frames of 2 episodes, uneven or repeated timestamps, 4 sets of columns, parquet and lance, 5 configurations, 2 cameras | `Readable` (whole unless a rollback is asked for; what was read is settled), `Recoverable`, `StepsSafe` (metadata last, foreign files kept), `Implements` (refinement of `AtomicDataset`), `PendingResolved` (liveness); `RowsRight` (own rows pass the validator; columns hold exactly what is staged), `OthersKept` |
| `publication` | calls: 2 runs with or without the opt-in, 2 faults, 3 steps of the other publisher; or scripts: 2 generating and 1 importing invocation, 2 revisions (v2.1 then v3), 1 move, 1 failing command | `TaggedIsComplete`, `EndsClean`, `TagsSafe`; `PublishedPure`, `RecordsHonest`, `WorkKept`, `BatchesEnd` (liveness) |
| `annotate` | 3 episodes in 2 shards, boundaries 0..2, 3 runs, 1 fault, any selection with VQA alone and episode 0 with three module sets, pool, limit 60%, `--skip_validation` | `RunsApart`, `PublishedWhole`, `RejectedKeepRows` |
| `subtasks` | requests: budgets 1..5 (generation) and 1, 2, 3, 5, 7 (alignment), five shapes of episode, both formats and policies, 2 cameras in 2 requested lists, recorded sources well formed and not, 1 clip that cannot be removed; spans: frames 0, 1, 4, 5, answers -1, 0, 1, 4, 6, 3 labels of which two share a text, all origins, offsets -2 and +1, lengths 1, 1, 2, scope `exact`, threshold 50%, realignment; fits: files of four rows on three episodes, a first error of 3 ticks, a gain of 3% | `RequestTrue` (`RequestSound`, `TimesTrue`), `EpisodeSeen` (`SeenWhole`, `ImportedWhole`), `SpansKept` (`LabelsKept`, `EpisodeTiled`), `ToolsHonest` (`FitRecovers`: a calibration undoes the usual error, is refused for a small error or gain only, and is never written unforced to right answers; `ScoreHonest`), `SolverOptimal`, `EpisodeEnds` (liveness) |
| `frames` | 2 threads with 2 requests each out of 6, a cache of 2 frames, 4 datasets, 1 failing decode | `CacheSound`, `Implements` (refinement of `FrameSource`), `Answered` (liveness) |
| `servers` | a run with 2 replicas and one with 1 on a shared port, batches of 2, 1 exit, 1 kill, banners at any time | `RunsSound`, `PortsShared` (a client calls only where somebody accepts, has stopped, or announced itself too early; a run stops its own servers only), `RunsEnd` (liveness) |
| `study` | 4 trajectories of 2 sources with equal numbers, 2 ports, a calibrated and a plain arm and a floor, 2 models, 3 invocations, 2 failures, 1 fault | `StudySound` (`FitsSound`, `MatrixSound`), `FitsFrozen`, `DriverEnds` (liveness) |
| `sweep` | 2 cells with 2 repeats or 1 on one replica; 2 components on one or two; 3 stages, 1 edit, 1 fault | `RecordsHonest`, `ResumesSafely`, `StageEnds` (liveness) |
| `scoring` | 5 labels, one of them empty, 1 pair of opposites, 2 episodes, 2 models, 4 kinds of reply, batches of 2 with 2 workers and 2 attempts, a limit of 1 or none, 2 runs, 1 fault; or an episode with edges at 0, 1, 3 and 7, annotated from 0 to 7, 1 to 7 or 1 to 3, and samples 3 apart, with up to 3 spans, 3 labels, 2 matchers and 2 thresholds | `VerdictsTrue` (what is kept was said, or needs no judge; a pre-warm asks about no pair that needs none), `WarmHonest` (a pre-warm without a gap suffices; its counters add up), `ScoresTrue` (nine scores against their definitions), `RulerFixed`, `RunsEnd` (liveness) |
| `sweep_laundered` | the generation study of `sweep` without faults | `FullCovered` is violated |
| `servers_banner` | the runs of `servers` without exits and kills | `WaitsUntilAccepts` is violated |
| `judge_free` | the judge of `scoring` without faults | `FreeSettled` is violated |

Why the bounds are enough. Two shards and the metadata file give a publication
loop with a first, a middle and a last rename, and partial runs that leave a
shard out. A second rewrite meets the leftovers of the first, a second fault
interrupts the recovery from the first, one edit makes a rollback impossible. In
`publication` a second run meets what a dead first one left; two faults reach the
failed restore after a failed move; three steps of another publisher are a
commit, a tag and a move. In `annotate` a second run meets stale staging, a shard
with two episodes and one with a single episode distinguish packed shards from
shards with only skipped episodes, and three runs allow a full migration
followed by two partial ones; which modules are on matters for one episode at a
time, which episodes are selected for cheap modules too. In `rewrite` a dropped
frame makes anchors collide and the second episode shares a timestamp with the
first. In `subtasks` three labels have a first, an inner and a last boundary, which
is what the cost table, the chain of shifted ends and the order check tell apart;
uneven frames make snapping ambiguous and bumping jump. Budgets run from less
than a frame per view to more than the episode has, and the
episodes are regular, long, denser and sparser than the samples, and single. In
`frames` one request is larger than the cache and each may evict what the other
found. In `servers` one port is contended. In `publication` an item occurs twice in a
list, one identifier is invalid, and every command may be the failing or the last
one. In `study` two ports and more jobs than ports make leases wait, a third
invocation meets what two left. In `scoring` a second run meets what a first, or
a killed first, left in the file; there are more pairs than a batch holds, and
the replies are one of each way to be read; three labels with an intransitive
similarity are the least for which greedy and best matching differ, and three
spans the least with an inner one; the annotations have a rest behind the last
sample, a whole number of steps, and less than one, with edges on the grid of
samples and off it. In `subtasks` a file of four rows can have a failed attempt
before or after a good one, and three episodes of which one errs otherwise, the
least for which a gain on episodes left out is known. In `sweep` three stages are a falsification, a
full sweep and one more.

`CHECK_DEADLOCK FALSE` is given in every configuration but that of
`rewrite`: there runs, requests, invocations or stages are bounded in number,
or the episode has been finished, and nothing happens after the last. Only
`rewrite` checks for deadlock: transactions go on for ever, and a run over rows
stops at one of its ends (`Ended`) and nowhere else; that the others do not
stop earlier is what their liveness properties say.

Fairness.

* `rewrite`, on the side of the files: a process that holds the lock keeps running (`WF` on recovery
  and rewrite steps: straight-line code and file-system calls that return),
  someone starts another run (`WF` on `Acquire`), and an operator restores an
  overwritten file as the error message of `RefuseToRecover` asks (`SF`, since
  runs keep interrupting the state in which it can be done).
* `frames`: `WF` on each thread; it makes finitely many requests, so that the
  decoder is not kept from another for ever.
* `servers`: `WF` on the main thread of each run: its loops sleep two seconds,
  its waits have a limit, and a call ends in a reply or an exception. Nothing is
  assumed of servers.
* `publication` on the side of the scripts, `study`, `sweep`, `subtasks`, `scoring`: `WF` on the script or driver,
  whose commands end or have a timeout, and whose requests are retried a bounded
  number of times.

No fairness is assumed of faults, kills, edits or other parties; they are only
bounded in number.

## 4. Proofs

Three proof modules are about two components each, since these meet: the writer
gives the rows that the transaction writes, a batch pushes through the
publication, the executor's modules call the servers.

### DatasetTransactionProofs

The transaction. For every number of shards and all bounds, under
`Sound == ~(PowerLoss /\ SyncWindow)`: either power does not fail, or no
interruption falls into the window of lines 48 and 49. Proved are

* `TypeCorrect`, `OriginalsAlwaysSurvive`, `AlwaysWholeUnlessCommitting`,
  `ReadsAlwaysSettled`, `AlwaysRefusesOnlyForeign`, and from them
  `AlwaysReadable` and `AlwaysRecoverable`, the invariants of the run;
* `StepsAlwaysSafe`: `Spec => StepsSafe`, no step publishes metadata early or
  overwrites what another program wrote;
* `AtomicityRefined`: `Spec => Implements`, every behaviour is one of
  `AtomicDataset` under the mapping `content <- Logical`.

The invariants are not inductive: what a run may find on the disk depends on how
far the interrupted run had come. The strengthening `IInv` says, for each step
`pc`, what the journal, the backups and the targets of the cache are
(`LockInv`, `StageInv`, `PrepareInv`, `PublishInv`, `RollbackInv`), that a
committing journal in either image is one that can be obeyed (`CacheInv`,
`DiskInv`), and that nothing is inside a transaction directory that is not there
(`EmptyInv`). The refinement adds that versions grow (`VersionInv`) and that a
rewrite about to return has left what it was to leave (`ReturnInv`), and shows
what each step does to `Logical`: the journal that says committed makes the new
dataset the recovered one when it reaches the disk, `EditTarget` and
`RestoreByHand` map to `Edit`, the end of the recovery that a finished rewrite
calls maps to `Return`, all others stutter. For the steps, `PendingInv` says
which files are still to be published or rolled back at each point.

The language columns. For any shards, selections, cameras, configurations and
answers, assuming of a shard that it is the record the model says it is, with
frames at integer times (`ShardsAssumption`), of a configuration that its period
is positive and its counts are natural (`ConfigsAssumption`), of phrasings that
they are lists of texts, of cameras that none is listed twice, and that an empty
task is a bad one (`CamerasAssumption`):

* `RowsOfOthersKept` (`ColumnsSpec => OthersKept`): no step changes a row of an
  episode that was not selected or came out incomplete, and none at all when the
  run is refused.
* `PartialRunsAlwaysSafe` (`ColumnsSpec => []PartialRunsSafe`), a part of
  `RowsRight`: once a run has written, no later selection is refused for the
  layout.
* `RowsAlwaysRight` (`ColumnsSpec => []RowsRight`): what the modules stage passes
  every structural check, each staged row ends on its frame and on no other, and
  on every frame of a written episode one subtask is active, with the plan and
  the memory that belong to it.

The invariant `ColumnsInv` has that only selected episodes have records, that
what is skipped is what the validator found incomplete (`DecidedInv`), and that a
run ends with a shard in the layout the scope check asks for (`MigratedInv`).
`RowsInv` adds what the rows need. `RecordsInv`: the times of a record increase
and are exactly those of its episode's frames, each of one frame, which is what
the check in the reader buys and why joining rows to frames on equal times
neither loses nor repeats one. `StagedInv`: the plan module's rows have at most
one subtask, one plan and one memory at a time, plans exactly where subtasks
begin, each plan the list of what is left then (`PlanOK`, which the update of
plans keeps because an interjection only asks where a subtask starts); a cue is
where a subtask starts and has its speech atom (`InterjectionsOK`); and of the
answers to questions no two share time, camera and role (`VqaOK`), because
emission anchors are distinct and a frame has one call per camera. `WrittenInv`:
a written frame holds the slice of its episode and the bucket of its time. The
lemmas under it say of the filter `Only`, the stable sort `Sorted`, `Distinct` and
the concatenation of lists that they keep every row, as often as it was there.
From them `OncePlaced` has the rows on their frames and `ActiveFound` what the
renderer finds: a completeness check passed, so the first frame has a subtask.

### HubPublishProofs

The publication. For any numbers of runs, faults and steps of others:
`TypeCorrect`, `AlwaysTagsComplete` (`Spec => []TaggedIsComplete`),
`AlwaysEndsClean` (`Spec => []EndsClean`) and `StepsKeepTags`
(`Spec => TagsSafe`). The inductive invariant `IndInv` adds to the types
`MoveInv` (the order of a tag move: which of backup, re-read, deletion and
creation lie behind `pc`, and what the run then knows), `CommitsInv` (a card lies
right on its files, and what the run remembers of its uploads is on `main`),
`OthersInv` and `KeptInv` (where the other publisher's tag is, and that the
release being moved still has a tag) and `BackupInv` (the recovery tag of this
run).

The batch scripts. For any invocations with any lists and recipes, sources, revisions, and numbers
of moves, failures and kills: `AlwaysPure` (`BatchSpec => []PublishedPure`),
`AlwaysHonest` (`BatchSpec => []RecordsHonest`) and `AlwaysKept` (`BatchSpec => WorkKept`).
Assumed are the shape of the constants (`BatchAssumption`,
`RevisionAssumption`) and that no marker is the absence of one
(`NoneAssumption`). What is published is decided many steps before the push, so
`IInv` says what each step may rely on: that only one invocation is past the lock
(`LockInv`), whose source revision it has resolved (`ItemOf`), that the work tree
holds files of this revision only and is as far as the step says (`TreeOf`), and
that log and marker are this run's own (`RecordsOf`). `BehindInv` carries, over
the position in the list, that every item behind it has failed or is published.

### AnnotationPipelineProofs

The executor. For any datasets, episodes, shards, boundaries, limits, options and numbers of
runs and faults, under `Apart == ~SharedStaging`, that is when every dataset has
a staging tree of its own: `AlwaysApart` (`Spec => []RunsApart`), `AlwaysWhole`
(`Spec => []PublishedWhole`) and `StepsKeepRejected`
(`Spec => RejectedKeepRows`). The inductive invariant `IInv` is a conjunction per
dataset. Completeness is checked before the rewrite reads the tree again, hence
`RunInv`: what was validated is still what is staged. Staged files are of any
earlier run until a phase has come to the episode (`HasRun`), and of this run
afterwards (`StagedInv`); they have the shape the plan module gives them
whoever wrote them (`ShapeInv`), and interjections are on boundaries of the plan
of their own run (`CueInv`). `PublishedInv` says that what is published is of an
earlier run until this one ends well, and whole; `ScopeInv` that a run under way
selects all that is not migrated yet. A step of one dataset's run leaves the
others as they are (`Frame`), and one lemma per action shows what it does to its
own. The assumption is needed: see Known divergences.

The servers. For any number of runs, replicas, calls at once, messages, exits and kills:
`NothingLeft` (`PoolSpec => []RunsSound`) and `PortsAreShared`
(`PoolSpec => PortsShared`), with banners before and after a server listens. Assumed is
`PoolAssumption`: counts are positive and 0 is not the name of a run. A run tears
its servers down only if its exit hook is there, hence `HookInv`, which says for
each step whether the hook is registered, and `LaunchInv`, that replicas are
launched one after the other and only launched ones count as ready. What one run
does leaves the others' parts of the invariant alone (`WorkAlone`, `OthersQuiet`,
`QuietKeeps`), so that a step is examined for its own run only. For the ports,
`ReadyInv` says that where a replica is taken to be ready somebody listens, has
listened and stopped, or it announced itself and has not tried to listen yet
(`Vouched`): when it does try, either it listens or the port is somebody else's
who does (`VouchedStep`).

### FrameCacheProofs

For any threads, episodes, cameras, requests, cache size and numbers of failures:
`CacheAlwaysSound` (`Spec => []CacheSound`) and `SourceRefined`
(`Spec => Implements`). Assumed are a cache of at least one frame, episodes that
have frames, requests of the right types, and that the three names for "nothing"
are none of the values. `IInv` ties each thread's places to what it was asked:
its answer so far has only right frames (`OutInv`), the thread that reads holds
the decoder, which was sent to its places (`AimInv`), and what it has read is
what it wanted unless it is incomplete (`DecodedInv`); the cache has every key
once and the frame of its key (`SoundCaches`). The lemmas before it are about the
operators: what `SelectSeq` and `FoldSeq` return here, how eviction keeps an
injective sequence injective, that the chosen places are increasing. They need an
induction, which is done as an argument about the least counterexample of a set
of natural numbers (`WFMin` of the library): that takes a set, not an operator.
The refinement maps only the steps that give an answer to steps of `FrameSource`.

### EpisodeSubtasksProofs

For any frames, times, answers, calibrations, thresholds and numbers of labels,
assuming the types of the constants (`SpansAssumption`, `SolverAssumption`, and
for the requests those named below):

* `SpansAlwaysKept` and `EpisodeKept` (`EpisodeSpec => []SpansKept`): the
  published spans tile the episode, labels of a list stay in its order, none is
  given up while a frame is left for it, a realignment loses none;
* `BoundariesOptimal` and `EpisodeOptimal` (`EpisodeSpec => SolverOptimal`): the
  boundaries of a calibrated answer cost no more than any others in order;
* `RequestAlwaysTrue` (`EpisodeSpec => []RequestTrue`): on every path to it a
  request has the medium the policy allows and no more frames than the prompt
  takes, and a time the model reads off a frame is recorded as that frame's;
  `EpisodeAlwaysSeen` (`EpisodeSpec => []EpisodeSeen`): windows follow each other
  from the first frame to the last at the full rate, an alignment shows both
  ends, and what is recorded is imported whole;
* `MediumKept`: under the policy `error` a video episode is only ever asked for
  with video, and one with contact sheets with nothing else (a part of
  `RequestSound`); `ClipsRemoved`: an episode that has its subtasks, or failed,
  leaves no clip but those the file system would not remove;
* `ScoresAlwaysHonest` (`EpisodeSpec => []ScoreHonest`, a part of `ToolsHonest`):
  the score of published spans against any annotated episode takes no label for
  another, and no part of it is better with a span left out.

The score is proved for `Ambiguous = "fail"`, which is what the scorer does unless
it is told to guess (`score_alignment.py` 849), and for labels with any
repetitions. With the other policy the statement is false by intent: the guess of
a reading may be the wrong one.

The requests need more of the constants: timestamps increase, as the reader
checks, a budget is at least one frame, no camera is requested twice
(`CasesAssumption`, `PromptAssumption`), and time is counted in units that are
much shorter than the time between two samples (`StepAssumption`: with coarser
ones two samples of a grid may be the same moment, which is an effect of rounding
in the model and not in the code).

What is proved about spans is decided by the last stage and prepared by all:
`SpansInv` says for each stage which sets are in use (`UseInv`), that intervals
are forwards and, of a list, in its order (`AnswerInv`), and what snapping has
done so far. Its heart is `Packed`: between the frame nearest to a span still to
be placed and any frame taken, every frame is taken. With it the next span gets a
frame behind all others, which keeps the order; and a span that was given none
found every frame to the end of the episode taken (`JustifiedInv`). A realignment
starts from a cover that tiles the episode, hence every label has a frame of its
own to fall back to (`RealignLosesNothing`).

What is proved about requests rests on lemmas about the functions that make them,
for episodes of any length: a grid has its ends and is in order (`GridSound`);
uniform and stratified samples are frames of the episode in order, with both ends
and no more than wanted (`UniformSound`, `ChosenSound`); windows are sewn at their
seams and none is longer than its budget (`FullWindowsCover`); sheets neither lose
nor move a tile (`SheetsShow`). `SeeInv` then has, besides media and clips
(`RequestInv`), for an alignment that its views are known cameras, each once,
which together with its moments stay within the budget (`AlignInv`); for a
generation that the requests to come are the rest of the plan `PlanOf` and the
windows asked for its beginning (`GenInv`); and that every request sent was good
when it was sent (`SentInv`, `GoodRequest`).

The optimum is an induction over the labels, done as an argument about the least
label at which it fails: the cost table is the cost of the cheapest boundaries up
to a label that end at a point, so boundaries in order cost at least what the
table says, and those read back from it exactly that.

For the score, `LabelInv` adds that spans of a supplied list are of labels of the
list. The true attribution is then one of the largest matchings of texts, so if
there is one reading it is the true one (`ScoreIs`), and the score is a function
of the set of published labels alone (`Graded`), in which each part is compared
for a set of labels and a subset of it (`DroppingNoBetter`): sizes of sets for the
shares, least and greatest elements for the errors, since a missing boundary costs
at least what a placed one can.

### AlignmentStudyProofs

For any records, arms, ports and models, and any numbers of invocations,
failures, kills and changes on disk: `Sound` (`Spec => []StudySound`) and
`Frozen` (`Spec => FitsFrozen`). `StudyAssumption` has the types of the
constants, that trajectories have different sources or episodes, that arms and
floors have different names, and that a changed file is no fit. `IInv` is in
layers: an output directory has the model its marker names before anything is in
it (`GroundInv`); stages come in their order, so that no thread of one is alive
in the next (`ControlInv`); a thread has a port from its lease to its end, and
while threads are alive every port is free or held, once (`PoolInv`); every fit
that is frozen was made from seeds, for its own arm, cohort and model
(`FitsInv`). Records, merged rows and scores then carry this on to what is
compared (`RecordInv`, `ScoreInv`): a record made with a changed calibration is
on its way to be replaced (`Doomed`), unless a kill came in between.

### SweepProofs

For any cells, components, setups with any replicas and repeats, and numbers of
stages, edits and faults: `AlwaysHonest` (`Spec => []RecordsHonest`) and
`AlwaysResumable` (`Spec => ResumesSafely`). Assumed: cells and components are
finite and disjoint, the primary cell is one, ports are distinct, bounds are
numbers (`SetupAssumption`, `NamesAssumption`, `BoundsAssumption`,
`NoneAssumption`). `IInv` has three layers: which stage may be at which place
(`StageInv`); that a replica is free or leased and a job queued or running, once
(`QueueInv`, `PoolInv`); and what is on disk when a job is at a step (`JobInv`),
with what every gate and every fit on disk satisfies (`GateInv`, `FitInv`). That
a calibrate stage that ends well has calibrated everything is `ProgressInv`:
every component is calibrated, being calibrated or queued, or a job has failed.

### JudgeCacheProofs

For any labels, models, replies, batch sizes, workers, retries, limits, runs and
faults, assuming the types of the constants (`JudgeAssumption`,
`NoneAssumption`): `FileTrue` (`Spec => []VerdictsTrue`), `RulerIsFixed`
(`Spec => RulerFixed`) and `WarmIsHonest` (`Spec => []WarmHonest`). The file
alone does not say whether a verdict is true; `VerdictInv` and `PendingInv` say
of every verdict in the file, in a batch or about to be written that it is
founded: given by the judge, or free. `CoverInv` says that a pre-warm without a
limit and without a failure has every pair in the file, in its batch, among those
to write or still to ask, and `WarmedInv` keeps what earlier ones covered.
`ReportHonest`, an equation between counters and the sizes of these sets, is
inductive with them.

### Only model-checked

* All liveness (`PendingResolved`, `EpisodeEnds`, `Answered`, `BatchesEnd`,
  `DriverEnds`, `StageEnds`, `RunsEnd`): fairness is out of the prover's reach.
* `ScoresTrue`: `EpisodeMetrics` finds augmenting paths with a recursive
  operator, for which the prover has no backend.
* `FitRecovers`, the part of `ToolsHonest` about calibrations, and what the folds
  of `CalibrationTrial` compute for every input: an induction over data. The
  argument by a least counterexample carries it for `BoundarySolver`,
  `FrameSelection`, `ModuleRows` and the lemmas of `FrameCacheProofs`; it has not
  been tried here, nor on the guess `Greedy` of `AlignmentScore`.
* `FullCovered` is false.

## 5. Findings and known divergences

Each finding is a run, with the sentence that the code does not keep quoted in
`PROJECT.json`:

* `sweep_laundered`: the gate's fingerprint is taken from the flags and the model
  when the gate is written, while a prediction's provenance is only checked for
  the source. A flag edited while or after the repeats ran is stamped on a
  verdict that never covered it, and the full sweep starts.
* `servers_banner`: the wait for a server promises to last until it accepts
  requests, but it also ends on banners that are printed before the port is bound.
  The run then calls a port where nobody listens. `PortsShared` is what is left: a
  call fails only because a server stopped or announced itself too early.
* `judge_free`: equal labels match and a label without a word matches none, and no
  judge is to be asked. The pre-warm keeps to that. `JudgeMatcher` asks when the
  pair is not in the file, and keeps a "no" on equal labels for ever.
  `VerdictsTrue` therefore counts the word of a judge on such a pair as founded,
  and claims only of a pre-warm that it does not ask.

Known divergences are behaviours the models show when the named bound or
constant is changed, and which the passing runs exclude:

1. `SyncWindow = TRUE` with power loss: recovery trusts a journal that was
   renamed but not synced. A process killed between lines 48 and 49 of
   `transaction.py` while a commit ends leaves a journal that reads `committed`;
   the next run removes the backups; after a power failure the disk may still say
   `committing`, with no originals (`Recoverable` fails).
2. `cli.py` 597: the tag is re-read and then deleted by name, so that a publisher
   who moves it in between loses their tag. The model has the race (`Overtaken`)
   and `EndsClean` and `TagsSafe` except that tag.
3. `EmitPlan = FALSE` with interjections on and validation not skipped: the
   structural check demands plan rows nobody may write, and the run is refused.
4. `SharedStaging = TRUE`: two datasets with one `--staging_dir` publish each
   other's rows; the lock is per dataset, the files are named by episode only
   (`RunsApart` fails).
5. The solver may put two boundaries on one grid point, or the first on the start
   of the episode; the order check then drops a label that the solver has placed.
   `LabelsKept` (part of `SpansKept`) does not claim otherwise.
6. The fraction of placed labels is checked before labels are lost to clamping
   and snapping, so supplied labels may be published below it.
7. An alignment clip of unevenly spaced frames is shown at an even rate, so that
   a time read off it is not that of the frame; `TimesTrue` excludes it.
8. `launched` replicas of which a later one fails to start are not all stopped;
   `RunsSound` excludes a launch that failed half way.
9. The study's driver scores spans of a changed calibration after a kill between
   a job's record and the second check of the digest; `FitsSound` (part of
   `StudySound`) requires a fault for it.
10. The number of samples of an episode may be one less than the steps that fit
   when the quotient of two floats is rounded (0.3 / 0.1), so that the last step is
   not sampled; `TimesAgree` allows for it as for any rest.

## 6. Not modelled

* Remote jobs (`jobs.py`): one command line is built and submitted.
* Configuration: declarations and range checks; options that steer control are
  constants or choices of the modules.
* Prompt templates, answers as text, drawing and video encoding: data the models
  do not distinguish. Requests carry what is shown and how times are labelled.
* The motion signal and statistics in floating point (bootstrap, intervals,
  significance of a gate): a free choice of their result.
* Reports, tables, plots and dataset preparation under `evaluation/`: sequential
  programs that read files and write one.
* The dataset card and the publication manifest, except that building and
  checking them may fail between the guarded calls.
* The per-shard lock below the run lock, which is never contended while the run
  lock is held; path-safety checks of the transaction.

## 7. Plan

Done: all modules above. What would come next, in this order:

1. A composition of `BatchRunner` with `HubPublish`, whose push is one step
   today; the reporting stages of `run_all.sh`.
2. Proofs about the metrics and the fits of offsets (`ScoresTrue`, `FitRecovers`),
   with definitions the prover can reason about.
