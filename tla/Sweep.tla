------------------------------- MODULE Sweep --------------------------------
(***************************************************************************)
(* evaluation/scripts/run_all.sh: the stages of the two studies, and the     *)
(* leased replicas on which their jobs run.                                  *)
(*                                                                           *)
(* The generation study repeats one pair of arms per cell (falsify), decides *)
(* the C1 gate of the cell, and spends GPU time on the full sweep only under *)
(* a gate that describes it. The alignment study fits a calibration per      *)
(* component (calibrate) and then runs its arms (align-full). Stages are run *)
(* one after the other by an operator who edits the tools' source, the arms' *)
(* flags and the model between and during them; jobs fail, and a stage may   *)
(* be interrupted anywhere and run again.                                    *)
(*                                                                           *)
(* A job is [of, arm, n]: its cell or component, its arm, its repeat.        *)
(***************************************************************************)
EXTENDS C1Gate, Sequences, SequencesExt

CONSTANTS
  Setups,       \* the studies, replicas and E1_REPEATS that are used: records
                \* study, ports, repeats
  Cells,        \* cells of the factorial
  Primary,      \* the cell whose gate the report quotes
  Components,   \* components of the alignment study
  Edited,       \* bound: the cells and arms whose flags are edited
  MaxStages,    \* bound: stages that are run
  MaxEdits,     \* bound: edits of source, flags and model
  MaxFaults     \* bound: jobs that fail, and interruptions

ASSUME SetupAssumption ==
  \A s \in Setups :
    /\ s.study \in {"generation", "alignment"} /\ s.repeats \in Nat
    /\ s.ports \in Seq(Nat) /\ IsInjective(s.ports)

ASSUME NamesAssumption ==
  /\ IsFiniteSet(Cells) /\ IsFiniteSet(Components) /\ Cells \cap Components = {}
  /\ Primary \in Cells

ASSUME BoundsAssumption == MaxStages \in Nat /\ MaxEdits \in Nat /\ MaxFaults \in Nat

VARIABLES
  study,     \* the study that is run: "generation" or "alignment"
  ports,     \* the replicas' ports, in the order in which they were started
  repeats,   \* E1_REPEATS
  stage,     \* the stage that runs, [name, cell], or None
  pc,        \* where it is
  queue,     \* jobs not yet dispatched
  pool,      \* the FIFO of free replicas
  running,   \* jobs that hold a replica: [port, job, step, stamp]
  failed,    \* whether a job of the stage failed
  source,    \* the version of the two tools' source and prompts on disk
  flags,     \* the version of an arm's flags in the arms file
  model,     \* MODEL_ID
  pred,      \* the predictions on disk
  scores,    \* e1_scores.jsonl
  gates,     \* c1_gate__<cell>.json
  alias,     \* c1_gate.json
  fits,      \* per component: the files of its calibration
  calibrated,\* the calibrate stage has ended well
  todo,      \* analyse: the gates not yet decided again
  stages, edits, faults

Pair == {"baseline", "defaults"}
AlignArms == {"plain", "calibrated"}

RunJobs ==
  IF study = "generation" THEN [of : Cells, arm : Pair, n : 0..repeats]
                          ELSE [of : Components, arm : AlignArms, n : {0}]

(* Whose flags a job runs with.                                              *)
Scope(job) == IF job.of \in Cells THEN job.of ELSE job.arm
Scopes == {Scope(j) : j \in RunJobs}

vars == << study, ports, repeats, stage, pc, queue, pool, running, failed, source, flags,
           model, pred, scores, gates, alias, fits, calibrated, todo, stages, edits, faults >>
dispatch == << queue, pool, running, failed >>
disk == << pred, scores, gates, alias, fits >>
config == << source, flags, model >>
given == << study, ports, repeats >>
counters == << stages, edits, faults >>

StageNames == {"falsify", "pilot", "full", "calibrate", "align-full", "analyse"}

(* No version, no stage and no file is None.                                          *)
ASSUME NoneAssumption ==
  LET Versions == 1..2
      Rows == [regime : Versions, lost : BOOLEAN]
  IN  /\ None \notin Versions /\ None \notin Rows /\ None \notin [name : StageNames, cell : Cells]
      /\ None \notin [cal : Rows, regime : Versions]

NoFit == [cohort |-> "absent", regime |-> None, rows |-> None, cal |-> None, gate |-> None]

(* Predictions of an earlier version of the harness carry no source stamp.   *)
Legacy(job) ==
  [print |-> [source |-> None, flags |-> 0, model |-> 1, cal |-> None], ok |-> TRUE]

Init ==
  /\ \E setup \in Setups :
       study = setup.study /\ ports = setup.ports /\ repeats = setup.repeats
  /\ stage = None /\ pc = "idle" /\ queue = << >> /\ pool = << >> /\ running = {}
  /\ failed = FALSE /\ source = 1 /\ model = 1
  /\ flags = [s \in Scopes |-> 1]
  /\ \E old \in {{}} \cup {{j} : j \in {k \in RunJobs : k.n = repeats /\ k.of = Primary /\ k.arm = "defaults"}} :
       pred = [j \in RunJobs |-> IF j \in old THEN Legacy(j) ELSE None]
  /\ scores = None /\ gates = [c \in Cells |-> None] /\ alias = None
  /\ fits = [c \in Components |-> NoFit]
  /\ calibrated = FALSE /\ todo = {}
  /\ stages = 0 /\ edits = 0 /\ faults = 0

-----------------------------------------------------------------------------
(* The dispatcher. A port in the FIFO is a lease: a job takes one before it  *)
(* starts and returns it when it ends, however it ends.                      *)

OpenPool(jobs) ==
  /\ queue' = jobs /\ pool' = ports /\ running' = {} /\ failed' = FALSE
  /\ pc' = "dispatch"

Leased == Head(pool)

Lease ==
  /\ pc = "dispatch" /\ queue # << >> /\ pool # << >>
  /\ running' = running \cup
       {[port |-> Leased, job |-> Head(queue), step |-> "check", stamp |-> None]}
  /\ pool' = Tail(pool) /\ queue' = Tail(queue)
  /\ UNCHANGED << stage, pc, failed, calibrated, todo >>
  /\ UNCHANGED << disk, config, given, counters >>

(* A job goes on to a step.                                                  *)
Goes(r, step, stamp) ==
  /\ running' = (running \ {r}) \cup {[r EXCEPT !.step = step, !.stamp = stamp]}
  /\ UNCHANGED << stage, pc, queue, pool, failed, calibrated, todo >>

(* Only a job that ended well gives its replica back.                        *)
BugReturned(r, bad) == IF bad THEN pool ELSE Append(pool, r.port)

Returned(r, bad) == Append(pool, r.port)

Ends(r, bad) ==
  /\ running' = running \ {r}
  /\ pool' = Returned(r, bad)
  /\ failed' = (failed \/ bad)
  /\ UNCHANGED << stage, pc, queue, calibrated, todo >>

(* A job ends badly before it writes anything more: its process dies, or a   *)
(* command that it runs fails.                                               *)
Crash(r) ==
  /\ faults < MaxFaults /\ faults' = faults + 1
  /\ Ends(r, TRUE)
  /\ UNCHANGED << disk, config, given, stages, edits >>

-----------------------------------------------------------------------------
(* run_arm.py.                                                               *)

Calibration(job) == IF job.arm = "calibrated" THEN fits[job.of].cal ELSE None

(* The provenance of a prediction, and the key of the cache.                 *)
Provenance(r) ==
  [source |-> source, flags |-> flags[Scope(r.job)], model |-> model, cal |-> Calibration(r.job)]

Cached(r) ==
  /\ pred[r.job] # None
  /\ pred[r.job].ok /\ pred[r.job].print = Provenance(r)

IsRun == stage # None /\ stage.name # "calibrate"

Skip(r) ==
  /\ IsRun /\ r.step = "check" /\ Cached(r)
  /\ Ends(r, FALSE)
  /\ UNCHANGED << disk, config, given, counters >>

Fingerprint(r) ==
  /\ IsRun /\ r.step = "check" /\ ~Cached(r)
  /\ Goes(r, "infer", Provenance(r))
  /\ UNCHANGED << disk, config, given, counters >>

(* The tool is started and the record is written, with its result or with    *)
(* its failure.                                                              *)
Infer(r) ==
  /\ IsRun /\ r.step = "infer"
  /\ \E ok \in BOOLEAN :
       /\ ok \/ faults < MaxFaults
       /\ faults' = IF ok THEN faults ELSE faults + 1
       /\ pred' = [pred EXCEPT ![r.job] = [print |-> r.stamp, ok |-> ok]]
       /\ Ends(r, ~ok)
  /\ UNCHANGED << scores, gates, alias, fits, config, given, stages, edits >>

-----------------------------------------------------------------------------
(* fit_one_component: one calibration of a component under the arm's flags.  *)

IsFit == stage # None /\ stage.name = "calibrate"
Fit(r) == fits[r.job.of]
FitSet(r, fit) == fits' = [fits EXCEPT ![r.job.of] = fit]
FitOnly == UNCHANGED << pred, scores, gates, alias, config, given, stages, edits >>

(* The calibration alone is enough.                                          *)
BugFitCached(r) == Fit(r).cal # None

(* All four files are there; what they say is not read.                      *)
FitCached(r) ==
  Fit(r).cal # None /\ Fit(r).gate # None /\ Fit(r).cohort = "pinned" /\ Fit(r).regime # None

SkipFit(r) ==
  /\ IsFit /\ r.step = "check" /\ FitCached(r)
  /\ Ends(r, FALSE) /\ FitOnly /\ UNCHANGED << fits, faults >>

(* align_pin_cohort: the seed episodes that share the most frequent labels.  *)
PinCohort(r) ==
  /\ IsFit /\ r.step = "check" /\ ~FitCached(r)
  /\ FitSet(r, [Fit(r) EXCEPT !.cohort = "pinned"]) /\ Goes(r, "flags", None)
  /\ FitOnly /\ UNCHANGED faults

(* align_fit_flags: the regime is derived from the arm's flags.              *)
FitFlags(r) ==
  /\ IsFit /\ r.step = "flags"
  /\ FitSet(r, [Fit(r) EXCEPT !.regime = flags["calibrated"]])
  /\ Goes(r, "batch", None) /\ FitOnly /\ UNCHANGED faults

(* lerobot-align-eval-batch: a row for each episode that could be aligned;   *)
(* some of the cohort may be lost. A failure, or a fallback to contact sheets *)
(* in a video fit, ends the fit: see Crash.                                  *)
Batch(r) ==
  /\ IsFit /\ r.step = "batch"
  /\ \E lost \in BOOLEAN :
       /\ lost => faults < MaxFaults
       /\ faults' = IF lost THEN faults + 1 ELSE faults
       /\ FitSet(r, [Fit(r) EXCEPT !.rows = [regime |-> Fit(r).regime, lost |-> lost]])
  /\ Goes(r, "fit", None) /\ FitOnly

(* lerobot-align-fit --force: its own gate is recorded, not obeyed.          *)
WriteFit(r) ==
  /\ IsFit /\ r.step = "fit"
  /\ FitSet(r, [Fit(r) EXCEPT !.cal = Fit(r).rows]) /\ Goes(r, "gate", None)
  /\ FitOnly /\ UNCHANGED faults

(* The checks of align_record_gate on the calibration that was written.      *)
Defensible(r) == ~Fit(r).cal.lost

RecordGate(r) ==
  /\ IsFit /\ r.step = "gate" /\ Defensible(r)
  /\ FitSet(r, [Fit(r) EXCEPT !.gate = [cal |-> Fit(r).cal, regime |-> Fit(r).regime]])
  /\ Ends(r, FALSE) /\ FitOnly /\ UNCHANGED faults

RefuseFit(r) ==
  /\ IsFit /\ r.step = "gate" /\ ~Defensible(r)
  /\ Ends(r, TRUE) /\ FitOnly /\ UNCHANGED << fits, faults >>

-----------------------------------------------------------------------------
(* The stages.                                                               *)

Now(cell) == Compute(source, flags[cell], model, cell)

(* falsify: every repeat of the pair, baseline and defaults in turn.         *)
FalsifyJobs(cell) ==
  [i \in 1..(2 * repeats) |->
     [of |-> cell, arm |-> IF i % 2 = 1 THEN "baseline" ELSE "defaults", n |-> (i + 1) \div 2]]

(* pilot takes the arms of the cell; full, those that ARM_FILTER selects,    *)
(* here the cell as well.                                                    *)
Selected(cell) == [of : {cell}, arm : Pair, n : {0}]

(* arms_matching: every selected arm once.                                   *)
SweepJobs(jobs) == SetToSeq({j \in jobs : j.n = 0})

Begin(name, cell) ==
  /\ stage = None /\ stages < MaxStages
  /\ stage' = [name |-> name, cell |-> cell] /\ stages' = stages + 1
  /\ UNCHANGED << todo, disk, config, given, edits, faults >>

Falsify(cell) ==
  /\ study = "generation" /\ Begin("falsify", cell)
  /\ OpenPool(FalsifyJobs(cell)) /\ UNCHANGED calibrated

Pilot ==
  /\ study = "generation" /\ Begin("pilot", Primary)
  /\ OpenPool(SweepJobs(Selected(Primary))) /\ UNCHANGED calibrated

(* require_c1_pass: a gate of this cell that passed and that describes the   *)
(* configuration about to run. Without it the stage ends before it began.    *)
C1Passed(cell) ==
  /\ gates[cell] # None
  /\ Diff(gates[cell].about, Now(cell)) = {}
  /\ gates[cell].gate = "PASS"

Full(cell) ==
  /\ study = "generation" /\ C1Passed(cell) /\ Begin("full", cell)
  /\ OpenPool(SweepJobs(Selected(cell))) /\ UNCHANGED calibrated

Calibrate ==
  /\ study = "alignment" /\ Begin("calibrate", Primary)
  /\ OpenPool(SetToSeq([of : Components, arm : {"calibrated"}, n : {0}]))
  /\ calibrated' = FALSE

(* require_alignment_inputs: the files exist.                                *)
InputsExist == \A c \in Components : fits[c].cal # None

AlignFull ==
  /\ study = "alignment" /\ InputsExist /\ Begin("align-full", Primary)
  /\ OpenPool(SweepJobs(RunJobs)) /\ UNCHANGED calibrated

(* The stage is over.                                                        *)
Over == stage' = None /\ pc' = "idle"
AtStep(name, step) == stage # None /\ stage.name = name /\ pc = step
Later == UNCHANGED << dispatch, config, given, counters >>

(* Every job was waited for. A failed job of a sweep is data; a failed fit   *)
(* fails its stage.                                                          *)
Waited ==
  /\ pc = "dispatch" /\ queue = << >> /\ running = {}
  /\ IF stage.name = "falsify" THEN pc' = "score" /\ UNCHANGED stage ELSE Over
  /\ calibrated' = (calibrated \/ (stage.name = "calibrate" /\ ~failed))
  /\ pool' = << >>
  /\ UNCHANGED << queue, running, failed, todo, disk, config, given, counters >>

Score ==
  /\ AtStep("falsify", "score")
  /\ scores' = ScoreRows(pred) /\ pc' = "gate"
  /\ UNCHANGED << stage, calibrated, todo, pred, gates, alias, fits >> /\ Later

(* c1_gate.py for one cell on the saved scores, for a model it is told. Its  *)
(* statistics are seeded: the same rows give the same verdict.               *)
Decided(cell, told) ==
  LET rows == E1Rows(scores, cell)
      same == gates[cell] # None /\ gates[cell].rows = rows
  IN {[gate |-> Gate(rows, v, source), verdict |-> v, rows |-> rows,
       about |-> Compute(source, flags[cell], told, cell)] :
        v \in IF same THEN {gates[cell].verdict} ELSE Statistical(rows)}

Written(cell, gate) == [gates EXCEPT ![cell] = gate]

(* A gate that does not pass ends the stage at once (set -e).                *)
DecideC1 ==
  /\ AtStep("falsify", "gate") /\ ~Undecided(E1Rows(scores, stage.cell))
  /\ \E gate \in Decided(stage.cell, model) :
       /\ gates' = Written(stage.cell, gate)
       /\ IF gate.gate = "PASS" THEN pc' = "alias" /\ UNCHANGED stage ELSE Over
  /\ UNCHANGED << calibrated, todo, pred, scores, alias, fits >> /\ Later

GateStops ==
  /\ AtStep("falsify", "gate") /\ Undecided(E1Rows(scores, stage.cell))
  /\ Over
  /\ UNCHANGED << calibrated, todo, disk >> /\ Later

(* The report quotes the gate of the primary cell.                           *)
Quoted(cell) == cell = Primary

CopyAlias ==
  /\ AtStep("falsify", "alias")
  /\ alias' = IF Quoted(stage.cell) THEN gates[stage.cell] ELSE alias
  /\ Over
  /\ UNCHANGED << calibrated, todo, pred, scores, gates, fits >> /\ Later

(* regenerate_reports.py: every gate is decided again on the saved scores,   *)
(* for the model it names.                                                   *)
Analyse ==
  /\ study = "generation" /\ alias # None
  /\ stage = None /\ stages < MaxStages
  /\ stage' = [name |-> "analyse", cell |-> Primary] /\ stages' = stages + 1
  /\ pc' = "regate" /\ todo' = {c \in Cells : gates[c] # None}
  /\ UNCHANGED << dispatch, calibrated, disk, config, given, edits, faults >>

Regate(cell) ==
  /\ AtStep("analyse", "regate") /\ cell \in todo
  /\ IF Undecided(E1Rows(scores, cell))
       THEN Over /\ todo' = {} /\ UNCHANGED << gates, alias >>
       ELSE \E gate \in Decided(cell, gates[cell].about.model) :
              /\ gates' = Written(cell, gate)
              /\ alias' = IF alias.about.cell = cell THEN gate ELSE alias
              /\ todo' = todo \ {cell}
              /\ UNCHANGED << stage, pc >>
  /\ UNCHANGED << calibrated, pred, scores, fits >> /\ Later

Analysed ==
  /\ AtStep("analyse", "regate") /\ todo = {} /\ Over
  /\ UNCHANGED << calibrated, todo, disk >> /\ Later

-----------------------------------------------------------------------------
(* The operator.                                                             *)

Interrupt ==
  /\ stage # None /\ faults < MaxFaults /\ faults' = faults + 1
  /\ Over /\ queue' = << >> /\ pool' = << >> /\ running' = {} /\ failed' = FALSE /\ todo' = {}
  /\ UNCHANGED << calibrated, disk, config, given, stages, edits >>

Other(version) == 3 - version

Edit ==
  /\ edits < MaxEdits /\ edits' = edits + 1
  /\ \/ source' = Other(source) /\ UNCHANGED << flags, model >>
     \/ \E s \in Edited \cap Scopes :
          flags' = [flags EXCEPT ![s] = Other(@)] /\ UNCHANGED << source, model >>
     \/ stage = None /\ model' = Other(model) /\ UNCHANGED << source, flags >>
  /\ UNCHANGED << stage, pc, dispatch, calibrated, todo, disk, given, stages, faults >>

JobStep(r) ==
  \/ Skip(r) \/ Fingerprint(r) \/ Infer(r)
  \/ SkipFit(r) \/ PinCohort(r) \/ FitFlags(r) \/ Batch(r) \/ WriteFit(r)
  \/ RecordGate(r) \/ RefuseFit(r)

StageStep ==
  \/ Lease \/ Waited \/ Score \/ DecideC1 \/ GateStops \/ CopyAlias \/ Analysed
  \/ \E c \in Cells : Regate(c)

Work == StageStep \/ \E r \in running : JobStep(r)

Operator ==
  \/ \E c \in Cells : Falsify(c) \/ Full(c)
  \/ Pilot \/ Calibrate \/ AlignFull \/ Analyse
  \/ Interrupt \/ Edit
  \/ \E r \in running : Crash(r)

Next == Work \/ Operator

(* Every process of a stage has a deadline and is scheduled by the system.   *)
Spec == Init /\ [][Next]_vars /\ WF_vars(Work)

-----------------------------------------------------------------------------
Held == {r.port : r \in running}

(* Types; and a replica serves one job at a time: while jobs are dispatched  *)
(* every replica is either free, once, or held by one job.                   *)
TypeOK ==
  /\ \A r, s \in running : r.port = s.port => r = s
  /\ pc = "dispatch" => /\ Range(pool) \cap Held = {}
                        /\ Range(pool) \cup Held = Range(ports)
                        /\ Len(pool) = Cardinality(Range(pool))
  /\ DOMAIN pred = RunJobs
  /\ \A j \in RunJobs : pred[j] # None => pred[j].ok \in BOOLEAN
  /\ \A c \in Cells : gates[c] # None => gates[c].gate \in {"PASS", "BLOCK"}
  /\ \A c \in Components : DOMAIN fits[c] = DOMAIN NoFit
  /\ stage = None <=> pc = "idle"
  /\ todo \subseteq Cells /\ calibrated \in BOOLEAN /\ failed \in BOOLEAN
  /\ stages \in 0..MaxStages /\ edits \in 0..MaxEdits /\ faults \in 0..MaxFaults

(* The full sweep starts only if every row that its gate was decided from is *)
(* a repeat of this cell's pair, came out well, and is stamped with the      *)
(* source on disk now: across edits, failed and interrupted falsifications,  *)
(* predictions of an older harness and gates that were decided again.        *)
SourceCovered ==
  [][\A c \in Cells : Full(c) =>
       \A row \in gates[c].rows :
         row.job.of = c /\ row.job.n > 0 /\ row.ok /\ row.print.source = source]_vars

(* What gate_fingerprint.py promises of every flag and of the model, too: a  *)
(* verdict does not authorise a sweep that it never covered.                 *)
FullCovered ==
  [][\A c \in Cells : Full(c) =>
       \A row \in gates[c].rows : row.print.flags = flags[c] /\ row.print.model = model]_vars

(* Certifying a cell leaves the gate of every other cell alone, and a gate   *)
(* is about its own cell.                                                    *)
CellsApart ==
  \A c \in Cells : gates[c] # None =>
    gates[c].about.cell = c /\ \A row \in gates[c].rows : row.job.of = c

(* The report quotes the gate of the primary cell and no other.              *)
OneQuoted == alias # None => alias.about.cell = Primary

FitWhole(c) ==
  /\ fits[c].cohort = "pinned" /\ fits[c].cal # None /\ ~fits[c].cal.lost
  /\ fits[c].regime = fits[c].cal.regime
  /\ fits[c].gate # None
  /\ fits[c].gate.cal = fits[c].cal /\ fits[c].gate.regime = fits[c].regime

(* A resumed stage does not redo what was done: a good prediction is only    *)
(* ever replaced by one that was made under another configuration, and a     *)
(* calibration that was recorded with its gate stays as it is.               *)
NotRedone ==
  [][/\ \A j \in RunJobs :
          pred[j] # None /\ pred[j].ok /\ pred'[j] # pred[j] =>
            pred'[j].print # pred[j].print
     /\ \A c \in Components : FitWhole(c) => fits'[c] = fits[c]]_vars

(* When the calibrate stage has ended well, every component is calibrated,   *)
(* on all of its cohort, and its gate is the verdict on that calibration,    *)
(* under the regime recorded beside it.                                      *)
AllCalibrated == calibrated => \A c \in Components : FitWhole(c)

(* What the stages leave on disk says what it is about: each gate is of its  *)
(* cell, the quoted one of the primary cell, and a calibration that is there *)
(* is whole.                                                                 *)
RecordsHonest == TypeOK /\ CellsApart /\ OneQuoted /\ AllCalibrated

(* What a resumed stage takes from disk is fit for use, and what is fit for  *)
(* use is not made again.                                                    *)
ResumesSafely == SourceCovered /\ NotRedone

(* Every stage ends: no lease is lost, and no job waits for ever for one.    *)
StageEnds == stage # None ~> stage = None
=============================================================================
