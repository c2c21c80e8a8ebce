----------------------------- MODULE SweepProofs -----------------------------
(***************************************************************************)
(* The stages of run_all.sh for any cells, components, replicas and repeats *)
(* and any number of stages, edits and faults: what the stages leave on     *)
(* disk says what it is about, and a resumed stage relies on nothing else.  *)
(***************************************************************************)
EXTENDS Sweep, SequenceTheorems, FunctionTheorems, FiniteSetTheorems, TLAPS

Versions == 1..2
Rows == [regime : Versions, lost : BOOLEAN]
Sweeps == {"falsify", "pilot", "full", "align-full"}
FitSteps == {"flags", "batch", "fit", "gate"}

-----------------------------------------------------------------------------
(* The inductive invariant. *)

GivenInv ==
  /\ study \in {"generation", "alignment"} /\ repeats \in Nat
  /\ ports \in Seq(Nat) /\ IsInjective(ports)

ConfigInv ==
  /\ source \in Versions /\ model \in Versions /\ flags \in [Scopes -> Versions]
  /\ stages \in 0..MaxStages /\ edits \in 0..MaxEdits /\ faults \in 0..MaxFaults

(* Which stage may be at which place. *)
StageInv ==
  /\ stage = None <=> pc = "idle"
  /\ pc \in {"idle", "dispatch", "score", "gate", "alias", "regate"}
  /\ stage # None => stage.cell \in Cells
  /\ pc = "dispatch" => stage.name \in Sweeps \cup {"calibrate"}
  /\ pc \in {"score", "gate", "alias"} => stage.name = "falsify"
  /\ pc = "regate" => stage.name = "analyse"
  /\ IsFit => study = "alignment" /\ ~calibrated
  /\ todo \subseteq Cells /\ calibrated \in BOOLEAN /\ failed \in BOOLEAN

(* A replica is leased or free, and a job is queued or running, once.       *)
QueueInv ==
  /\ queue \in Seq(RunJobs) /\ IsInjective(queue)
  /\ \A r \in running : r.job \notin Range(queue)
  /\ \A r, s \in running : r.port = s.port \/ r.job = s.job => r = s
  /\ pc # "dispatch" => running = {} /\ queue = << >>

PoolInv ==
  /\ pool \in Seq(Nat) /\ IsInjective(pool)
  /\ pc = "dispatch" => Range(pool) \cap Held = {} /\ Range(pool) \cup Held = Range(ports)

(* A calibration whose gate was recorded is whole. *)
FitInv(c) ==
  /\ fits[c] \in [cohort : {"absent", "pinned"}, regime : Versions \cup {None}, rows : Rows \cup {None},
                  cal : Rows \cup {None},
                  gate : [cal : Rows, regime : Versions] \cup {None}]
  /\ fits[c].gate # None => FitWhole(c)

(* What is on disk when a job is at a step. *)
JobInv(r) ==
  /\ r \in [port : Nat, job : RunJobs, step : {"check", "infer"} \cup FitSteps,
            stamp : {r.stamp}]
  /\ r.step = "infer" =>
       IsRun /\ ~ (pred[r.job] # None /\ pred[r.job].ok /\ pred[r.job].print = r.stamp)
  /\ IsFit => r.job.of \in Components /\ r.job.arm = "calibrated"
  /\ r.step \in FitSteps => IsFit /\ Fit(r).cohort = "pinned" /\ Fit(r).gate = None
  /\ r.step \in FitSteps \ {"flags"} => Fit(r).regime # None
  /\ r.step = "fit" => Fit(r).rows # None /\ Fit(r).rows.regime = Fit(r).regime
  /\ r.step = "gate" => Fit(r).cal # None /\ Fit(r).cal.regime = Fit(r).regime

QueuedInv == IsFit => \A j \in Range(queue) : j.of \in Components /\ j.arm = "calibrated"

(* Every component of a calibrate stage without failures is calibrated,     *)
(* being calibrated, or still queued.                                       *)
ProgressInv ==
  IsFit /\ ~failed =>
    \A c \in Components :
      \/ FitWhole(c)
      \/ \E r \in running : r.job.of = c
      \/ \E j \in Range(queue) : j.of = c

(* The gates are decided again only when there is one that is quoted.       *)
AliasInv == OneQuoted /\ (pc = "regate" => alias.about.cell = Primary)

(* What a gate says, and of which rows it says it. *)
Covered(gate, c) ==
  /\ gate.gate \in {"PASS", "BLOCK"} /\ gate.about.cell = c
  /\ \A row \in gate.rows : row.job.of = c /\ row.job.n > 0
  /\ gate.verdict = "EQUIVALENT" => \A row \in gate.rows : row.ok
  /\ gate.gate = "PASS" =>
       /\ gate.verdict = "EQUIVALENT"
       /\ \A row \in gate.rows : row.print.source = gate.about.source

GateInv(c) == gates[c] # None => Covered(gates[c], c)

DiskInv ==
  /\ DOMAIN pred = RunJobs /\ \A j \in RunJobs : pred[j] # None => pred[j].ok \in BOOLEAN
  /\ DOMAIN gates = Cells /\ DOMAIN fits = Components
  /\ \A c \in Cells : GateInv(c)
  /\ \A c \in Components : FitInv(c)

DispatchInv == StageInv /\ QueueInv /\ PoolInv /\ QueuedInv

RestInv ==
  /\ DispatchInv /\ DiskInv /\ AliasInv /\ AllCalibrated /\ ProgressInv
  /\ \A r \in running : JobInv(r)

IInv == GivenInv /\ ConfigInv /\ RestInv

-----------------------------------------------------------------------------
(* Sequences without repetition. *)

LEMMA EnumerationOf ==
  ASSUME NEW S, IsFiniteSet(S)
  PROVE  SetToSeq(S) \in Seq(S) /\ IsInjective(SetToSeq(S)) /\ Range(SetToSeq(S)) = S
<1> DEFINE n == Cardinality(S)
<1>1. n \in Nat /\ ExistsBijection(1..n, S)
  BY FS_CardinalityType
<1>2. \E f \in [1..n -> S] : IsInjective(f)
  BY <1>1 DEF ExistsBijection, Bijection, Injection, IsInjective
<1>3. SetToSeq(S) \in [1..n -> S] /\ IsInjective(SetToSeq(S))
  BY <1>2 DEF SetToSeq
<1> DEFINE f == SetToSeq(S)
<1> HIDE DEF f, n
<1>4. f \in Injection(1..n, S)
  BY <1>3 DEF Injection, IsInjective, f
<1>5. IsFiniteSet(1..n) /\ Cardinality(1..n) = n
  BY <1>1, FS_Interval
<1>6. f \in Surjection(1..n, S)
  BY <1>4, <1>5, FS_Injection DEF n
<1>7. Range(f) = S
  BY <1>6 DEF Surjection, Range
<1>8. f \in Seq(S)
  BY <1>1, <1>3 DEF f
<1>9. QED
  BY <1>3, <1>7, <1>8 DEF f

LEMMA TailOnce ==
  ASSUME NEW S, NEW s \in Seq(S), IsInjective(s), s # << >>
  PROVE  /\ Tail(s) \in Seq(S) /\ IsInjective(Tail(s)) /\ Head(s) \in S
         /\ Head(s) \notin Range(Tail(s)) /\ Range(s) = {Head(s)} \cup Range(Tail(s))
<1> DEFINE t == Tail(s)
<1>1. /\ t \in Seq(S) /\ Len(s) \in Nat \ {0} /\ Len(t) = Len(s) - 1
      /\ DOMAIN s = 1..Len(s) /\ DOMAIN t = 1..Len(s) - 1
      /\ Head(s) = s[1] /\ Head(s) \in S
  BY HeadTailProperties
<1>2. \A i \in 1..Len(s) - 1 : t[i] = s[i + 1] /\ i + 1 \in 1..Len(s) /\ i + 1 # 1
  BY <1>1, HeadTailProperties
<1> HIDE DEF t
<1>3. IsInjective(t)
  <2>1. ASSUME NEW i \in 1..Len(s) - 1, NEW j \in 1..Len(s) - 1, t[i] = t[j]
        PROVE  i = j
    <3>1. i + 1 = j + 1
      BY <2>1, <1>1, <1>2 DEF IsInjective
    <3>2. QED
      BY <3>1
  <2>2. QED
    BY <2>1, <1>1 DEF IsInjective
<1>4. s[1] \notin Range(t)
  BY <1>1, <1>2 DEF Range, IsInjective
<1>5. Range(s) = {s[1]} \cup Range(t)
  <2>1. ASSUME NEW i \in 1..Len(s) PROVE s[i] \in {s[1]} \cup Range(t)
    <3>1. CASE i = 1
      BY <3>1
    <3>2. CASE i # 1
      <4>1. i - 1 \in 1..Len(s) - 1 /\ i = (i - 1) + 1
        BY <3>2, <1>1
      <4>2. t[i - 1] = s[i]
        BY <4>1, <1>2
      <4>3. QED
        BY <4>1, <4>2, <1>1 DEF Range
    <3>3. QED
      BY <3>1, <3>2
  <2>2. Range(t) \subseteq Range(s) /\ s[1] \in Range(s)
    <3>1. \A x \in Range(t) : \E i \in 1..Len(s) - 1 : x = s[i + 1]
      BY <1>1, <1>2 DEF Range
    <3>2. \A i \in 1..Len(s) : s[i] \in Range(s)
      BY <1>1 DEF Range
    <3>3. 1 \in 1..Len(s)
      BY <1>1
    <3>4. QED
      BY <3>1, <3>2, <3>3, <1>2
  <2>3. QED
    BY <2>1, <2>2, <1>1 DEF Range
<1>6. QED
  BY <1>1, <1>3, <1>4, <1>5 DEF t

LEMMA AppendOnce ==
  ASSUME NEW S, NEW s \in Seq(S), IsInjective(s), NEW e \in S, e \notin Range(s)
  PROVE  /\ Append(s, e) \in Seq(S) /\ IsInjective(Append(s, e))
         /\ Range(Append(s, e)) = Range(s) \cup {e}
<1> DEFINE a == Append(s, e)
<1>1. /\ a \in Seq(S) /\ Len(s) \in Nat /\ DOMAIN s = 1..Len(s) /\ DOMAIN a = 1..Len(s) + 1
      /\ \A i \in 1..Len(s) : a[i] = s[i]
      /\ a[Len(s) + 1] = e
  BY AppendProperties
<1> HIDE DEF a
<1>2. \A i \in 1..Len(s) + 1 : i \in 1..Len(s) \/ i = Len(s) + 1
  BY <1>1
<1>3. \A i \in 1..Len(s) : s[i] # e
  BY <1>1 DEF Range
<1>4. IsInjective(a)
  <2>1. ASSUME NEW i \in 1..Len(s) + 1, NEW j \in 1..Len(s) + 1, a[i] = a[j]
        PROVE  i = j
    BY <2>1, <1>1, <1>2, <1>3 DEF IsInjective
  <2>2. QED
    BY <2>1, <1>1 DEF IsInjective
<1>5. Range(a) = Range(s) \cup {e}
  <2>1. 1..Len(s) \subseteq 1..Len(s) + 1 /\ Len(s) + 1 \in 1..Len(s) + 1
    BY <1>1
  <2>2. QED
    BY <2>1, <1>1, <1>2 DEF Range
<1>6. QED
  BY <1>1, <1>4, <1>5 DEF a

(* The number of free replicas, when none is in the pool twice.             *)
LEMMA CardinalityOfRange ==
  ASSUME NEW S, NEW s \in Seq(S), IsInjective(s)
  PROVE  Len(s) = Cardinality(Range(s))
<1>1. Len(s) \in Nat /\ DOMAIN s = 1..Len(s)
  OBVIOUS
<1>2. s \in Bijection(1..Len(s), Range(s))
  <2>1. s \in [1..Len(s) -> Range(s)]
    BY <1>1 DEF Range
  <2>2. s \in Injection(1..Len(s), Range(s))
    BY <2>1, <1>1 DEF Injection, IsInjective
  <2>3. s \in Surjection(1..Len(s), Range(s))
    BY <2>1, <1>1 DEF Surjection, Range
  <2>4. QED
    BY <2>2, <2>3 DEF Bijection
<1>3. IsFiniteSet(1..Len(s)) /\ Cardinality(1..Len(s)) = Len(s)
  BY <1>1, FS_Interval
<1>4. QED
  BY <1>2, <1>3, FS_Bijection DEF ExistsBijection

-----------------------------------------------------------------------------
(* The jobs of a stage. *)

LEMMA JobsFinite ==
  ASSUME NEW S, IsFiniteSet(S), NEW T, IsFiniteSet(T)
  PROVE  IsFiniteSet([of : S, arm : T, n : {0}])
<1> DEFINE R == [of : S, arm : T, n : {0}]
           f == [p \in S \X T |-> [of |-> p[1], arm |-> p[2], n |-> 0]]
<1>1. IsFiniteSet(S \X T)
  BY FS_Product
<1>2. f \in [S \X T -> R]
  OBVIOUS
<1>3. ASSUME NEW r \in R PROVE \E p \in S \X T : f[p] = r
  <2>1. << r.of, r.arm >> \in S \X T
    OBVIOUS
  <2>2. f[<< r.of, r.arm >>] = r
    BY <2>1
  <2>3. QED
    BY <2>1, <2>2
<1>4. f \in Surjection(S \X T, R)
  BY <1>2, <1>3 DEF Surjection
<1>5. QED
  BY <1>1, <1>4, FS_Surjection

LEMMA PairsFinite ==
  IsFiniteSet(Pair) /\ IsFiniteSet(AlignArms) /\ IsFiniteSet({"calibrated"})
<1>1. IsFiniteSet({"baseline"}) /\ IsFiniteSet({"plain"}) /\ IsFiniteSet({"calibrated"})
  BY FS_Singleton
<1>2. Pair = {"baseline"} \cup {"defaults"} /\ AlignArms = {"plain"} \cup {"calibrated"}
  BY DEF Pair, AlignArms
<1>3. QED
  BY <1>1, <1>2, FS_AddElement

(* The jobs of a stage are jobs of the study, each of them once.            *)
Jobs(jobs) == jobs \in Seq(RunJobs) /\ IsInjective(jobs)

LEMMA FalsifyJobsOnce ==
  ASSUME GivenInv, study = "generation", NEW cell \in Cells
  PROVE  Jobs(FalsifyJobs(cell))
<1> DEFINE m == 2 * repeats
           arm(i) == IF i % 2 = 1 THEN "baseline" ELSE "defaults"
           job(i) == [of |-> cell, arm |-> arm(i), n |-> (i + 1) \div 2]
<1>1. m \in Nat /\ repeats \in Nat /\ m = 2 * repeats
  BY DEF GivenInv
<1>2. ASSUME NEW i \in Int PROVE (i % 2 = 0 \/ i % 2 = 1) /\ i + (i % 2) = 2 * ((i + 1) \div 2)
  OBVIOUS
<1>3. ASSUME NEW i \in 1..m PROVE (i + 1) \div 2 \in 0..repeats
  <2>1. i \in Int /\ 1 <= i /\ i <= 2 * repeats
    BY <1>1
  <2>2. QED
    BY <2>1, <1>1
<1>4. ASSUME NEW i \in 1..m PROVE job(i) \in RunJobs
  <2>1. job(i) \in [of : Cells, arm : Pair, n : 0..repeats]
    BY <1>3 DEF Pair
  <2>2. QED
    BY <2>1 DEF RunJobs
<1>5. ASSUME NEW i \in 1..m, NEW j \in 1..m, job(i) = job(j)
      PROVE  i = j
  <2>1. arm(i) = arm(j) /\ (i + 1) \div 2 = (j + 1) \div 2
    BY <1>5
  <2>2. i \in Int /\ j \in Int
    BY <1>1
  <2>3. i % 2 = j % 2
    BY <2>1, <2>2, <1>2
  <2>4. QED
    BY <2>1, <2>2, <2>3, <1>2
<1>6. FalsifyJobs(cell) = [i \in 1..m |-> job(i)]
  BY DEF FalsifyJobs
<1> HIDE DEF m, job
<1>7. QED
  BY <1>1, <1>4, <1>5, <1>6 DEF Jobs, IsInjective

LEMMA EnumeratedJobs ==
  ASSUME NEW S \in SUBSET RunJobs, IsFiniteSet(S)
  PROVE  Jobs(SetToSeq(S)) /\ Range(SetToSeq(S)) = S
<1>1. SetToSeq(S) \in Seq(S) /\ IsInjective(SetToSeq(S)) /\ Range(SetToSeq(S)) = S
  BY EnumerationOf
<1>2. SetToSeq(S) \in Seq(RunJobs)
  BY <1>1, SeqMonotonic
<1>3. QED
  BY <1>1, <1>2 DEF Jobs

LEMMA SelectedJobsOnce ==
  ASSUME GivenInv, study = "generation", NEW cell \in Cells
  PROVE  Jobs(SweepJobs(Selected(cell)))
<1> DEFINE S == {j \in Selected(cell) : j.n = 0}
<1>1. S \in SUBSET RunJobs
  BY DEF GivenInv, Selected, RunJobs
<1>2. IsFiniteSet({cell})
  BY FS_Singleton
<1>3. IsFiniteSet(Selected(cell)) /\ S \in SUBSET Selected(cell)
  BY <1>2, PairsFinite, JobsFinite DEF Selected
<1>4. IsFiniteSet(S)
  BY <1>3, FS_Subset
<1> HIDE DEF S
<1>5. Jobs(SetToSeq(S))
  BY <1>1, <1>4, EnumeratedJobs
<1>6. QED
  BY <1>5 DEF SweepJobs, S

LEMMA AlignJobsOnce ==
  ASSUME GivenInv, study = "alignment"
  PROVE  Jobs(SweepJobs(RunJobs))
<1> DEFINE S == {j \in RunJobs : j.n = 0}
<1>1. RunJobs = [of : Components, arm : AlignArms, n : {0}]
  BY DEF RunJobs
<1>2. IsFiniteSet(RunJobs)
  BY <1>1, PairsFinite, JobsFinite, NamesAssumption
<1>3. IsFiniteSet(S)
  BY <1>2, FS_Subset
<1> HIDE DEF S
<1>4. Jobs(SetToSeq(S))
  BY <1>3, EnumeratedJobs DEF S
<1>5. QED
  BY <1>4 DEF SweepJobs, S

LEMMA FitJobsOnce ==
  ASSUME GivenInv, study = "alignment"
  PROVE  LET jobs == [of : Components, arm : {"calibrated"}, n : {0}]
         IN  Jobs(SetToSeq(jobs)) /\ Range(SetToSeq(jobs)) = jobs
<1> DEFINE S == [of : Components, arm : {"calibrated"}, n : {0}]
<1>1. S \in SUBSET RunJobs
  BY DEF RunJobs, AlignArms
<1>2. IsFiniteSet(S)
  BY PairsFinite, JobsFinite, NamesAssumption
<1> HIDE DEF S
<1>3. QED
  BY <1>1, <1>2, EnumeratedJobs DEF S

-----------------------------------------------------------------------------
(* The study, the replicas and the number of repeats are given; versions    *)
(* and counters stay in their bounds. *)

LEMMA GivenStep ==
  ASSUME [Next]_vars
  PROVE  UNCHANGED given
<1>1. CASE UNCHANGED vars
  BY <1>1 DEF vars, given
<1>2. ASSUME NEW r \in running, JobStep(r) \/ Crash(r) PROVE UNCHANGED given
  BY <1>2 DEF JobStep, Crash, Skip, Fingerprint, Infer, SkipFit, PinCohort, FitFlags, Batch,
     WriteFit, RecordGate, RefuseFit, FitOnly
<1>3. CASE StageStep
  BY <1>3 DEF StageStep, Lease, Waited, Score, DecideC1, GateStops, CopyAlias, Analysed, Regate,
     Later
<1>4. CASE Pilot \/ Calibrate \/ AlignFull \/ Analyse \/ Interrupt \/ Edit
            \/ \E c \in Cells : Falsify(c) \/ Full(c)
  BY <1>4 DEF Pilot, Calibrate, AlignFull, Analyse, Interrupt, Edit, Falsify, Full, Begin
<1>5. QED
  BY <1>1, <1>2, <1>3, <1>4 DEF Next, Work, Operator

LEMMA GivenKept ==
  ASSUME GivenInv, UNCHANGED given
  PROVE  GivenInv' /\ RunJobs' = RunJobs /\ Scopes' = Scopes
BY DEF GivenInv, given, RunJobs, Scopes, Scope

LEMMA ConfigStep ==
  ASSUME ConfigInv, UNCHANGED given, GivenInv, [Next]_vars
  PROVE  ConfigInv'
<1> USE BoundsAssumption
<1>0. Scopes' = Scopes
  BY GivenKept
<1>1. CASE UNCHANGED << config, counters >>
  BY <1>0, <1>1 DEF ConfigInv, config, counters
<1>2. CASE /\ UNCHANGED config /\ edits' = edits
           /\ \/ stages' = stages /\ (faults' = faults \/ (faults < MaxFaults /\ faults' = faults + 1))
              \/ stages < MaxStages /\ stages' = stages + 1 /\ faults' = faults
  BY <1>0, <1>2 DEF ConfigInv, config
<1> DEFINE Same == UNCHANGED << config, counters >>
           Counted ==
             /\ UNCHANGED config /\ edits' = edits
             /\ \/ stages' = stages /\ (faults' = faults \/ (faults < MaxFaults /\ faults' = faults + 1))
                \/ stages < MaxStages /\ stages' = stages + 1 /\ faults' = faults
<1>3. ASSUME NEW r \in running, JobStep(r) \/ Crash(r) PROVE Same \/ Counted
  <2>1. CASE Skip(r) \/ Fingerprint(r)
    BY <2>1 DEF Skip, Fingerprint
  <2>2. CASE SkipFit(r) \/ PinCohort(r) \/ FitFlags(r) \/ WriteFit(r) \/ RecordGate(r) \/ RefuseFit(r)
    BY <2>2 DEF SkipFit, PinCohort, FitFlags, WriteFit, RecordGate, RefuseFit, FitOnly, counters
  <2>3. CASE Infer(r) \/ Batch(r) \/ Crash(r)
    BY <2>3 DEF Infer, Batch, Crash, FitOnly
  <2>4. QED
    BY <1>3, <2>1, <2>2, <2>3 DEF JobStep
<1>4. CASE StageStep
  <2>1. Same
    BY <1>4 DEF StageStep, Lease, Waited, Score, DecideC1, GateStops, CopyAlias, Analysed, Regate,
       Later
  <2>2. QED
    BY <2>1, <1>1
<1>5. CASE Pilot \/ Calibrate \/ AlignFull \/ Analyse \/ Interrupt
            \/ \E c \in Cells : Falsify(c) \/ Full(c)
  <2>1. Counted
    BY <1>5 DEF Pilot, Calibrate, AlignFull, Analyse, Interrupt, Falsify, Full, Begin
  <2>2. QED
    BY <2>1, <1>2
<1>6. CASE Edit
  <2>1. /\ edits' \in 0..MaxEdits /\ UNCHANGED << stages, faults >>
    BY <1>6 DEF Edit, ConfigInv
  <2>2. \A v \in Versions : Other(v) \in Versions
    BY DEF Versions, Other
  <2>3. source' \in Versions /\ model' \in Versions
    BY <1>6, <2>2 DEF Edit, ConfigInv
  <2>4. flags' \in [Scopes -> Versions]
    BY <1>6, <2>2 DEF Edit, ConfigInv
  <2>5. QED
    BY <1>0, <2>1, <2>3, <2>4 DEF ConfigInv
<1>7. CASE UNCHANGED vars
  BY <1>1, <1>7 DEF vars, config, counters
<1>8. QED
  BY <1>1, <1>2, <1>3, <1>4, <1>5, <1>6, <1>7 DEF Next, Work, Operator

-----------------------------------------------------------------------------
(* The dispatcher. *)

(* A job goes on with its replica.                                          *)
LEMMA GoesDispatch ==
  ASSUME GivenInv, RestInv, UNCHANGED given, NEW r \in running, NEW step, NEW stamp,
         Goes(r, step, stamp)
  PROVE  DispatchInv'
<1> DEFINE q == [r EXCEPT !.step = step, !.stamp = stamp]
<1>1. r.job = q.job /\ r.port = q.port
  BY DEF RestInv, JobInv
<1>2. /\ running' = (running \ {r}) \cup {q}
      /\ UNCHANGED << stage, pc, queue, pool, failed, calibrated, todo, study, ports >>
  BY DEF Goes, given
<1>3. RunJobs' = RunJobs
  BY GivenKept
<1> HIDE DEF q
<1>4. \A s \in running' : \E t \in running : t.job = s.job /\ t.port = s.port /\ (t = r <=> s = q)
                                           /\ (t # r => s = t)
  BY <1>1, <1>2 DEF RestInv, DispatchInv, QueueInv
<1>5. Held' = Held
  BY <1>1, <1>2 DEF Held
<1>6. pc = "dispatch"
  BY DEF RestInv, DispatchInv, QueueInv
<1>7. StageInv'
  BY <1>2 DEF RestInv, DispatchInv, StageInv, IsFit
<1>8. QueueInv'
  <2>1. \A s \in running' : s.job \notin Range(queue)
    BY <1>4 DEF RestInv, DispatchInv, QueueInv
  <2>2. \A s, t \in running' : s.port = t.port \/ s.job = t.job => s = t
    BY <1>4 DEF RestInv, DispatchInv, QueueInv
  <2>3. QED
    BY <1>2, <1>3, <1>6, <2>1, <2>2 DEF RestInv, DispatchInv, QueueInv
<1>9. PoolInv'
  BY <1>2, <1>5 DEF RestInv, DispatchInv, PoolInv
<1>10. QueuedInv'
  BY <1>2 DEF RestInv, DispatchInv, QueuedInv, IsFit
<1>11. QED
  BY <1>7, <1>8, <1>9, <1>10 DEF DispatchInv

(* A job that ends, however it ends, gives its replica back.                *)
LEMMA EndsDispatch ==
  ASSUME GivenInv, RestInv, UNCHANGED given, NEW r \in running, NEW bad \in BOOLEAN,
         Ends(r, bad)
  PROVE  DispatchInv'
<1>1. /\ running' = running \ {r} /\ pool' = Append(pool, r.port) /\ failed' \in BOOLEAN
      /\ UNCHANGED << stage, pc, queue, calibrated, todo, study, ports >>
  BY DEF Ends, Returned, given
<1>2. RunJobs' = RunJobs
  BY GivenKept
<1>3. pc = "dispatch" /\ r.port \in Nat /\ r.port \in Held
  BY DEF RestInv, DispatchInv, QueueInv, JobInv, Held
<1>4. Held' = Held \ {r.port}
  BY <1>1 DEF RestInv, DispatchInv, QueueInv, Held
<1>5. r.port \notin Range(pool)
  BY <1>3 DEF RestInv, DispatchInv, PoolInv
<1>6. StageInv'
  BY <1>1 DEF RestInv, DispatchInv, StageInv, IsFit
<1>7. QueueInv'
  BY <1>1, <1>2, <1>3 DEF RestInv, DispatchInv, QueueInv
<1>8. PoolInv'
  <2>1. /\ pool' \in Seq(Nat) /\ IsInjective(pool')
        /\ Range(pool') = Range(pool) \cup {r.port}
    BY <1>1, <1>3, <1>5, AppendOnce DEF RestInv, DispatchInv, PoolInv
  <2>2. QED
    BY <1>1, <1>3, <1>4, <2>1 DEF RestInv, DispatchInv, PoolInv
<1>9. QueuedInv'
  BY <1>1 DEF RestInv, DispatchInv, QueuedInv, IsFit
<1>10. QED
  BY <1>6, <1>7, <1>8, <1>9 DEF DispatchInv

(* A job starts on the replica that has been free for longest.              *)
LEMMA LeaseStep ==
  ASSUME GivenInv, RestInv, UNCHANGED given, Lease
  PROVE  RestInv'
<1> DEFINE q == [port |-> Leased, job |-> Head(queue), step |-> "check", stamp |-> None]
<1>1. /\ pc = "dispatch" /\ queue # << >> /\ pool # << >>
      /\ running' = running \cup {q} /\ pool' = Tail(pool) /\ queue' = Tail(queue)
      /\ UNCHANGED << stage, pc, failed, calibrated, todo, pred, scores, gates, alias, fits,
                      study, ports >>
  BY DEF Lease, disk, given
<1>2. RunJobs' = RunJobs
  BY GivenKept
<1>3. /\ queue' \in Seq(RunJobs) /\ IsInjective(queue') /\ Head(queue) \in RunJobs
      /\ Head(queue) \notin Range(queue') /\ Range(queue) = {Head(queue)} \cup Range(queue')
  BY <1>1, TailOnce DEF RestInv, DispatchInv, QueueInv
<1>4. /\ pool' \in Seq(Nat) /\ IsInjective(pool') /\ Leased \in Nat
      /\ Leased \notin Range(pool') /\ Range(pool) = {Leased} \cup Range(pool')
  BY <1>1, TailOnce DEF RestInv, DispatchInv, PoolInv, Leased
<1>5. /\ q.port = Leased /\ q.job = Head(queue) /\ q.step = "check" /\ q.stamp = None
      /\ q \in [port : Nat, job : RunJobs, step : {"check", "infer"} \cup FitSteps, stamp : {q.stamp}]
  BY <1>3, <1>4
<1> HIDE DEF q
<1>6. StageInv'
  BY <1>1 DEF RestInv, DispatchInv, StageInv, IsFit
<1>7. QueueInv'
  <2>1. \A s \in running : s.job # q.job /\ s.port # q.port
    BY <1>1, <1>3, <1>4, <1>5 DEF RestInv, DispatchInv, QueueInv, PoolInv, Held
  <2>2. \A s \in running' : s.job \notin Range(queue')
    BY <1>1, <1>3, <1>5 DEF RestInv, DispatchInv, QueueInv
  <2>3. \A s, t \in running' : s.port = t.port \/ s.job = t.job => s = t
    BY <1>1, <2>1 DEF RestInv, DispatchInv, QueueInv
  <2>4. QED
    BY <1>1, <1>2, <1>3, <2>2, <2>3 DEF QueueInv
<1>8. PoolInv'
  <2>1. Held' = Held \cup {Leased}
    BY <1>1, <1>5 DEF Held
  <2>2. QED
    BY <1>1, <1>4, <2>1 DEF RestInv, DispatchInv, PoolInv
<1>9. QueuedInv'
  BY <1>1, <1>3 DEF RestInv, DispatchInv, QueuedInv, IsFit
<1>10. DiskInv'
  BY <1>1, <1>2 DEF RestInv, DiskInv, GateInv, FitInv, FitWhole
<1>11. AliasInv' /\ AllCalibrated'
  BY <1>1 DEF RestInv, AliasInv, OneQuoted, AllCalibrated, FitWhole
<1>12. ProgressInv'
  BY <1>1, <1>3, <1>5 DEF RestInv, ProgressInv, IsFit, FitWhole
<1>13. ASSUME NEW s \in running' PROVE JobInv(s)'
  <2>1. CASE s \in running
    BY <1>1, <1>2, <2>1 DEF RestInv, JobInv, IsRun, IsFit, Fit
  <2>2. CASE s = q
    BY <1>1, <1>2, <1>3, <1>5, <2>2 DEF RestInv, DispatchInv, QueuedInv, JobInv, IsRun, IsFit, FitSteps
  <2>3. QED
    BY <1>1, <2>1, <2>2
<1>14. QED
  BY <1>6, <1>7, <1>8, <1>9, <1>10, <1>11, <1>12, <1>13 DEF RestInv, DispatchInv

-----------------------------------------------------------------------------
(* The jobs of the two studies. *)

(* A job that neither writes a file nor fails.                              *)
LEMMA QuietGoes ==
  ASSUME GivenInv, RestInv, UNCHANGED given, UNCHANGED disk, NEW r \in running,
         Goes(r, "infer", Provenance(r)), IsRun, ~Cached(r)
  PROVE  RestInv'
<1> DEFINE q == [r EXCEPT !.step = "infer", !.stamp = Provenance(r)]
<1>1. /\ running' = (running \ {r}) \cup {q}
      /\ UNCHANGED << stage, pc, queue, pool, failed, calibrated, todo, pred, scores, gates, alias,
                      fits, study, ports >>
  BY DEF Goes, disk, given
<1>2. RunJobs' = RunJobs /\ DispatchInv'
  BY GivenKept, GoesDispatch
<1>3. JobInv(r)
  BY DEF RestInv
<1>4. /\ q.port = r.port /\ q.job = r.job /\ q.step = "infer" /\ q.stamp = Provenance(r)
      /\ q \in [port : Nat, job : RunJobs, step : {"check", "infer"} \cup FitSteps, stamp : {q.stamp}]
  BY <1>3 DEF JobInv
<1> HIDE DEF q
<1>5. ~ IsFit
  BY DEF IsFit, IsRun
<1>6. DiskInv' /\ AliasInv' /\ AllCalibrated' /\ ProgressInv'
  <2>1. DiskInv'
    BY <1>1, <1>2 DEF RestInv, DiskInv, GateInv, FitInv, FitWhole
  <2>2. AliasInv' /\ AllCalibrated'
    BY <1>1 DEF RestInv, AliasInv, OneQuoted, AllCalibrated, FitWhole
  <2>3. ProgressInv'
    BY <1>1, <1>5 DEF ProgressInv, IsFit
  <2>4. QED
    BY <2>1, <2>2, <2>3
<1>7. ASSUME NEW s \in running' PROVE JobInv(s)'
  <2>1. CASE s \in running
    BY <1>1, <1>2, <2>1 DEF RestInv, JobInv, IsRun, IsFit, Fit
  <2>2. CASE s = q
    <3>1. ~ (pred[q.job] # None /\ pred[q.job].ok /\ pred[q.job].print = q.stamp)
      BY <1>4 DEF Cached
    <3>2. QED
      BY <1>1, <1>2, <1>4, <1>5, <2>2, <3>1 DEF JobInv, IsRun, IsFit, FitSteps
  <2>3. QED
    BY <1>1, <2>1, <2>2
<1>8. QED
  BY <1>2, <1>6, <1>7 DEF RestInv

LEMMA QuietEnds ==
  ASSUME GivenInv, RestInv, UNCHANGED given, UNCHANGED disk, NEW r \in running,
         NEW bad \in BOOLEAN, Ends(r, bad), bad \/ IsRun \/ FitCached(r)
  PROVE  RestInv'
<1>1. /\ running' = running \ {r} /\ (~failed' => ~failed /\ ~bad)
      /\ UNCHANGED << stage, pc, queue, calibrated, todo, pred, scores, gates, alias,
                      fits, study, ports >>
  BY DEF Ends, disk, given
<1>2. RunJobs' = RunJobs /\ DispatchInv'
  BY GivenKept, EndsDispatch
<1>3. DiskInv'
  BY <1>1, <1>2 DEF RestInv, DiskInv, GateInv, FitInv, FitWhole
<1>4. AliasInv' /\ AllCalibrated'
  BY <1>1 DEF RestInv, AliasInv, OneQuoted, AllCalibrated, FitWhole
<1>5. ProgressInv'
  <2> SUFFICES ASSUME IsFit, ~failed', NEW c \in Components
               PROVE  FitWhole(c) \/ (\E s \in running' : s.job.of = c) \/ \E j \in Range(queue) : j.of = c
    BY <1>1 DEF ProgressInv, IsFit, FitWhole
  <2>1. CASE c = r.job.of
    <3>1. FitCached(r)
      BY <1>1 DEF IsRun, IsFit
    <3>2. FitWhole(c)
      BY <2>1, <3>1 DEF FitCached, Fit, RestInv, DiskInv, FitInv
    <3>3. QED
      BY <3>2
  <2>2. CASE c # r.job.of
    BY <1>1, <2>2 DEF RestInv, ProgressInv
  <2>3. QED
    BY <2>1, <2>2
<1>6. ASSUME NEW s \in running' PROVE JobInv(s)'
  BY <1>1, <1>2 DEF RestInv, JobInv, IsRun, IsFit, Fit
<1>7. QED
  BY <1>2, <1>3, <1>4, <1>5, <1>6 DEF RestInv

(* A prediction is written by the one job that is about it.                 *)
LEMMA InferStep ==
  ASSUME GivenInv, RestInv, UNCHANGED given, NEW r \in running, Infer(r)
  PROVE  RestInv'
<1>1. PICK ok \in BOOLEAN :
        /\ pred' = [pred EXCEPT ![r.job] = [print |-> r.stamp, ok |-> ok]]
        /\ Ends(r, ~ok)
  BY DEF Infer
<1>2. /\ IsRun /\ running' = running \ {r}
      /\ UNCHANGED << stage, pc, queue, calibrated, todo, scores, gates, alias, fits,
                      study, ports >>
  BY <1>1 DEF Infer, Ends, given
<1>3. RunJobs' = RunJobs /\ DispatchInv' /\ ~IsFit
  <2>1. (~ok) \in BOOLEAN
    OBVIOUS
  <2>2. DispatchInv'
    BY <1>1, <2>1, EndsDispatch
  <2>3. QED
    BY <1>2, <2>2, GivenKept DEF IsFit, IsRun
<1>4. DiskInv'
  <2>1. DOMAIN pred' = RunJobs
    BY <1>1 DEF RestInv, DiskInv
  <2>2. \A j \in RunJobs : pred'[j] # None => pred'[j].ok \in BOOLEAN
    BY <1>1 DEF RestInv, DiskInv
  <2>3. QED
    BY <1>2, <1>3, <2>1, <2>2 DEF RestInv, DiskInv, GateInv, FitInv, FitWhole
<1>5. AliasInv' /\ AllCalibrated'
  BY <1>2 DEF RestInv, AliasInv, OneQuoted, AllCalibrated, FitWhole
<1>6. ProgressInv'
  BY <1>2, <1>3 DEF ProgressInv, IsFit
<1>7. ASSUME NEW s \in running' PROVE JobInv(s)'
  <2>1. s \in running /\ s.job # r.job
    BY <1>2 DEF RestInv, DispatchInv, QueueInv
  <2>2. pred'[s.job] = pred[s.job]
    BY <1>1, <2>1 DEF RestInv, DiskInv, JobInv
  <2>3. QED
    BY <1>2, <1>3, <2>1, <2>2 DEF RestInv, JobInv, IsRun, IsFit, Fit
<1>8. QED
  BY <1>3, <1>4, <1>5, <1>6, <1>7 DEF RestInv

(* The files of a calibration.                                              *)
Files ==
  [cohort : {"absent", "pinned"}, regime : Versions \cup {None}, rows : Rows \cup {None},
   cal : Rows \cup {None}, gate : [cal : Rows, regime : Versions] \cup {None}]

Whole(fit) ==
  /\ fit.cohort = "pinned" /\ fit.cal # None /\ ~fit.cal.lost
  /\ fit.regime = fit.cal.regime
  /\ fit.gate # None
  /\ fit.gate.cal = fit.cal /\ fit.gate.regime = fit.regime

(* What every step of a fit finds, and what it changes.                     *)
FitStep(r, fit) ==
  /\ r \in running /\ IsFit
  /\ FitSet(r, fit) /\ UNCHANGED << pred, scores, gates, alias, stage, pc, queue, calibrated, todo, given >>

LEMMA FitWrites ==
  ASSUME GivenInv, RestInv, NEW r, NEW fit, FitStep(r, fit), fit \in Files,
         fit.gate # None => Whole(fit)
  PROVE  /\ DiskInv' /\ AliasInv' /\ AllCalibrated'
         /\ r.job.of \in Components /\ fits'[r.job.of] = fit
         /\ \A c \in Components : c # r.job.of => fits'[c] = fits[c]
         /\ \A s \in running : s # r =>
              JobInv(s)' /\ s.job.of # r.job.of
<1>1. /\ fits' = [fits EXCEPT ![r.job.of] = fit] /\ IsFit
      /\ UNCHANGED << pred, scores, gates, alias, stage, calibrated, pc, study >>
  BY DEF FitStep, FitSet, given
<1>2. RunJobs' = RunJobs
  BY GivenKept DEF FitStep
<1>3. r.job.of \in Components /\ DOMAIN fits = Components /\ r \in running
  BY <1>1 DEF FitStep, RestInv, JobInv, DiskInv
<1>4. DOMAIN fits' = Components /\ fits'[r.job.of] = fit
      /\ \A c \in Components : c # r.job.of => fits'[c] = fits[c]
  BY <1>1, <1>3
<1>5. ASSUME NEW c \in Components PROVE FitInv(c)'
  <2>1. CASE c = r.job.of
    BY <1>4, <2>1 DEF FitInv, FitWhole, Files, Whole
  <2>2. CASE c # r.job.of
    BY <1>4, <2>2 DEF RestInv, DiskInv, FitInv, FitWhole
  <2>3. QED
    BY <2>1, <2>2
<1>6. DiskInv'
  BY <1>1, <1>2, <1>4, <1>5 DEF RestInv, DiskInv, GateInv
<1>7. AliasInv'
  BY <1>1 DEF RestInv, AliasInv, OneQuoted
<1>8. AllCalibrated'
  BY <1>1 DEF RestInv, DispatchInv, StageInv, AllCalibrated
<1>9. ASSUME NEW s \in running, s # r PROVE JobInv(s)' /\ s.job.of # r.job.of
  <2>1. s.job # r.job
    BY <1>3, <1>9 DEF RestInv, DispatchInv, QueueInv
  <2>2. study = "alignment"
    BY <1>1 DEF RestInv, DispatchInv, StageInv
  <2>3. /\ s.job \in [of : Components, arm : AlignArms, n : {0}] /\ s.job.arm = "calibrated"
        /\ r.job \in [of : Components, arm : AlignArms, n : {0}] /\ r.job.arm = "calibrated"
    BY <1>1, <1>3, <2>2 DEF RestInv, JobInv, RunJobs
  <2>4. s.job.of # r.job.of
    BY <2>1, <2>3
  <2>5. Fit(s)' = Fit(s)
    BY <1>4, <2>3, <2>4 DEF Fit
  <2>6. QED
    BY <1>1, <1>2, <2>4, <2>5 DEF RestInv, JobInv, IsRun, IsFit
<1>10. QED
  BY <1>3, <1>4, <1>6, <1>7, <1>8, <1>9

(* A fit that goes on: its job stays, so its component is taken care of.    *)
LEMMA FitGoes ==
  ASSUME GivenInv, RestInv, NEW r, NEW fit, FitStep(r, fit), fit \in Files, fit.gate = None,
         NEW step \in FitSteps, Goes(r, step, None), fit.cohort = "pinned",
         step # "flags" => fit.regime # None,
         step = "fit" => fit.rows # None /\ fit.rows.regime = fit.regime,
         step = "gate" => fit.cal # None /\ fit.cal.regime = fit.regime
  PROVE  RestInv'
<1> DEFINE q == [r EXCEPT !.step = step, !.stamp = None]
<1>1. /\ running' = (running \ {r}) \cup {q} /\ r \in running /\ IsFit /\ UNCHANGED given
      /\ UNCHANGED << stage, queue, study, failed >>
  BY DEF Goes, FitStep, given
<1>2. RunJobs' = RunJobs /\ DispatchInv'
  BY <1>1, GivenKept, GoesDispatch
<1>3. JobInv(r)
  BY <1>1 DEF RestInv
<1>4. /\ q.port = r.port /\ q.job = r.job /\ q.step = step /\ q.stamp = None
      /\ q \in [port : Nat, job : RunJobs, step : {"check", "infer"} \cup FitSteps, stamp : {q.stamp}]
  BY <1>3 DEF JobInv
<1> HIDE DEF q
<1>5. /\ DiskInv' /\ AliasInv' /\ AllCalibrated'
      /\ r.job.of \in Components /\ fits'[r.job.of] = fit
      /\ \A c \in Components : c # r.job.of => fits'[c] = fits[c]
      /\ \A s \in running : s # r => JobInv(s)' /\ s.job.of # r.job.of
  BY FitWrites
<1>6. JobInv(q)'
  <2>1. Fit(q)' = fit
    BY <1>4, <1>5 DEF Fit
  <2>2. IsFit' /\ q.job.of \in Components /\ q.job.arm = "calibrated" /\ q.step # "infer"
    BY <1>1, <1>3, <1>4 DEF JobInv, IsFit, FitSteps
  <2>3. QED
    BY <1>2, <1>4, <2>1, <2>2 DEF JobInv
<1>7. ProgressInv'
  <2> SUFFICES ASSUME ~failed', NEW c \in Components
               PROVE  FitWhole(c)' \/ (\E s \in running' : s.job.of = c) \/ \E j \in Range(queue) : j.of = c
    BY <1>1 DEF ProgressInv, IsFit
  <2>1. CASE c = r.job.of
    BY <1>1, <1>4, <2>1
  <2>2. CASE c # r.job.of
    <3>1. FitWhole(c) => FitWhole(c)'
      BY <1>5, <2>2 DEF FitWhole
    <3>2. FitWhole(c) \/ (\E s \in running : s.job.of = c) \/ \E j \in Range(queue) : j.of = c
      BY <1>1 DEF RestInv, ProgressInv
    <3>3. QED
      BY <1>1, <2>2, <3>1, <3>2
  <2>3. QED
    BY <2>1, <2>2
<1>8. QED
  BY <1>1, <1>2, <1>5, <1>6, <1>7 DEF RestInv

(* A fit that ends well has written a whole calibration.                    *)
LEMMA FitEnds ==
  ASSUME GivenInv, RestInv, NEW r, NEW fit, FitStep(r, fit), fit \in Files, Whole(fit),
         NEW bad \in BOOLEAN, Ends(r, bad)
  PROVE  RestInv'
<1>1. /\ running' = running \ {r} /\ r \in running /\ IsFit /\ UNCHANGED given
      /\ UNCHANGED << stage, queue, study >> /\ (~failed' => ~failed)
  BY DEF Ends, FitStep, given
<1>2. DispatchInv'
  BY <1>1, EndsDispatch
<1>3. /\ DiskInv' /\ AliasInv' /\ AllCalibrated'
      /\ r.job.of \in Components /\ fits'[r.job.of] = fit
      /\ \A c \in Components : c # r.job.of => fits'[c] = fits[c]
      /\ \A s \in running : s # r => JobInv(s)' /\ s.job.of # r.job.of
  BY FitWrites
<1>4. ProgressInv'
  <2> SUFFICES ASSUME ~failed', NEW c \in Components
               PROVE  FitWhole(c)' \/ (\E s \in running' : s.job.of = c) \/ \E j \in Range(queue) : j.of = c
    BY <1>1 DEF ProgressInv, IsFit
  <2>1. CASE c = r.job.of
    BY <1>3, <2>1 DEF Whole, FitWhole
  <2>2. CASE c # r.job.of
    <3>1. FitWhole(c) => FitWhole(c)'
      BY <1>3, <2>2 DEF FitWhole
    <3>2. FitWhole(c) \/ (\E s \in running : s.job.of = c) \/ \E j \in Range(queue) : j.of = c
      BY <1>1 DEF RestInv, ProgressInv
    <3>3. QED
      BY <1>1, <2>2, <3>1, <3>2
  <2>3. QED
    BY <2>1, <2>2
<1>5. QED
  BY <1>1, <1>2, <1>3, <1>4 DEF RestInv

LEMMA FitJobStep ==
  ASSUME GivenInv, ConfigInv, RestInv, UNCHANGED given, NEW r \in running,
         PinCohort(r) \/ FitFlags(r) \/ Batch(r) \/ WriteFit(r) \/ RecordGate(r)
  PROVE  RestInv'
<1>1. /\ JobInv(r) /\ IsFit /\ UNCHANGED << pred, scores, gates, alias >>
  BY DEF RestInv, PinCohort, FitFlags, Batch, WriteFit, RecordGate, FitOnly
<1>2. /\ r.job.of \in Components /\ FitInv(r.job.of) /\ Fit(r) \in Files
      /\ (Fit(r).gate # None => FitWhole(r.job.of))
  BY <1>1 DEF JobInv, RestInv, DiskInv, FitInv, Fit, Files
<1>3. None \notin Versions /\ None \notin Rows /\ None \notin [cal : Rows, regime : Versions]
  BY NoneAssumption DEF Versions, Rows
<1>4. CASE PinCohort(r)
  <2> DEFINE fit == [Fit(r) EXCEPT !.cohort = "pinned"]
  <2>1. FitSet(r, fit) /\ Goes(r, "flags", None) /\ ~FitCached(r)
    BY <1>4 DEF PinCohort
  <2>2. Fit(r).gate = None
    BY <1>2, <1>3, <2>1 DEF FitCached, FitWhole, Fit, Files
  <2>3. fit \in Files /\ fit.gate = None /\ fit.cohort = "pinned"
    BY <1>2, <2>2 DEF Files
  <2> HIDE DEF fit
  <2>4. FitStep(r, fit)
    BY <1>1, <2>1 DEF FitStep, Goes
  <2>5. QED
    BY <2>1, <2>3, <2>4, FitGoes DEF FitSteps
<1>5. CASE FitFlags(r)
  <2> DEFINE fit == [Fit(r) EXCEPT !.regime = flags["calibrated"]]
  <2>1. FitSet(r, fit) /\ Goes(r, "batch", None) /\ r.step = "flags"
    BY <1>5 DEF FitFlags
  <2>2. "calibrated" \in Scopes
    <3>1. r.job \in RunJobs /\ r.job.arm = "calibrated" /\ r.job.of \notin Cells
      BY <1>1, <1>2, NamesAssumption DEF JobInv
    <3>2. QED
      BY <3>1 DEF Scopes, Scope
  <2>3. flags["calibrated"] \in Versions
    BY <2>2 DEF ConfigInv
  <2>4. Fit(r).gate = None /\ Fit(r).cohort = "pinned"
    BY <1>1, <2>1 DEF JobInv, FitSteps
  <2>5. fit \in Files /\ fit.gate = None /\ fit.cohort = "pinned" /\ fit.regime # None
    BY <1>2, <1>3, <2>3, <2>4 DEF Files
  <2> HIDE DEF fit
  <2>6. FitStep(r, fit)
    BY <1>1, <2>1 DEF FitStep, Goes
  <2>7. QED
    BY <2>1, <2>5, <2>6, FitGoes DEF FitSteps
<1>6. CASE Batch(r)
  <2>1. PICK lost \in BOOLEAN :
          FitSet(r, [Fit(r) EXCEPT !.rows = [regime |-> Fit(r).regime, lost |-> lost]])
    BY <1>6 DEF Batch
  <2> DEFINE row == [regime |-> Fit(r).regime, lost |-> lost]
             fit == [Fit(r) EXCEPT !.rows = row]
  <2>2. FitSet(r, fit) /\ Goes(r, "fit", None) /\ r.step = "batch"
    BY <1>6, <2>1 DEF Batch
  <2>3. Fit(r).gate = None /\ Fit(r).cohort = "pinned" /\ Fit(r).regime # None
    BY <1>1, <2>2 DEF JobInv, FitSteps
  <2>4. Fit(r).regime \in Versions
    BY <1>2, <2>3 DEF Files
  <2>5. row \in Rows /\ row.regime = Fit(r).regime
    BY <2>4 DEF Rows
  <2> HIDE DEF row
  <2>6. /\ fit \in Files /\ fit.gate = None /\ fit.cohort = "pinned" /\ fit.regime # None
        /\ fit.rows # None /\ fit.rows.regime = fit.regime
    BY <1>2, <1>3, <2>3, <2>5 DEF Files
  <2> HIDE DEF fit
  <2>7. FitStep(r, fit)
    BY <1>1, <2>2 DEF FitStep, Goes
  <2>8. QED
    BY <2>2, <2>6, <2>7, FitGoes DEF FitSteps
<1>7. CASE WriteFit(r)
  <2> DEFINE fit == [Fit(r) EXCEPT !.cal = Fit(r).rows]
  <2>1. FitSet(r, fit) /\ Goes(r, "gate", None) /\ r.step = "fit"
    BY <1>7 DEF WriteFit
  <2>2. /\ Fit(r).gate = None /\ Fit(r).cohort = "pinned" /\ Fit(r).regime # None
        /\ Fit(r).rows # None /\ Fit(r).rows.regime = Fit(r).regime
    BY <1>1, <2>1 DEF JobInv, FitSteps
  <2>3. /\ fit \in Files /\ fit.gate = None /\ fit.cohort = "pinned" /\ fit.regime # None
        /\ fit.cal # None /\ fit.cal.regime = fit.regime
    BY <1>2, <2>2 DEF Files
  <2> HIDE DEF fit
  <2>4. FitStep(r, fit)
    BY <1>1, <2>1 DEF FitStep, Goes
  <2>5. QED
    BY <2>1, <2>3, <2>4, FitGoes DEF FitSteps
<1>8. CASE RecordGate(r)
  <2> DEFINE gate == [cal |-> Fit(r).cal, regime |-> Fit(r).regime]
             fit == [Fit(r) EXCEPT !.gate = gate]
  <2>1. FitSet(r, fit) /\ Ends(r, FALSE) /\ r.step = "gate" /\ ~Fit(r).cal.lost
    BY <1>8 DEF RecordGate, Defensible
  <2>2. /\ Fit(r).cohort = "pinned" /\ Fit(r).regime # None
        /\ Fit(r).cal # None /\ Fit(r).cal.regime = Fit(r).regime
    BY <1>1, <2>1 DEF JobInv, FitSteps
  <2>3. Fit(r).cal \in Rows /\ Fit(r).regime \in Versions
    BY <1>2, <2>2 DEF Files
  <2>4. /\ gate \in [cal : Rows, regime : Versions] /\ gate # None
        /\ gate.cal = Fit(r).cal /\ gate.regime = Fit(r).regime
    BY <1>3, <2>3
  <2> HIDE DEF gate
  <2>5. /\ fit \in Files /\ fit.cohort = "pinned" /\ fit.cal = Fit(r).cal
        /\ fit.regime = Fit(r).regime /\ fit.gate = gate
    BY <1>2, <2>2, <2>4 DEF Files
  <2> HIDE DEF fit
  <2>6. Whole(fit)
    BY <2>1, <2>2, <2>4, <2>5 DEF Whole
  <2>7. FitStep(r, fit)
    BY <1>1, <2>1 DEF FitStep, Ends
  <2>8. QED
    BY <2>1, <2>5, <2>6, <2>7, FitEnds
<1>9. QED
  BY <1>4, <1>5, <1>6, <1>7, <1>8

LEMMA JobStepKeeps ==
  ASSUME GivenInv, ConfigInv, RestInv, UNCHANGED given, NEW r \in running,
         JobStep(r) \/ Crash(r)
  PROVE  RestInv'
<1>1. CASE Skip(r)
  <2>1. UNCHANGED disk /\ Ends(r, FALSE) /\ IsRun
    BY <1>1 DEF Skip
  <2>2. QED
    BY <2>1, QuietEnds
<1>2. CASE Fingerprint(r)
  BY <1>2, QuietGoes DEF Fingerprint
<1>3. CASE Infer(r)
  BY <1>3, InferStep
<1>4. CASE SkipFit(r)
  <2>1. UNCHANGED disk /\ Ends(r, FALSE) /\ FitCached(r)
    BY <1>4 DEF SkipFit, FitOnly, disk
  <2>2. QED
    BY <2>1, QuietEnds
<1>5. CASE RefuseFit(r)
  <2>1. UNCHANGED disk /\ Ends(r, TRUE)
    BY <1>5 DEF RefuseFit, FitOnly, disk
  <2>2. QED
    BY <2>1, QuietEnds
<1>6. CASE Crash(r)
  <2>1. UNCHANGED disk /\ Ends(r, TRUE)
    BY <1>6 DEF Crash
  <2>2. QED
    BY <2>1, QuietEnds
<1>7. CASE PinCohort(r) \/ FitFlags(r) \/ Batch(r) \/ WriteFit(r) \/ RecordGate(r)
  BY <1>7, FitJobStep
<1>8. QED
  BY <1>1, <1>2, <1>3, <1>4, <1>5, <1>6, <1>7 DEF JobStep

-----------------------------------------------------------------------------
(* The stages. *)

(* A stage that dispatches its jobs.                                        *)
LEMMA Opens ==
  ASSUME GivenInv, RestInv, UNCHANGED given, NEW jobs, Jobs(jobs), OpenPool(jobs),
         NEW name, NEW cell \in Cells, Begin(name, cell),
         \/ name \in Sweeps /\ UNCHANGED calibrated
         \/ /\ name = "calibrate" /\ study = "alignment" /\ calibrated' = FALSE
            /\ Range(jobs) = [of : Components, arm : {"calibrated"}, n : {0}]
  PROVE  RestInv'
<1>1. /\ queue' = jobs /\ pool' = ports /\ running' = {} /\ failed' = FALSE /\ pc' = "dispatch"
      /\ stage = None /\ stage' = [name |-> name, cell |-> cell]
      /\ UNCHANGED << todo, pred, scores, gates, alias, fits, study, ports >>
      /\ name \in Sweeps \cup {"calibrate"}
  BY DEF OpenPool, Begin, disk, given
<1>2. RunJobs' = RunJobs
  BY GivenKept
<1>3. stage' # None /\ stage'.name = name /\ stage'.cell = cell
  <2>1. pc = "idle"
    BY <1>1 DEF RestInv, DispatchInv, StageInv
  <2>2. QED
    BY <1>1, NoneAssumption DEF Sweeps, StageNames
<1>4. IsFit' <=> name = "calibrate"
  BY <1>3 DEF IsFit
<1>5. StageInv'
  BY <1>1, <1>3, <1>4 DEF RestInv, DispatchInv, StageInv, Sweeps
<1>6. QueueInv'
  BY <1>1, <1>2 DEF QueueInv, Jobs
<1>7. PoolInv'
  BY <1>1 DEF PoolInv, Held, GivenInv
<1>8. QueuedInv'
  <2>1. ASSUME IsFit' PROVE Range(queue') = [of : Components, arm : {"calibrated"}, n : {0}]
    BY <1>1, <1>4, <2>1 DEF Sweeps
  <2>2. \A j \in [of : Components, arm : {"calibrated"}, n : {0}] : j.of \in Components /\ j.arm = "calibrated"
    OBVIOUS
  <2>3. IsFit' => \A j \in Range(queue') : j.of \in Components /\ j.arm = "calibrated"
    BY <2>1, <2>2
  <2>4. QED
    BY <2>3 DEF QueuedInv
<1>9. DiskInv'
  BY <1>1, <1>2 DEF RestInv, DiskInv, GateInv, FitInv, FitWhole
<1>10. AliasInv' /\ AllCalibrated'
  BY <1>1 DEF RestInv, AliasInv, OneQuoted, AllCalibrated, FitWhole
<1>11. ProgressInv'
  <2> SUFFICES ASSUME IsFit', NEW c \in Components
               PROVE  \E j \in Range(jobs) : j.of = c
    BY <1>1 DEF ProgressInv
  <2>1. Range(jobs) = [of : Components, arm : {"calibrated"}, n : {0}]
    BY <1>4 DEF Sweeps
  <2>2. [of |-> c, arm |-> "calibrated", n |-> 0] \in Range(jobs)
    BY <2>1
  <2>3. QED
    BY <2>2
<1>12. QED
  BY <1>1, <1>5, <1>6, <1>7, <1>8, <1>9, <1>10, <1>11 DEF RestInv, DispatchInv

LEMMA OpenSteps ==
  ASSUME GivenInv, RestInv, UNCHANGED given,
         Pilot \/ Calibrate \/ AlignFull \/ \E c \in Cells : Falsify(c) \/ Full(c)
  PROVE  RestInv'
<1> USE NamesAssumption
<1>1. ASSUME NEW c \in Cells, Falsify(c) PROVE RestInv'
  <2>1. /\ Begin("falsify", c) /\ OpenPool(FalsifyJobs(c)) /\ UNCHANGED calibrated
        /\ study = "generation"
    BY <1>1 DEF Falsify
  <2>2. QED
    BY <2>1, FalsifyJobsOnce, Opens DEF Sweeps
<1>2. ASSUME NEW c \in Cells, Full(c) PROVE RestInv'
  <2>1. /\ Begin("full", c) /\ OpenPool(SweepJobs(Selected(c))) /\ UNCHANGED calibrated
        /\ study = "generation"
    BY <1>2 DEF Full
  <2>2. QED
    BY <2>1, SelectedJobsOnce, Opens DEF Sweeps
<1>3. CASE Pilot
  <2>1. /\ Begin("pilot", Primary) /\ OpenPool(SweepJobs(Selected(Primary)))
        /\ UNCHANGED calibrated /\ study = "generation"
    BY <1>3 DEF Pilot
  <2>2. QED
    BY <2>1, SelectedJobsOnce, Opens DEF Sweeps
<1>4. CASE AlignFull
  <2>1. /\ Begin("align-full", Primary) /\ OpenPool(SweepJobs(RunJobs))
        /\ UNCHANGED calibrated /\ study = "alignment"
    BY <1>4 DEF AlignFull
  <2>2. QED
    BY <2>1, AlignJobsOnce, Opens DEF Sweeps
<1>5. CASE Calibrate
  <2> DEFINE jobs == SetToSeq([of : Components, arm : {"calibrated"}, n : {0}])
  <2>1. /\ Begin("calibrate", Primary) /\ OpenPool(jobs)
        /\ calibrated' = FALSE /\ study = "alignment"
    BY <1>5 DEF Calibrate
  <2>2. Jobs(jobs) /\ Range(jobs) = [of : Components, arm : {"calibrated"}, n : {0}]
    BY <2>1, FitJobsOnce
  <2> HIDE DEF jobs
  <2>3. QED
    BY <2>1, <2>2, Opens
<1>6. QED
  BY <1>1, <1>2, <1>3, <1>4, <1>5

(* While no job is queued or running, what counts is what is on disk.       *)
LEMMA Settled ==
  ASSUME GivenInv, RestInv, UNCHANGED given, running' = {}, queue' = << >>, pc' # "dispatch",
         pool' \in Seq(Nat), IsInjective(pool'), StageInv', DiskInv', AliasInv', AllCalibrated',
         ~IsFit'
  PROVE  RestInv'
<1>1. QueueInv'
  <2>1. << >> \in Seq(RunJobs') /\ IsInjective(<< >>) /\ Range(<< >>) = {}
    BY DEF IsInjective, Range
  <2>2. QED
    BY <2>1 DEF QueueInv
<1>2. PoolInv' /\ QueuedInv' /\ ProgressInv'
  BY DEF PoolInv, QueuedInv, ProgressInv
<1>3. QED
  BY <1>1, <1>2 DEF RestInv, DispatchInv

LEMMA WaitedStep ==
  ASSUME GivenInv, RestInv, UNCHANGED given, Waited
  PROVE  RestInv'
<1>1. /\ pc = "dispatch" /\ queue = << >> /\ running = {}
      /\ UNCHANGED << queue, running, failed, todo, pred, scores, gates, alias, fits, study >>
      /\ pool' = << >>
      /\ calibrated' = (calibrated \/ (stage.name = "calibrate" /\ ~failed))
  BY DEF Waited, disk, given
<1>2. \/ stage.name = "falsify" /\ pc' = "score" /\ stage' = stage
      \/ stage' = None /\ pc' = "idle"
  BY DEF Waited, Over
<1>3. RunJobs' = RunJobs /\ stage # None
  BY <1>1, GivenKept DEF RestInv, DispatchInv, StageInv
<1>4. ~IsFit' /\ pc' # "dispatch"
  BY <1>2 DEF IsFit
<1>5. calibrated' \in BOOLEAN
  BY <1>1
<1>6. StageInv'
  BY <1>1, <1>2, <1>3, <1>4, <1>5 DEF RestInv, DispatchInv, StageInv
<1>7. DiskInv'
  BY <1>1, <1>3 DEF RestInv, DiskInv, GateInv, FitInv, FitWhole
<1>8. AliasInv'
  BY <1>1, <1>2 DEF RestInv, AliasInv, OneQuoted
<1>9. AllCalibrated'
  <2>1. CASE calibrated
    BY <1>1, <2>1 DEF RestInv, AllCalibrated, FitWhole
  <2>2. CASE stage.name = "calibrate" /\ ~failed
    <3>1. IsFit
      BY <1>3, <2>2 DEF IsFit
    <3>2. Range(queue) = {}
      BY <1>1 DEF Range
    <3>3. \A c \in Components : FitWhole(c)
      BY <1>1, <2>2, <3>1, <3>2 DEF RestInv, ProgressInv
    <3>4. QED
      BY <1>1, <3>3 DEF AllCalibrated, FitWhole
  <2>3. CASE ~calibrated'
    BY <2>3 DEF AllCalibrated
  <2>4. QED
    BY <1>1, <2>1, <2>2, <2>3
<1>10. << >> \in Seq(Nat) /\ IsInjective(<< >>)
  BY DEF IsInjective
<1>11. QED
  BY <1>1, <1>4, <1>6, <1>7, <1>8, <1>9, <1>10, Settled

(* A gate is decided from the rows of its cell, and passes only on rows of   *)
(* the source that it is recorded to be about. *)
LEMMA DecidedCovered ==
  ASSUME NEW cell \in Cells, GateInv(cell), NEW told, NEW gate \in Decided(cell, told)
  PROVE  Covered(gate, cell)
<1> DEFINE rows == E1Rows(scores, cell)
           same == gates[cell] # None /\ gates[cell].rows = rows
           choices == IF same THEN {gates[cell].verdict} ELSE Statistical(rows)
<1>1. PICK v \in choices :
        gate = [gate |-> Gate(rows, v, source), verdict |-> v, rows |-> rows,
                about |-> Compute(source, flags[cell], told, cell)]
  BY DEF Decided
<1>2. \A row \in rows : row.job.of = cell /\ row.job.n > 0
  BY DEF E1Rows
<1> HIDE DEF rows
<1>3. v = "EQUIVALENT" => \A row \in rows : row.ok
  <2>1. CASE same
    BY <1>1, <2>1 DEF GateInv, Covered
  <2>2. CASE ~same
    BY <1>1, <2>2 DEF Statistical, AttritionBlocks, Verdicts
  <2>3. QED
    BY <2>1, <2>2
<1> HIDE DEF same, choices
<1>4. /\ gate.gate = Gate(rows, v, source) /\ gate.verdict = v /\ gate.rows = rows
      /\ gate.about.cell = cell /\ gate.about.source = source
  BY <1>1 DEF Compute
<1>5. gate.gate \in {"PASS", "BLOCK"}
      /\ (gate.gate = "PASS" => v = "EQUIVALENT" /\ \A row \in rows : row.print.source = source)
  BY <1>4 DEF Gate, SourceProblems
<1>6. QED
  BY <1>2, <1>3, <1>4, <1>5 DEF Covered

(* A stage that decides gates, writes the quoted one, or ends.               *)
LEMMA GateWritten ==
  ASSUME GivenInv, RestInv, UNCHANGED given, NEW cell \in Cells, NEW gate, Covered(gate, cell),
         gates' = Written(cell, gate), UNCHANGED << pred, fits >>
  PROVE  DiskInv'
<1>1. RunJobs' = RunJobs
  BY GivenKept
<1>2. DOMAIN gates' = Cells /\ gates'[cell] = gate
      /\ \A c \in Cells : c # cell => gates'[c] = gates[c]
  BY DEF Written, RestInv, DiskInv
<1>3. ASSUME NEW c \in Cells PROVE GateInv(c)'
  BY <1>2 DEF RestInv, DiskInv, GateInv
<1>4. QED
  BY <1>1, <1>2, <1>3 DEF RestInv, DiskInv, FitInv, FitWhole

LEMMA GateSteps ==
  ASSUME GivenInv, RestInv, UNCHANGED given,
         Score \/ DecideC1 \/ GateStops \/ CopyAlias \/ Analysed \/ \E c \in Cells : Regate(c)
  PROVE  RestInv'
<1>1. /\ stage # None /\ pc \in {"score", "gate", "alias", "regate"}
      /\ stage.name = (IF pc = "regate" THEN "analyse" ELSE "falsify")
      /\ stage.cell \in Cells
      /\ UNCHANGED << queue, pool, running, failed, calibrated, pred, fits, study >>
  BY DEF Score, DecideC1, GateStops, CopyAlias, Analysed, Regate, AtStep, Later, dispatch, disk,
     given, RestInv, DispatchInv, StageInv
<1>2. running = {} /\ queue = << >>
  BY <1>1 DEF RestInv, DispatchInv, QueueInv
<1>3. /\ \/ stage' = None /\ pc' = "idle"
         \/ stage' = stage /\ pc' \in {"gate", "alias"} /\ pc # "regate"
         \/ stage' = stage /\ pc' = pc /\ pc = "regate"
      /\ todo' \subseteq Cells
  <2>1. CASE Score \/ CopyAlias
    BY <2>1 DEF Score, CopyAlias, AtStep, Over, RestInv, DispatchInv, StageInv
  <2>2. CASE GateStops \/ Analysed
    BY <2>2 DEF GateStops, Analysed, AtStep, Over, RestInv, DispatchInv, StageInv
  <2>3. CASE DecideC1
    BY <2>3 DEF DecideC1, AtStep, Over, RestInv, DispatchInv, StageInv
  <2>4. ASSUME NEW c \in Cells, Regate(c) PROVE <1>3!1 /\ <1>3!2
    BY <2>4 DEF Regate, AtStep, Over, RestInv, DispatchInv, StageInv
  <2>5. QED
    BY <2>1, <2>2, <2>3, <2>4
<1>4. ~IsFit' /\ pc' # "dispatch"
  BY <1>1, <1>3 DEF IsFit
<1>5. StageInv'
  BY <1>1, <1>3, <1>4 DEF RestInv, DispatchInv, StageInv
<1>6. AllCalibrated'
  BY <1>1 DEF RestInv, AllCalibrated, FitWhole
<1>7. RunJobs' = RunJobs
  BY GivenKept
<1>8. DiskInv' /\ AliasInv'
  <2>1. CASE UNCHANGED << gates, alias >>
    <3>1. DiskInv'
      BY <1>1, <1>7, <2>1 DEF RestInv, DiskInv, GateInv, FitInv, FitWhole
    <3>2. QED
      BY <1>3, <2>1, <3>1 DEF RestInv, AliasInv, OneQuoted
  <2>2. CASE DecideC1
    <3>1. PICK gate \in Decided(stage.cell, model) : gates' = Written(stage.cell, gate)
      BY <2>2 DEF DecideC1
    <3>2. Covered(gate, stage.cell)
      BY <1>1, <3>1, DecidedCovered DEF RestInv, DiskInv
    <3>3. alias' = alias /\ pc = "gate"
      BY <2>2 DEF DecideC1, AtStep
    <3>4. AliasInv'
      BY <1>3, <3>3 DEF RestInv, AliasInv, OneQuoted
    <3>5. QED
      BY <1>1, <3>1, <3>2, <3>4, GateWritten
  <2>3. CASE CopyAlias
    <3>1. gates' = gates /\ pc' = "idle"
          /\ alias' = IF stage.cell = Primary THEN gates[stage.cell] ELSE alias
      BY <2>3 DEF CopyAlias, Quoted, Over
    <3>2. DiskInv'
      BY <1>1, <1>7, <3>1 DEF RestInv, DiskInv, GateInv, FitInv, FitWhole
    <3>3. GateInv(stage.cell)
      BY <1>1 DEF RestInv, DiskInv
    <3>4. AliasInv'
      BY <3>1, <3>3 DEF RestInv, AliasInv, OneQuoted, GateInv, Covered
    <3>5. QED
      BY <3>2, <3>4
  <2>4. ASSUME NEW c \in Cells, Regate(c) PROVE DiskInv' /\ AliasInv'
    <3>1. CASE Undecided(E1Rows(scores, c))
      BY <2>1, <2>4, <3>1 DEF Regate
    <3>2. CASE ~Undecided(E1Rows(scores, c))
      <4>1. PICK gate \in Decided(c, gates[c].about.model) :
              /\ gates' = Written(c, gate)
              /\ alias' = IF alias.about.cell = c THEN gate ELSE alias
              /\ pc' = pc /\ pc = "regate"
        BY <2>4, <3>2 DEF Regate, AtStep
      <4>2. Covered(gate, c)
        BY <4>1, DecidedCovered DEF RestInv, DiskInv
      <4>3. alias'.about.cell = Primary
        BY <4>1, <4>2 DEF RestInv, AliasInv, Covered
      <4>4. QED
        BY <1>1, <4>1, <4>2, <4>3, GateWritten DEF AliasInv, OneQuoted
    <3>3. QED
      BY <3>1, <3>2
  <2>5. CASE Score \/ GateStops \/ Analysed
    BY <2>1, <2>5 DEF Score, GateStops, Analysed, disk
  <2>6. QED
    BY <2>2, <2>3, <2>4, <2>5
<1>9. QED
  BY <1>1, <1>2, <1>4, <1>5, <1>6, <1>8, Settled DEF RestInv, DispatchInv, PoolInv

LEMMA OperatorSteps ==
  ASSUME GivenInv, RestInv, UNCHANGED given, Analyse \/ Interrupt
  PROVE  RestInv'
<1>1. RunJobs' = RunJobs
  BY GivenKept
<1>2. UNCHANGED << calibrated, pred, gates, alias, fits, study >>
  BY DEF Analyse, Interrupt, disk, given
<1>3. DiskInv' /\ AllCalibrated'
  BY <1>1, <1>2 DEF RestInv, DiskInv, GateInv, FitInv, FitWhole, AllCalibrated
<1>4. CASE Analyse
  <2>1. /\ stage = None /\ stage' = [name |-> "analyse", cell |-> Primary] /\ pc' = "regate"
        /\ todo' \subseteq Cells /\ alias # None
        /\ UNCHANGED << queue, pool, running, failed >>
    BY <1>4 DEF Analyse, dispatch
  <2>2. pc = "idle" /\ running = {} /\ queue = << >>
    BY <2>1 DEF RestInv, DispatchInv, StageInv, QueueInv
  <2>3. stage' # None /\ stage'.name = "analyse" /\ stage'.cell \in Cells
    BY <2>1, NamesAssumption, NoneAssumption DEF StageNames
  <2>4. StageInv' /\ ~IsFit'
    BY <1>2, <2>1, <2>3 DEF RestInv, DispatchInv, StageInv, IsFit
  <2>5. AliasInv'
    BY <1>2, <2>1 DEF RestInv, AliasInv, OneQuoted
  <2>6. QED
    BY <1>3, <2>1, <2>2, <2>4, <2>5, Settled DEF RestInv, DispatchInv, PoolInv
<1>5. CASE Interrupt
  <2>1. /\ stage' = None /\ pc' = "idle" /\ queue' = << >> /\ pool' = << >> /\ running' = {}
        /\ failed' = FALSE /\ todo' = {}
    BY <1>5 DEF Interrupt, Over
  <2>2. StageInv' /\ ~IsFit'
    BY <1>2, <2>1 DEF RestInv, DispatchInv, StageInv, IsFit
  <2>3. AliasInv'
    BY <1>2, <2>1 DEF RestInv, AliasInv, OneQuoted
  <2>4. << >> \in Seq(Nat) /\ IsInjective(<< >>)
    BY DEF IsInjective
  <2>5. QED
    BY <1>3, <2>1, <2>2, <2>3, <2>4, Settled
<1>6. QED
  BY <1>4, <1>5

(* What the operator edits is what no part of the invariant reads.          *)
LEMMA Untouched ==
  ASSUME GivenInv, RestInv, UNCHANGED given,
         UNCHANGED << stage, pc, dispatch, calibrated, todo, disk >>
  PROVE  RestInv'
<1>1. RunJobs' = RunJobs
  BY GivenKept
<1>2. UNCHANGED << stage, pc, queue, pool, running, failed, calibrated, todo, pred, scores, gates,
                  alias, fits, study, ports >>
  BY DEF dispatch, disk, given
<1>3. StageInv' /\ QueueInv' /\ PoolInv' /\ QueuedInv'
  BY <1>1, <1>2 DEF RestInv, DispatchInv, StageInv, QueueInv, PoolInv, QueuedInv, IsFit, Held
<1>4. DiskInv' /\ AllCalibrated' /\ AliasInv'
  BY <1>1, <1>2 DEF RestInv, DiskInv, GateInv, FitInv, FitWhole, AllCalibrated, AliasInv, OneQuoted
<1>5. ProgressInv' /\ \A r \in running' : JobInv(r)'
  BY <1>1, <1>2 DEF RestInv, ProgressInv, JobInv, FitWhole, IsFit, IsRun, Fit
<1>6. QED
  BY <1>3, <1>4, <1>5 DEF RestInv, DispatchInv

LEMMA Initially ==
  ASSUME Init
  PROVE  IInv
<1>1. GivenInv
  BY SetupAssumption DEF Init, GivenInv
<1>2. ConfigInv
  BY BoundsAssumption DEF Init, ConfigInv, Versions
<1>3. /\ stage = None /\ pc = "idle" /\ queue = << >> /\ pool = << >> /\ running = {}
      /\ failed = FALSE /\ calibrated = FALSE /\ todo = {} /\ alias = None
      /\ gates = [c \in Cells |-> None] /\ fits = [c \in Components |-> NoFit]
  BY DEF Init
<1>4. ~IsFit
  BY <1>3 DEF IsFit
<1>5. << >> \in Seq(RunJobs) /\ << >> \in Seq(Nat) /\ IsInjective(<< >>) /\ Range(<< >>) = {}
  BY DEF IsInjective, Range
<1>6. DispatchInv
  BY <1>3, <1>4, <1>5 DEF DispatchInv, StageInv, QueueInv, PoolInv, QueuedInv
<1>7. DiskInv
  <2>1. PICK old : pred = [j \in RunJobs |-> IF j \in old THEN Legacy(j) ELSE None]
    BY DEF Init
  <2>2. \A j \in RunJobs : pred[j] # None => pred[j].ok \in BOOLEAN
    BY <2>1 DEF Legacy
  <2>3. NoFit \in Files /\ NoFit.gate = None
    BY DEF NoFit, Files
  <2>4. \A c \in Components : FitInv(c)
    BY <1>3, <2>3 DEF FitInv, Files
  <2>5. \A c \in Cells : GateInv(c)
    BY <1>3 DEF GateInv
  <2>6. QED
    BY <1>3, <2>1, <2>2, <2>4, <2>5 DEF DiskInv
<1>8. AliasInv /\ AllCalibrated /\ ProgressInv
  BY <1>3, <1>4 DEF AliasInv, OneQuoted, AllCalibrated, ProgressInv
<1>9. QED
  BY <1>1, <1>2, <1>3, <1>6, <1>7, <1>8 DEF IInv, RestInv

LEMMA Inductive ==
  ASSUME IInv, [Next]_vars
  PROVE  IInv'
<1>1. GivenInv /\ ConfigInv /\ RestInv /\ UNCHANGED given
  BY GivenStep DEF IInv
<1>2. GivenInv' /\ ConfigInv'
  BY <1>1, GivenKept, ConfigStep
<1> SUFFICES RestInv'
  BY <1>2 DEF IInv
<1>3. CASE UNCHANGED vars
  BY <1>1, <1>3, Untouched DEF vars, dispatch, disk
<1>4. CASE StageStep
  BY <1>1, <1>4, LeaseStep, WaitedStep, GateSteps DEF StageStep
<1>5. ASSUME NEW r \in running, JobStep(r) \/ Crash(r) PROVE RestInv'
  BY <1>1, <1>5, JobStepKeeps
<1>6. CASE Pilot \/ Calibrate \/ AlignFull \/ \E c \in Cells : Falsify(c) \/ Full(c)
  BY <1>1, <1>6, OpenSteps
<1>7. CASE Analyse \/ Interrupt
  BY <1>1, <1>7, OperatorSteps
<1>8. CASE Edit
  BY <1>1, <1>8, Untouched DEF Edit
<1>9. QED
  BY <1>3, <1>4, <1>5, <1>6, <1>7, <1>8 DEF Next, Work, Operator

(* The inductive invariant holds in every behaviour. *)
THEOREM Invariance == Spec => []IInv
<1>1. Init => IInv
  BY Initially
<1>2. IInv /\ [Next]_vars => IInv'
  BY Inductive
<1>3. QED
  BY <1>1, <1>2, PTL DEF Spec

-----------------------------------------------------------------------------
(* What it gives. *)

LEMMA RecordsFollow ==
  ASSUME IInv
  PROVE  RecordsHonest
<1>1. GivenInv /\ ConfigInv /\ RestInv
  BY DEF IInv
<1>2. TypeOK
  <2>1. Len(pool) = Cardinality(Range(pool))
    BY <1>1, CardinalityOfRange DEF RestInv, DispatchInv, PoolInv
  <2>2. \A c \in Cells : gates[c] # None => gates[c].gate \in {"PASS", "BLOCK"}
    BY <1>1 DEF RestInv, DiskInv, GateInv, Covered
  <2>3. \A c \in Components : DOMAIN fits[c] = DOMAIN NoFit
    BY <1>1 DEF RestInv, DiskInv, FitInv, NoFit
  <2>4. /\ \A r, s \in running : r.port = s.port => r = s
        /\ pc = "dispatch" => Range(pool) \cap Held = {} /\ Range(pool) \cup Held = Range(ports)
    BY <1>1 DEF RestInv, DispatchInv, QueueInv, PoolInv
  <2>5. DOMAIN pred = RunJobs /\ \A j \in RunJobs : pred[j] # None => pred[j].ok \in BOOLEAN
    BY <1>1 DEF RestInv, DiskInv
  <2>6. /\ stage = None <=> pc = "idle"
        /\ todo \subseteq Cells /\ calibrated \in BOOLEAN /\ failed \in BOOLEAN
    BY <1>1 DEF RestInv, DispatchInv, StageInv
  <2>7. stages \in 0..MaxStages /\ edits \in 0..MaxEdits /\ faults \in 0..MaxFaults
    BY <1>1 DEF ConfigInv
  <2>8. QED
    BY <2>1, <2>2, <2>3, <2>4, <2>5, <2>6, <2>7 DEF TypeOK
<1>3. CellsApart
  BY <1>1 DEF RestInv, DiskInv, GateInv, Covered, CellsApart
<1>4. OneQuoted /\ AllCalibrated
  BY <1>1 DEF RestInv, AliasInv
<1>5. QED
  BY <1>2, <1>3, <1>4 DEF RecordsHonest

(* However stages are interrupted, jobs fail and the operator edits: a gate  *)
(* is about its own cell, the quoted gate is that of the primary cell, a     *)
(* calibrate stage that ended well left every component a whole calibration, *)
(* and every replica is free or held by one job.                             *)
THEOREM AlwaysHonest == Spec => []RecordsHonest
<1>1. IInv => RecordsHonest
  BY RecordsFollow
<1>2. QED
  BY <1>1, Invariance, PTL

(* The full sweep of a cell runs only on rows of the source on disk. *)
LEMMA FullIsCovered ==
  ASSUME IInv, NEW c \in Cells, Full(c), NEW row \in gates[c].rows
  PROVE  row.job.of = c /\ row.job.n > 0 /\ row.ok /\ row.print.source = source
<1>1. gates[c] # None /\ gates[c].gate = "PASS" /\ Diff(gates[c].about, Now(c)) = {}
  BY DEF Full, C1Passed
<1>2. Covered(gates[c], c)
  BY <1>1 DEF IInv, RestInv, DiskInv, GateInv
<1>3. gates[c].about.source = source
  <2>1. "source" \in DOMAIN Now(c) /\ Now(c)["source"] = source
    BY DEF Now, Compute
  <2>2. gates[c].about["source"] = Now(c)["source"]
    BY <1>1, <2>1 DEF Diff
  <2>3. QED
    BY <2>1, <2>2
<1>4. QED
  BY <1>1, <1>2, <1>3 DEF Covered

(* A whole calibration is skipped by the next fit of its component.         *)
LEMMA WholeIsKept ==
  ASSUME IInv, [Next]_vars, NEW c \in Components, FitWhole(c)
  PROVE  fits'[c] = fits[c]
<1>1. ASSUME NEW r \in running, PinCohort(r) \/ FitFlags(r) \/ Batch(r) \/ WriteFit(r) \/ RecordGate(r)
      PROVE  fits'[c] = fits[c]
  <2>1. JobInv(r) /\ IsFit /\ \E fit : FitSet(r, fit)
    BY <1>1 DEF IInv, RestInv, PinCohort, FitFlags, Batch, WriteFit, RecordGate
  <2>2. r.job.of # c
    <3>1. SUFFICES ASSUME r.job.of = c PROVE FALSE
      OBVIOUS
    <3>2. Fit(r).gate # None /\ FitWhole(c) /\ Fit(r) = fits[c]
      BY <3>1 DEF Fit, FitWhole
    <3>3. CASE PinCohort(r)
      <4>1. fits[c].regime # None
        <5>1. fits[c].gate \in [cal : Rows, regime : Versions] \cup {None}
          BY DEF IInv, RestInv, DiskInv, FitInv
        <5>2. fits[c].regime \in Versions
          BY <5>1 DEF FitWhole
        <5>3. QED
          BY <5>2, NoneAssumption DEF Versions
      <4>2. QED
        BY <3>2, <3>3, <4>1 DEF PinCohort, FitCached, FitWhole
    <3>4. CASE FitFlags(r) \/ Batch(r) \/ WriteFit(r) \/ RecordGate(r)
      BY <2>1, <3>2, <3>4 DEF FitFlags, Batch, WriteFit, RecordGate, JobInv, FitSteps
    <3>5. QED
      BY <1>1, <3>3, <3>4
  <2>3. QED
    BY <2>1, <2>2 DEF FitSet, IInv, RestInv, DiskInv
<1>2. ASSUME NEW r \in running, Skip(r) \/ Fingerprint(r) \/ Infer(r) \/ SkipFit(r) \/ RefuseFit(r) \/ Crash(r)
      PROVE  fits' = fits
  BY <1>2 DEF Skip, Fingerprint, Infer, SkipFit, RefuseFit, Crash, disk
<1>3. CASE StageStep
  BY <1>3 DEF StageStep, Lease, Waited, Score, DecideC1, GateStops, CopyAlias, Analysed, Regate, disk
<1>4. CASE Pilot \/ Calibrate \/ AlignFull \/ Analyse \/ Interrupt \/ Edit
            \/ \E d \in Cells : Falsify(d) \/ Full(d)
  BY <1>4 DEF Pilot, Calibrate, AlignFull, Analyse, Interrupt, Edit, Falsify, Full, Begin, disk
<1>5. CASE UNCHANGED vars
  BY <1>5 DEF vars
<1>6. QED
  BY <1>1, <1>2, <1>3, <1>4, <1>5 DEF Next, Work, Operator, JobStep

(* A good prediction is only replaced under another configuration.          *)
LEMMA GoodIsKept ==
  ASSUME IInv, [Next]_vars, NEW j \in RunJobs, pred[j] # None, pred[j].ok, pred'[j] # pred[j]
  PROVE  pred'[j].print # pred[j].print
<1>1. ASSUME NEW r \in running, Infer(r)
      PROVE  pred'[j].print # pred[j].print
  <2>1. JobInv(r) /\ r.step = "infer"
    BY <1>1 DEF IInv, RestInv, Infer
  <2>2. PICK ok \in BOOLEAN : pred' = [pred EXCEPT ![r.job] = [print |-> r.stamp, ok |-> ok]]
    BY <1>1 DEF Infer
  <2>3. j = r.job
    BY <2>2 DEF IInv, RestInv, DiskInv
  <2>4. pred'[j].print = r.stamp
    BY <2>2, <2>3 DEF IInv, RestInv, DiskInv
  <2>5. QED
    BY <2>1, <2>3, <2>4 DEF JobInv
<1>2. ASSUME NEW r \in running, ~Infer(r), JobStep(r) \/ Crash(r)
      PROVE  pred' = pred
  BY <1>2 DEF JobStep, Crash, Skip, Fingerprint, SkipFit, PinCohort, FitFlags, Batch, WriteFit,
     RecordGate, RefuseFit, FitOnly, disk
<1>3. CASE StageStep
  BY <1>3 DEF StageStep, Lease, Waited, Score, DecideC1, GateStops, CopyAlias, Analysed, Regate, disk
<1>4. CASE Pilot \/ Calibrate \/ AlignFull \/ Analyse \/ Interrupt \/ Edit
            \/ \E d \in Cells : Falsify(d) \/ Full(d)
  BY <1>4 DEF Pilot, Calibrate, AlignFull, Analyse, Interrupt, Edit, Falsify, Full, Begin, disk
<1>5. CASE UNCHANGED vars
  BY <1>5 DEF vars
<1>6. QED
  BY <1>1, <1>2, <1>3, <1>4, <1>5 DEF Next, Work, Operator

(* What a resumed stage takes from disk is fit for use, and what is fit for  *)
(* use is not made again: across edits, failures and interruptions.          *)
THEOREM AlwaysResumable == Spec => ResumesSafely
<1> DEFINE Covers == \A c \in Cells : Full(c) =>
             \A row \in gates[c].rows :
               row.job.of = c /\ row.job.n > 0 /\ row.ok /\ row.print.source = source
           Keeps ==
             /\ \A j \in RunJobs :
                  pred[j] # None /\ pred[j].ok /\ pred'[j] # pred[j] =>
                    pred'[j].print # pred[j].print
             /\ \A c \in Components : FitWhole(c) => fits'[c] = fits[c]
<1>1. IInv /\ [Next]_vars => [Covers]_vars
  BY FullIsCovered
<1>2. IInv /\ [Next]_vars => [Keeps]_vars
  BY GoodIsKept, WholeIsKept
<1>3. SourceCovered <=> [][Covers]_vars
  BY DEF SourceCovered
<1>4. NotRedone <=> [][Keeps]_vars
  BY DEF NotRedone
<1> HIDE DEF Covers, Keeps
<1>5. QED
  BY <1>1, <1>2, <1>3, <1>4, Invariance, PTL DEF Spec, ResumesSafely
=============================================================================
