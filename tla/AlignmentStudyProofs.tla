------------------------ MODULE AlignmentStudyProofs ------------------------
(***************************************************************************)
(* The study for any records, arms, ports and models, and any number of     *)
(* invocations, failures and kills: completed fits are never replaced, and  *)
(* what is scored compares like with like and is blind to what it was       *)
(* fitted on.                                                               *)
(***************************************************************************)
EXTENDS AlignmentStudy, FiniteSetTheorems, SequenceTheorems, WellFoundedInduction, TLAPS

-----------------------------------------------------------------------------
(* The study's terms as functions of the seeds and of the model.            *)

Evaluated(S) == Trajectories \ S
IndexOf(S, c) == Ordered({g \in Evaluated(S) : Component(g) = c})
JobsOf(S) == {Component(g) : g \in Evaluated(S)} \X Arms
CalibrationIn(F, j) ==
  IF j[2] \notin CalArms \/ CohortOf(j[1]) \notin DOMAIN F[j[2]].files THEN None
  ELSE F[j[2]].files[CohortOf(j[1])]

(* A fit of arm a for cohort c, made in a directory of the model from its    *)
(* seeds, each compared with its own truth.                                  *)
GoodFit(S, m, a, c, fit) ==
  /\ fit \in Fits /\ fit.arm = a /\ fit.cohort = c /\ fit.model = m
  /\ fit.used \subseteq S /\ \A p \in fit.pairs : p[1] = p[2]

(* What an output was made with.                                            *)
GoodRead(S, m, a, c, read) == read \in {None, Changed} \/ GoodFit(S, m, a, c, read)

GoodRecord(S, m, j, r) ==
  /\ DOMAIN r = {"state", "as", "model", "spans", "read"} /\ r.model = m
  /\ GoodRead(S, m, j[2], CohortOf(j[1]), r.read)
  /\ r.state = "ok" =>
       /\ DOMAIN r.spans = DOMAIN IndexOf(S, j[1])
       /\ \A i \in DOMAIN r.spans : r.spans[i] \in {IndexOf(S, j[1])[i], None}

(* A row of arm a on trajectory g, after so many faults.                     *)
GoodRow(S, m, n, a, g, row) ==
  /\ row.spans \in {g, None} /\ GoodRead(S, m, a, Cohort(g), row.read)
  /\ row.read = Changed => n > 0

GoodRows(S, m, n, a, rows) ==
  DOMAIN rows = Evaluated(S) /\ \A g \in Evaluated(S) : GoodRow(S, m, n, a, g, rows[g])

FloorRows(S, rows) ==
  DOMAIN rows = Evaluated(S) /\ \A g \in Evaluated(S) : rows[g].read \in SUBSET S

-----------------------------------------------------------------------------
(* The inductive invariant.                                                 *)

(* Nothing has been done in the output directory.                           *)
Blank ==
  /\ fits = [a \in CalArms |-> None] /\ record = NoJobs /\ merged = NoMerge
  /\ scores = [f \in {"arms", "floors"} |-> None] /\ result = None
  /\ fitting = NoJobs /\ job = NoJobs /\ free = <<>>

(* A directory has a model before anything is in it, and an invocation works *)
(* with that model, on a study that is prepared.                             *)
GroundInv ==
  /\ prepared \in {"no", "partly", "yes"} /\ seeds \in SUBSET Trajectories
  /\ marker \in Models \cup {None} /\ faults \in Nat
  /\ marker = None => Blank
  /\ prepared # "yes" => marker = None
  /\ ~Resting => marker # None /\ driver.model = marker

Commands ==
  {"idle", "completed", "error", "fit", "fitting", "labels", "run", "merge", "floors", "score",
   "combine"}

AfterFit == << "run", "score", "aggregate" >>
AfterRun == << "score", "aggregate" >>
AfterScore == << "aggregate" >>

Lefts == {<<>>, AfterScore, AfterRun, AfterFit}

Drivers == [at : Commands, arm : DOMAIN Calibrated, left : Lefts, model : Models \cup {None}]

(* The stages come in their order, so that no thread of one is there in      *)
(* another, and jobs run on manifests that are all there.                    *)
ControlInv ==
  /\ driver \in Drivers
  /\ driver.at \in {"fit", "fitting"} => driver.left \in {<<>>, AfterFit}
  /\ driver.at \in {"labels", "run"} => driver.left \in {<<>>, AfterRun}
  /\ driver.at \in {"merge", "floors", "score"} => driver.left \in {<<>>, AfterScore}
  /\ driver.at = "combine" => driver.left = <<>>
  /\ fitting # NoJobs => driver.at = "fitting"
  /\ driver.at \in {"fit", "fitting", "labels"} => job = NoJobs
  /\ driver.at = "run" /\ job # NoJobs =>
       \A a \in CalArms : fits[a] # None

(* A thread has a port from its lease to its end.                            *)
FitThreads ==
  [step : {"wait", "fit", "failed", "done"}, port : Range(Ports) \cup {None},
   fit : Fits \cup {None}]
JobThreads ==
  [step : {"wait", "arm", "tool", "ran", "bad", "ok", "failed"},
   port : Range(Ports) \cup {None}, read : Fits \cup {None, Changed}]
Leased == {"fit", "arm", "tool", "ran", "bad"}

LeasesOK(lease) ==
  \A t \in DOMAIN lease : lease[t].port # None <=> lease[t].step \in Leased

PoolInv ==
  /\ fitting \in [DOMAIN fitting -> FitThreads] /\ job \in [DOMAIN job -> JobThreads]
  /\ LeasesOK(fitting) /\ LeasesOK(job)
  /\ free \in Seq(Range(Ports))
  /\ IsInjective(free) /\ Range(free) \cap Held = {}
  /\ OnePortEach(fitting) /\ OnePortEach(job)
  /\ (driver.at = "fitting" \/ job # NoJobs) /\ driver.at \in {"fitting", "run"}
       => Range(free) \cup Held = Range(Ports)

FitsInv ==
  /\ DOMAIN fits = CalArms
  /\ \A a \in CalArms : fits[a] # None =>
       /\ fits[a].model = marker
       /\ \A c \in DOMAIN fits[a].files : GoodFit(seeds, marker, a, c, fits[a].files[c])
  /\ driver.at = "fitting" =>
       /\ fits[Arm] = None
       /\ \A c \in DOMAIN fitting : fitting[c].step = "done" =>
            GoodFit(seeds, marker, Arm, c, fitting[c].fit)
  /\ \A c \in DOMAIN fitting : c \in {Cohort(g) : g \in Trajectories}

(* A record with a changed calibration is on its way to be replaced, unless  *)
(* there was a kill or an unwritten failure record.                          *)
Doomed(j) ==
  /\ driver.at = "run" /\ j \in DOMAIN job /\ job[j].step = "ran"
  /\ tampered /\ CalibrationIn(fits, j) # None

RecordInv ==
  /\ DOMAIN record \subseteq JobsOf(seeds) /\ DOMAIN job \subseteq DOMAIN record
  /\ \A j \in DOMAIN record : record[j] # None =>
       /\ GoodRecord(seeds, marker, j, record[j])
       /\ record[j].read = Changed => faults > 0 \/ Doomed(j)

ScoreInv ==
  /\ DOMAIN merged = Arms
  /\ \A a \in Arms : merged[a] = None \/ GoodRows(seeds, marker, faults, a, merged[a])
  /\ driver.at \in {"floors", "score"} =>
       \A a \in Arms : GoodRows(seeds, marker, faults, a, merged[a])
  /\ DOMAIN scores = {"arms", "floors"}
  /\ scores["arms"] # None =>
       /\ DOMAIN scores["arms"] = Arms
       /\ \A a \in Arms : GoodRows(seeds, marker, faults, a, scores["arms"][a])
  /\ scores["floors"] # None =>
       DOMAIN scores["floors"] = Floors /\ \A f \in Floors : FloorRows(seeds, scores["floors"][f])
  /\ result # None =>
       /\ DOMAIN result = Arms \cup Floors
       /\ \A a \in Arms : GoodRows(seeds, marker, faults, a, result[a])
       /\ \A f \in Floors : FloorRows(seeds, result[f])

IInv == GroundInv /\ ControlInv /\ PoolInv /\ FitsInv /\ RecordInv /\ ScoreInv

-----------------------------------------------------------------------------
(* Natural numbers: the least of a set, and induction for a set.            *)

Below == {p \in Nat \X Nat : p[1] < p[2]}

LEMMA BelowWellFounded == IsWellFoundedOn(Below, Nat)
BY NatLessThanWellFounded DEF OpToRel, Below

LEMMA LeastNat ==
  ASSUME NEW S \in SUBSET Nat, S # {}
  PROVE  \E m \in S : \A n \in S : m <= n
<1>1. PICK m \in S : \A n \in S : << n, m >> \notin Below
  BY BelowWellFounded, WFMin
<1>2. \A n \in S : n \in Nat /\ m \in Nat /\ ~ (n < m)
  BY <1>1 DEF Below
<1>3. \A n \in S : m <= n
  BY <1>2
<1>4. QED
  BY <1>3

LEMMA InductionOnSets ==
  \A S \in SUBSET Nat : 0 \in S /\ (\A n \in S : n + 1 \in S) => Nat \subseteq S
<1> TAKE S \in SUBSET Nat
<1> HAVE 0 \in S /\ \A n \in S : n + 1 \in S
<1> DEFINE T == Nat \ S
<1>1. ASSUME T # {} PROVE FALSE
  <2>1. PICK m \in T : \A n \in T : m <= n
    BY <1>1, LeastNat
  <2>2. m # 0 /\ m - 1 \in Nat /\ m = (m - 1) + 1 /\ ~ (m <= m - 1)
    BY <2>1
  <2>3. m - 1 \in S
    BY <2>1, <2>2
  <2>4. QED
    BY <2>1, <2>2, <2>3
<1>2. QED
  BY <1>1

-----------------------------------------------------------------------------
(* Every set of positions can be put in order.                              *)

IsOrder(s, S) ==
  /\ s \in [1 .. Cardinality(S) -> S]
  /\ Range(s) = S
  /\ \A i, j \in DOMAIN s : i < j => s[i] < s[j]

LEMMA ExtendOrder ==
  ASSUME NEW n \in Nat, NEW S \in SUBSET (1 .. n + 1), n + 1 \in S,
         NEW s, IsOrder(s, S \ {n + 1})
  PROVE  \E t : IsOrder(t, S)
<1> DEFINE R == S \ {n + 1}  c == Cardinality(R)
           t == [i \in 1 .. c + 1 |-> IF i = c + 1 THEN n + 1 ELSE s[i]]
<1>1. IsFiniteSet(R) /\ S = R \cup {n + 1} /\ n + 1 \notin R
  <2>1. IsFiniteSet(1 .. n + 1)
    BY FS_Interval
  <2>2. QED
    BY <2>1, FS_Subset
<1>2. c \in Nat /\ Cardinality(S) = c + 1
  BY <1>1, FS_CardinalityType, FS_AddElement
<1> HIDE DEF c
<1>3. s \in [1 .. c -> R] /\ Range(s) = R /\ \A i, j \in DOMAIN s : i < j => s[i] < s[j]
  BY DEF IsOrder, c
<1>4. \A i \in 1 .. c : t[i] = s[i] /\ s[i] \in R /\ s[i] < n + 1
  <2>1. TAKE i \in 1 .. c
  <2>2. i \in 1 .. c + 1 /\ i # c + 1
    BY <1>2
  <2>3. s[i] \in R
    BY <1>3
  <2>4. s[i] \in 1 .. n + 1 /\ s[i] # n + 1
    BY <2>3
  <2>5. QED
    BY <2>2, <2>3, <2>4
<1>5. t[c + 1] = n + 1 /\ DOMAIN t = 1 .. c + 1
  BY <1>2
<1> HIDE DEF t, R
<1>6. \A i \in 1 .. c + 1 : i \in 1 .. c \/ i = c + 1
  BY <1>2
<1>7. t \in [1 .. c + 1 -> S]
  <2>1. t = [i \in 1 .. c + 1 |-> t[i]]
    BY DEF t
  <2>2. \A i \in 1 .. c + 1 : t[i] \in S
    BY <1>1, <1>4, <1>5, <1>6
  <2>3. QED
    BY <2>1, <2>2
<1>8. Range(t) = S
  <2>1. \A x \in S : \E i \in 1 .. c + 1 : t[i] = x
    <3>1. TAKE x \in S
    <3>2. CASE x = n + 1
      BY <3>2, <1>2, <1>5
    <3>3. CASE x \in R
      <4>1. PICK i \in 1 .. c : s[i] = x
        BY <3>3, <1>3 DEF Range
      <4>2. i \in 1 .. c + 1
        BY <1>2
      <4>3. QED
        BY <4>1, <4>2, <1>4
    <3>4. QED
      BY <3>1, <3>2, <3>3, <1>1
  <2>2. QED
    BY <2>1, <1>5, <1>7 DEF Range
<1>9. \A i, j \in DOMAIN t : i < j => t[i] < t[j]
  <2>1. SUFFICES ASSUME NEW i \in 1 .. c + 1, NEW j \in 1 .. c + 1, i < j
                 PROVE  t[i] < t[j]
    BY <1>5
  <2>2. i \in 1 .. c
    BY <2>1, <1>2
  <2>3. CASE j = c + 1
    BY <2>2, <2>3, <1>4, <1>5
  <2>4. CASE j \in 1 .. c
    BY <2>1, <2>2, <2>4, <1>3, <1>4
  <2>5. QED
    BY <2>3, <2>4, <1>6
<1>10. QED
  BY <1>2, <1>7, <1>8, <1>9 DEF IsOrder

LEMMA OrderExists ==
  ASSUME NEW n \in Nat, NEW S \in SUBSET (1 .. n)
  PROVE  \E s : IsOrder(s, S)
<1> DEFINE K == {k \in Nat : \A R \in SUBSET (1 .. k) : \E s : IsOrder(s, R)}
<1>1. 0 \in K
  <2>1. \A R \in SUBSET (1 .. 0) : R = {}
    OBVIOUS
  <2>2. IsOrder(<< >>, {})
    BY FS_EmptySet DEF IsOrder, Range
  <2>3. QED
    BY <2>1, <2>2
<1>2. \A k \in K : k + 1 \in K
  <2>1. TAKE k \in K
  <2>2. SUFFICES ASSUME NEW R \in SUBSET (1 .. k + 1) PROVE \E s : IsOrder(s, R)
    OBVIOUS
  <2>3. R \ {k + 1} \in SUBSET (1 .. k)
    OBVIOUS
  <2>4. PICK s : IsOrder(s, R \ {k + 1})
    BY <2>3
  <2>5. CASE k + 1 \in R
    BY <2>4, <2>5, ExtendOrder
  <2>6. CASE k + 1 \notin R
    <3>1. R \ {k + 1} = R
      BY <2>6
    <3>2. QED
      BY <2>4, <3>1
  <2>7. QED
    BY <2>5, <2>6
<1>3. Nat \subseteq K
  <2>1. K \in SUBSET Nat
    OBVIOUS
  <2> HIDE DEF K
  <2>2. 0 \in K /\ (\A k \in K : k + 1 \in K) => Nat \subseteq K
    BY <2>1, InductionOnSets
  <2>3. QED
    BY <2>2, <1>1, <1>2
<1>4. QED
  BY <1>3

LEMMA OrderedOf ==
  ASSUME NEW n \in Nat, NEW S \in SUBSET (1 .. n)
  PROVE  Ordered(S) \in [1 .. Cardinality(S) -> S]
<1>1. PICK s : IsOrder(s, S)
  BY OrderExists
<1>2. QED
  BY <1>1 DEF IsOrder, Ordered

(* What stands in an index map is a trajectory of its component.             *)
LEMMA Indexed ==
  ASSUME NEW S, NEW c, NEW i \in DOMAIN IndexOf(S, c)
  PROVE  IndexOf(S, c)[i] \in Evaluated(S) /\ Component(IndexOf(S, c)[i]) = c
<1> DEFINE G == {g \in Evaluated(S) : Component(g) = c}
<1>1. G \in SUBSET (1 .. Len(Records)) /\ Len(Records) \in Nat
  BY StudyAssumption DEF Evaluated, Trajectories
<1>2. Ordered(G) \in [1 .. Cardinality(G) -> G]
  BY <1>1, OrderedOf
<1>3. IndexOf(S, c) = Ordered(G)
  BY DEF IndexOf
<1>4. Ordered(G)[i] \in G
  BY <1>2, <1>3
<1>5. QED
  BY <1>3, <1>4

LEMMA Terms ==
  /\ Eval = Evaluated(seeds) /\ Jobs = JobsOf(seeds)
  /\ \A c : IndexMap(c) = IndexOf(seeds, c) /\ Copied(c) = IndexOf(seeds, c)
  /\ \A j : Calibration(j) = CalibrationIn(fits, j)
BY DEF Eval, Evaluated, Jobs, JobsOf, Components, IndexMap, Copied, IndexOf, Calibration,
       CalibrationIn

-----------------------------------------------------------------------------
(* Queues.                                                                  *)

LEMMA Taken ==
  ASSUME NEW S, NEW q \in Seq(S), q # <<>>, IsInjective(q)
  PROVE  /\ Head(q) \in S /\ Tail(q) \in Seq(S) /\ IsInjective(Tail(q))
         /\ Range(q) = {Head(q)} \cup Range(Tail(q)) /\ Head(q) \notin Range(Tail(q))
<1>1. Len(q) \in Nat /\ Len(q) >= 1 /\ DOMAIN q = 1 .. Len(q) /\ Head(q) = q[1]
  BY EmptySeq, LenProperties
<1>2. /\ Tail(q) \in Seq(S) /\ Len(Tail(q)) = Len(q) - 1 /\ DOMAIN Tail(q) = 1 .. Len(q) - 1
      /\ \A i \in 1 .. Len(q) - 1 : Tail(q)[i] = q[i + 1]
  BY <1>1
<1>3. IsInjective(Tail(q))
  BY <1>1, <1>2 DEF IsInjective
<1>4. Range(q) = {Head(q)} \cup Range(Tail(q))
  <2>1. \A x \in Range(q) : x \in {Head(q)} \cup Range(Tail(q))
    <3>1. TAKE x \in Range(q)
    <3>2. PICK i \in 1 .. Len(q) : q[i] = x
      BY <1>1 DEF Range
    <3>3. CASE i = 1
      BY <3>2, <3>3, <1>1
    <3>4. CASE i # 1
      <4>1. i - 1 \in 1 .. Len(q) - 1 /\ (i - 1) + 1 = i
        BY <3>4, <1>1
      <4>2. QED
        BY <4>1, <3>2, <1>2 DEF Range
    <3>5. QED
      BY <3>3, <3>4
  <2>2. \A i \in 1 .. Len(q) - 1 : i + 1 \in 1 .. Len(q)
    BY <1>1
  <2>3. QED
    BY <2>1, <2>2, <1>1, <1>2 DEF Range
<1>5. Head(q) \notin Range(Tail(q))
  BY <1>1, <1>2 DEF IsInjective, Range
<1>6. QED
  BY <1>1, <1>2, <1>3, <1>4, <1>5

LEMMA Returned ==
  ASSUME NEW S, NEW q \in Seq(S), NEW x \in S, IsInjective(q), x \notin Range(q)
  PROVE  /\ Append(q, x) \in Seq(S) /\ IsInjective(Append(q, x))
         /\ Range(Append(q, x)) = Range(q) \cup {x}
<1>1. Len(q) \in Nat /\ DOMAIN q = 1 .. Len(q)
  BY LenProperties
<1>2. /\ Append(q, x) \in Seq(S) /\ DOMAIN Append(q, x) = 1 .. Len(q) + 1
      /\ \A i \in 1 .. Len(q) : Append(q, x)[i] = q[i]
      /\ Append(q, x)[Len(q) + 1] = x
  BY <1>1
<1>3. \A i \in 1 .. Len(q) + 1 : i \in 1 .. Len(q) \/ i = Len(q) + 1
  BY <1>1
<1>4. IsInjective(Append(q, x))
  BY <1>1, <1>2, <1>3 DEF IsInjective, Range
<1>5. Range(Append(q, x)) = Range(q) \cup {x}
  <2>1. Len(q) + 1 \in 1 .. Len(q) + 1 /\ \A i \in 1 .. Len(q) : i \in 1 .. Len(q) + 1
    BY <1>1
  <2>2. QED
    BY <2>1, <1>1, <1>2, <1>3 DEF Range
<1>6. QED
  BY <1>2, <1>4, <1>5

-----------------------------------------------------------------------------
(* The ground: seeds and model stay as they are once there is anything.      *)

LEMMA InitInv == Init => IInv
<1> HAVE Init
<1>1. /\ driver = [at |-> "idle", arm |-> 1, left |-> <<>>, model |-> None]
      /\ 1 \in DOMAIN Calibrated /\ Blank /\ marker = None
  BY StudyAssumption DEF Init, Idle, Blank
<1>2. GroundInv
  BY <1>1 DEF Init, GroundInv, Resting
<1>3. ControlInv
  BY <1>1 DEF ControlInv, Drivers, Commands, Lefts, Blank
<1>4. PoolInv
  BY <1>1 DEF PoolInv, Blank, NoJobs, LeasesOK, Held, PortsOf, OnePortEach, IsInjective, Range
<1>5. FitsInv
  BY <1>1 DEF FitsInv, Blank, NoJobs
<1>6. RecordInv
  BY <1>1 DEF RecordInv, Blank, NoJobs
<1>7. ScoreInv
  BY <1>1 DEF ScoreInv, Blank, NoMerge
<1>8. QED
  BY <1>2, <1>3, <1>4, <1>5, <1>6, <1>7 DEF IInv

(* Steps that are not the first ones.                                       *)
Steady == UNCHANGED << seeds, prepared, marker >> /\ faults' \in Nat /\ faults' >= faults

LEMMA WorkSteady ==
  ASSUME IInv, Work \/ Killed \/ Tamper
  PROVE  Steady /\ marker # None
<1>1. faults \in Nat
  BY DEF IInv, GroundInv
<1>2. ASSUME Work PROVE Steady /\ ~Resting
  <2>1. ASSUME FitArm \/ FitManifest \/ Labels \/ Dispatch \/ RunRefused \/ Summarise
               \/ Merge \/ ScoreFloors \/ ScoreArms \/ Combine
        PROVE  Steady /\ ~Resting
    BY <1>1, <2>1 DEF FitArm, FitManifest, Labels, Dispatch, RunRefused, Summarise, Merge,
       ScoreFloors, ScoreArms, Combine, Steady, Resting, prep, disk, threads, bounds
  <2>2. ASSUME NEW c \in DOMAIN fitting, LeaseFit(c) \/ FitFails(c) \/ Fit(c)
        PROVE  Steady /\ ~Resting
    BY <1>1, <2>2 DEF LeaseFit, FitFails, Fit, FitThread, FitKept, Failure, Steady, Resting, prep,
       disk, threads, bounds
  <2>3. ASSUME NEW j \in DOMAIN job,
               Lease(j) \/ ArmCached(j) \/ Tool(j) \/ ArmRecords(j) \/ ArmFails(j) \/ Succeeds(j)
        PROVE  Steady /\ ~Resting
    BY <1>1, <2>3 DEF Lease, ArmCached, Tool, ArmRecords, ArmFails, Succeeds, Thread, Failure, Kept,
       Quiet, Steady, Resting, prep, bounds
  <2>4. ASSUME NEW j \in DOMAIN job, LeaseFails(j) \/ JobFails(j)
        PROVE  Steady /\ ~Resting
    BY <1>1, <2>4 DEF LeaseFails, JobFails, Fails, Thread, Kept, Quiet, Steady, Resting, prep, bounds
  <2>5. QED
    BY <1>2, <2>1, <2>2, <2>3, <2>4 DEF Work
<1>3. ASSUME Killed PROVE Steady /\ ~Resting
  BY <1>1, <1>3 DEF Killed, Steady, prep
<1>4. ASSUME Tamper PROVE Steady /\ marker # None
  <2>1. marker # None
    BY <1>4 DEF Tamper, IInv, GroundInv, Blank
  <2>2. QED
    BY <1>1, <1>4, <2>1 DEF Tamper, Steady, prep, disk
<1>5. QED
  BY <1>2, <1>3, <1>4 DEF IInv, GroundInv

LEMMA StepsAre ==
  ASSUME IInv, Next
  PROVE  \/ Plan \/ Materialize \/ Begin
         \/ Steady /\ marker # None /\ (Work \/ Killed \/ Tamper)
BY WorkSteady DEF Next

(* The moves of the driver.                                                 *)
LEMMA LeftsDiffer ==
  /\ <<>> \notin {AfterFit, AfterRun, AfterScore}
  /\ AfterFit \notin {AfterRun, AfterScore} /\ AfterRun # AfterScore
<1>1. Len(AfterFit) = 3 /\ Len(AfterRun) = 2 /\ Len(AfterScore) = 1 /\ Len(<<>>) = 0
  BY DEF AfterFit, AfterRun, AfterScore
<1>2. QED
  BY <1>1

LEMMA Idles ==
  \A c \in {"idle", "completed", "error"} :
    /\ [Idle EXCEPT !.at = c] \in Drivers /\ [Idle EXCEPT !.at = c].at = c
    /\ [Idle EXCEPT !.at = c].left = <<>>
BY StudyAssumption DEF Idle, Drivers, Commands, Lefts

LEMMA Goes ==
  ASSUME driver \in Drivers, NEW c \in Commands, Goto(c)
  PROVE  /\ driver' \in Drivers /\ driver'.at = c
         /\ driver'.left = driver.left /\ driver'.model = driver.model /\ driver'.arm = driver.arm
BY DEF Goto, Drivers

LEMMA Stops ==
  ASSUME Stop PROVE driver' \in Drivers /\ driver'.at = "error" /\ driver'.left = <<>>
BY Idles DEF Stop

LEMMA Continues ==
  ASSUME driver \in Drivers, NextStage
  PROVE  /\ driver' \in Drivers
         /\ driver'.at = "completed" \/ driver'.model = driver.model
         /\ \/ driver.left = <<>> /\ driver'.at = "completed" /\ driver'.left = <<>>
            \/ driver.left = AfterFit /\ driver'.at = "labels" /\ driver'.left = AfterRun
            \/ driver.left = AfterRun /\ driver'.at = "merge" /\ driver'.left = AfterScore
            \/ driver.left = AfterScore /\ driver'.at = "combine" /\ driver'.left = <<>>
<1>1. CASE driver.left = <<>>
  BY <1>1, Idles DEF NextStage
<1>2. ASSUME driver.left # <<>>
      PROVE  /\ driver' = [driver EXCEPT !.at = FirstCommand[Head(driver.left)], !.arm = 1,
                                         !.left = Tail(driver.left)]
             /\ 1 \in DOMAIN Calibrated
  BY <1>2, StudyAssumption DEF NextStage
<1>3. CASE driver.left = AfterFit
  <2>1. Head(driver.left) = "run" /\ Tail(driver.left) = AfterRun /\ driver.left # <<>>
    BY <1>3 DEF AfterFit, AfterRun
  <2>2. FirstCommand["run"] = "labels"
    BY DEF FirstCommand
  <2>3. QED
    BY <1>2, <1>3, <2>1, <2>2 DEF Drivers, Commands, Lefts
<1>4. CASE driver.left = AfterRun
  <2>1. Head(driver.left) = "score" /\ Tail(driver.left) = AfterScore /\ driver.left # <<>>
    BY <1>4 DEF AfterRun, AfterScore
  <2>2. FirstCommand["score"] = "merge"
    BY DEF FirstCommand
  <2>3. QED
    BY <1>2, <1>4, <2>1, <2>2 DEF Drivers, Commands, Lefts
<1>5. CASE driver.left = AfterScore
  <2>1. Head(driver.left) = "aggregate" /\ Tail(driver.left) = <<>> /\ driver.left # <<>>
    BY <1>5 DEF AfterScore
  <2>2. FirstCommand["aggregate"] = "combine"
    BY DEF FirstCommand
  <2>3. QED
    BY <1>2, <1>5, <2>1, <2>2 DEF Drivers, Commands, Lefts
<1>6. QED
  BY <1>1, <1>3, <1>4, <1>5 DEF Drivers, Lefts

LEMMA Begins ==
  ASSUME Begin
  PROVE  /\ driver' \in Drivers /\ driver'.model = marker'
         /\ \/ driver'.at = "fit" /\ driver'.left \in {<<>>, AfterFit}
            \/ driver'.at \in {"labels", "merge", "combine"} /\ driver'.left = <<>>
<1>1. PICK model \in Models, stages \in {Stages} \cup {<< s >> : s \in Range(Stages)} :
        /\ marker' = model
        /\ driver' = [at |-> FirstCommand[Head(stages)], arm |-> 1,
                      left |-> Tail(stages), model |-> model]
  BY DEF Begin
<1>2. 1 \in DOMAIN Calibrated
  BY StudyAssumption
<1>3. CASE stages = Stages
  <2>1. Head(stages) = "fit" /\ Tail(stages) = AfterFit /\ FirstCommand["fit"] = "fit"
    BY <1>3 DEF Stages, AfterFit, FirstCommand
  <2>2. QED
    BY <1>1, <1>2, <2>1 DEF Drivers, Commands, Lefts
<1>4. CASE stages # Stages
  <2>1. PICK s \in Range(Stages) : stages = << s >>
    BY <1>1, <1>4
  <2>2. s \in {"fit", "run", "score", "aggregate"}
    <3>1. DOMAIN Stages = 1 .. 4 /\ \A i \in 1 .. 4 : Stages[i] \in {"fit", "run", "score", "aggregate"}
      BY DEF Stages
    <3>2. QED
      BY <3>1 DEF Range
  <2>3. Head(stages) = s /\ Tail(stages) = <<>>
    BY <2>1
  <2>4. FirstCommand[s] \in {"fit", "labels", "merge", "combine"}
    BY <2>2 DEF FirstCommand
  <2>5. QED
    BY <1>1, <1>2, <2>3, <2>4 DEF Drivers, Commands, Lefts
<1>5. QED
  BY <1>3, <1>4
-----------------------------------------------------------------------------
(* What the threads leave alone.                                            *)

FitWork(c) == LeaseFit(c) \/ FitFails(c) \/ Fit(c)
JobWork(j) ==
  \/ Lease(j) \/ LeaseFails(j) \/ ArmCached(j) \/ Tool(j) \/ ArmRecords(j)
  \/ ArmFails(j) \/ Succeeds(j) \/ JobFails(j)

LEMMA FitLeaves ==
  ASSUME NEW c \in DOMAIN fitting, FitWork(c)
  PROVE  /\ driver.at = "fitting" /\ UNCHANGED << prep, disk, job, driver, tampered, faults >>
         /\ DOMAIN fitting' = DOMAIN fitting
BY DEF FitWork, LeaseFit, FitFails, Fit, FitThread, FitKept, Failure, bounds

LEMMA JobLeaves ==
  ASSUME NEW j \in DOMAIN job, JobWork(j)
  PROVE  /\ driver.at = "run" /\ UNCHANGED << prep, Quiet, fitting, driver, tampered >>
         /\ DOMAIN job' = DOMAIN job /\ DOMAIN record' = DOMAIN record
         /\ \A i \in DOMAIN job \ {j} : job'[i] = job[i]
         /\ \A i \in DOMAIN record \ {j} : record'[i] = record[i]
<1>1. CASE Lease(j) \/ ArmCached(j) \/ Tool(j) \/ Succeeds(j)
  BY <1>1 DEF Lease, ArmCached, Tool, Succeeds, Thread, Kept, Quiet, bounds
<1>2. CASE LeaseFails(j) \/ JobFails(j)
  BY <1>2 DEF LeaseFails, JobFails, Fails, Thread, Kept, Quiet
<1>3. CASE ArmRecords(j)
  BY <1>3 DEF ArmRecords, Failure, Thread, Kept, Quiet, bounds
<1>4. CASE ArmFails(j)
  BY <1>4 DEF ArmFails, Failure, Thread, Kept, Quiet, bounds
<1>5. QED
  BY <1>1, <1>2, <1>3, <1>4 DEF JobWork

LEMMA WorkIs ==
  Work => \/ FitArm \/ FitManifest \/ Labels \/ Dispatch \/ RunRefused \/ Summarise
          \/ Merge \/ ScoreFloors \/ ScoreArms \/ Combine
          \/ \E c \in DOMAIN fitting : FitWork(c)
          \/ \E j \in DOMAIN job : JobWork(j)
BY DEF Work, FitWork, JobWork

-----------------------------------------------------------------------------
(* An invocation begins on a directory of its model, and so far nothing was  *)
(* done in a directory without one.                                         *)

Quiescent == Blank /\ driver.at \notin {"fitting", "floors", "score"}

LEMMA BlankRest == Quiescent /\ seeds \in SUBSET Trajectories => PoolInv /\ FitsInv /\ RecordInv /\ ScoreInv
<1> HAVE Quiescent /\ seeds \in SUBSET Trajectories
<1>1. PoolInv
  BY DEF Quiescent, PoolInv, Blank, NoJobs, LeasesOK, Held, PortsOf, OnePortEach, IsInjective, Range
<1>2. FitsInv
  BY DEF Quiescent, FitsInv, Blank, NoJobs
<1>3. RecordInv
  BY DEF Quiescent, RecordInv, Blank, NoJobs
<1>4. ScoreInv
  BY DEF Quiescent, ScoreInv, Blank, NoMerge
<1>5. QED
  BY <1>1, <1>2, <1>3, <1>4

LEMMA PlanRests ==
  ASSUME IInv, Plan \/ Materialize
  PROVE  Quiescent' /\ GroundInv' /\ ControlInv'
<1>1. marker = None /\ Blank /\ Resting
  BY DEF Plan, Materialize, IInv, GroundInv
<1>2. UNCHANGED << disk, threads, bounds, driver >>
  BY DEF Plan, Materialize
<1>3. prepared' \in {"no", "partly", "yes"} /\ seeds' \in SUBSET Trajectories
  BY StudyAssumption DEF Plan, Materialize, IInv, GroundInv
<1>4. Blank'
  BY <1>1, <1>2 DEF Blank, disk, threads
<1>5. Quiescent'
  BY <1>1, <1>2, <1>4 DEF Quiescent, Resting
<1>6. GroundInv'
  BY <1>1, <1>2, <1>3, <1>4 DEF IInv, GroundInv, disk, bounds, Resting
<1>7. ControlInv'
  BY <1>1, <1>2 DEF IInv, ControlInv, disk, threads, bounds
<1>8. QED
  BY <1>5, <1>6, <1>7

LEMMA BeginGround ==
  ASSUME IInv, Begin
  PROVE  GroundInv' /\ ControlInv' /\ seeds' = seeds /\ faults' = faults
<1>1. /\ marker' \in Models /\ prepared = "yes" /\ marker' # None
      /\ UNCHANGED << prep, fits, record, merged, scores, result, faults >>
      /\ fitting' = NoJobs /\ job' = NoJobs /\ free' = <<>>
  BY StudyAssumption DEF Begin
<1>2. /\ driver' \in Drivers /\ driver'.model = marker'
      /\ \/ driver'.at = "fit" /\ driver'.left \in {<<>>, AfterFit}
         \/ driver'.at \in {"labels", "merge", "combine"} /\ driver'.left = <<>>
  BY Begins
<1>3. GroundInv'
  BY <1>1, <1>2 DEF IInv, GroundInv, prep
<1>4. ControlInv'
  BY <1>1, <1>2 DEF ControlInv
<1>5. QED
  BY <1>1, <1>3, <1>4 DEF prep

LEMMA BeginQuiet ==
  ASSUME IInv, Begin, marker = None
  PROVE  Quiescent'
<1>1. Blank
  BY DEF IInv, GroundInv
<1>2. /\ UNCHANGED << fits, record, merged, scores, result >>
      /\ fitting' = NoJobs /\ job' = NoJobs /\ free' = <<>>
  BY DEF Begin
<1>3. driver'.at \in {"fit", "labels", "merge", "combine"}
  BY Begins
<1>4. QED
  BY <1>1, <1>2, <1>3 DEF Blank, Quiescent

LEMMA BeginSame ==
  ASSUME IInv, Begin, marker # None
  PROVE  marker' = marker
BY DEF Begin, SameRun, IInv, GroundInv

-----------------------------------------------------------------------------
(* The ground and the control: every later step.                            *)

LEMMA ControlStep ==
  ASSUME IInv, Work \/ Killed \/ Tamper
  PROVE  ControlInv' /\ (~Resting' => driver'.model = driver.model)
<1> USE DEF IInv
<1>0. ControlInv /\ driver \in Drivers
  BY DEF ControlInv
<1>1. CASE FitArm
  <2>1. CASE MayFit(Arm)
    <3>1. Goto("fitting") /\ UNCHANGED << fits, job >>
      BY <1>1, <2>1 DEF FitArm, disk
    <3>2. QED
      BY <1>0, <1>1, <3>1, Goes DEF ControlInv, FitArm, Commands
  <2>2. CASE ~MayFit(Arm)
    <3>1. Stop /\ UNCHANGED << fits, job, fitting >>
      BY <1>1, <2>2 DEF FitArm, disk
    <3>2. QED
      BY <1>0, <1>1, <3>1, Stops DEF ControlInv, FitArm, Resting
  <2>3. QED
    BY <2>1, <2>2
<1>2. CASE FitManifest
  <2>1. driver.at = "fitting" /\ fitting' = NoJobs /\ job' = job /\ job = NoJobs
    BY <1>0, <1>2 DEF FitManifest, ControlInv
  <2>2. CASE driver.arm < Len(Calibrated)
    <3>1. driver' = [driver EXCEPT !.at = "fit", !.arm = driver.arm + 1]
      BY <1>2, <2>2 DEF FitManifest
    <3>2. driver.arm + 1 \in DOMAIN Calibrated
      BY <1>0, <2>2, StudyAssumption DEF Drivers
    <3>3. driver' \in Drivers /\ driver'.at = "fit" /\ driver'.left = driver.left
      BY <1>0, <3>1, <3>2 DEF Drivers, Commands
    <3>4. driver'.model = driver.model
      BY <1>0, <3>1 DEF Drivers
    <3>5. QED
      BY <1>0, <2>1, <3>3, <3>4 DEF ControlInv
  <2>3. CASE ~ (driver.arm < Len(Calibrated))
    <3>1. NextStage
      BY <1>2, <2>3 DEF FitManifest
    <3>2. QED
      BY <1>0, <2>1, <3>1, Continues DEF ControlInv, Resting, AfterFit, AfterRun, AfterScore
  <2>4. QED
    BY <2>2, <2>3
<1>3. CASE Labels
  BY <1>0, <1>3, Goes DEF Labels, Commands, ControlInv, disk, threads
<1>4. CASE Dispatch
  BY <1>0, <1>4 DEF Dispatch, ControlInv, ManifestsGood
<1>5. CASE RunRefused
  BY <1>0, <1>5, Continues, Stops DEF RunRefused, ControlInv, Resting, disk, threads, AfterFit,
     AfterRun, AfterScore
<1>6. CASE Summarise
  <2>1. /\ driver.at = "run" /\ (NextStage \/ Stop)
        /\ UNCHANGED << fits, threads >>
    BY <1>6 DEF Summarise
  <2>2. QED
    BY <1>0, <2>1, Continues, Stops, LeftsDiffer DEF ControlInv, Resting, threads
<1>7. CASE Merge
  BY <1>0, <1>7, Goes, Stops DEF Merge, Commands, ControlInv, Resting, threads
<1>8. CASE ScoreFloors
  BY <1>0, <1>8, Goes DEF ScoreFloors, Commands, ControlInv, threads
<1>9. CASE ScoreArms
  BY <1>0, <1>9, Continues DEF ScoreArms, ControlInv, Resting, threads, AfterFit, AfterRun, AfterScore
<1>10. CASE Combine
  BY <1>0, <1>10, Continues, Stops DEF Combine, ControlInv, Resting, threads, AfterFit, AfterRun, AfterScore
<1>11. ASSUME NEW c \in DOMAIN fitting, FitWork(c)
       PROVE  ControlInv' /\ driver' = driver
  BY <1>0, <1>11, FitLeaves DEF ControlInv, disk
<1>12. ASSUME NEW j \in DOMAIN job, JobWork(j)
       PROVE  ControlInv' /\ driver' = driver
  <2>1. job # NoJobs
    BY DEF NoJobs
  <2>2. driver.at = "run" /\ UNCHANGED << fits, fitting, driver >>
    BY <1>12, JobLeaves DEF Quiet
  <2>3. QED
    BY <1>0, <2>1, <2>2 DEF ControlInv
<1>13. CASE Killed
  <2>1. driver' \in Drivers /\ driver'.at = "idle"
    <3>1. driver' = Idle
      BY <1>13 DEF Killed
    <3>2. Idle \in Drivers /\ Idle.at = "idle"
      BY StudyAssumption DEF Idle, Drivers, Commands, Lefts
    <3>3. QED
      BY <3>1, <3>2
  <2>2. QED
    BY <1>13, <2>1 DEF Killed, ControlInv, Resting
<1>14. CASE Tamper
  BY <1>0, <1>14 DEF Tamper, disk, threads, ControlInv
<1>15. QED
  BY <1>1, <1>2, <1>3, <1>4, <1>5, <1>6, <1>7, <1>8, <1>9, <1>10, <1>11, <1>12, <1>13, <1>14, WorkIs

LEMMA GroundStep ==
  ASSUME IInv, Work \/ Killed \/ Tamper
  PROVE  GroundInv'
<1>1. Steady /\ marker # None
  BY WorkSteady
<1>2. ~Resting' => ~Resting
  <2>1. ASSUME Resting PROVE Resting'
    <3>1. ~Killed
      BY <2>1 DEF Killed
    <3>2. CASE Tamper
      BY <2>1, <3>2 DEF Tamper, Resting
    <3>3. ASSUME Work PROVE FALSE
      <4>1. ~ \E c \in DOMAIN fitting : FitWork(c)
        BY <2>1, FitLeaves DEF Resting
      <4>2. ~ \E j \in DOMAIN job : JobWork(j)
        BY <2>1, JobLeaves DEF Resting
      <4>3. QED
        BY <2>1, <3>3, <4>1, <4>2, WorkIs DEF FitArm, FitManifest, Labels, Dispatch, RunRefused,
           Summarise, Merge, ScoreFloors, ScoreArms, Combine, Resting
    <3>4. QED
      BY <3>1, <3>2, <3>3
  <2>2. QED
    BY <2>1
<1>3. ~Resting' => driver'.model = marker'
  BY <1>1, <1>2, ControlStep DEF IInv, GroundInv, Steady
<1>4. QED
  BY <1>1, <1>3 DEF Steady, IInv, GroundInv

-----------------------------------------------------------------------------
(* The pool: a port is in the queue or with one thread.                     *)

Shares(q, lease) ==
  /\ q \in Seq(Range(Ports)) /\ IsInjective(q)
  /\ OnePortEach(lease) /\ Range(q) \cap PortsOf(lease) = {}
  /\ Range(q) \cup PortsOf(lease) = Range(Ports)

LEMMA SharesStart ==
  ASSUME NEW lease, \A t \in DOMAIN lease : lease[t].port = None
  PROVE  Shares(Ports, lease)
BY StudyAssumption DEF Shares, OnePortEach, PortsOf

LEMMA SharesSame ==
  ASSUME NEW q, NEW lease, NEW next, Shares(q, lease), DOMAIN next = DOMAIN lease,
         \A t \in DOMAIN lease : next[t].port = lease[t].port
  PROVE  Shares(q, next)
BY DEF Shares, OnePortEach, PortsOf

LEMMA SharesLease ==
  ASSUME NEW q, NEW lease, NEW next, Shares(q, lease), q # <<>>, DOMAIN next = DOMAIN lease,
         NEW t \in DOMAIN lease, lease[t].port = None, next[t].port = Head(q),
         \A u \in DOMAIN lease \ {t} : next[u].port = lease[u].port
  PROVE  Shares(Tail(q), next) /\ Head(q) \in Range(Ports)
<1>1. /\ Head(q) \in Range(Ports) /\ Tail(q) \in Seq(Range(Ports)) /\ IsInjective(Tail(q))
      /\ Range(q) = {Head(q)} \cup Range(Tail(q)) /\ Head(q) \notin Range(Tail(q))
  BY Taken DEF Shares
<1>2. Head(q) # None /\ Head(q) \notin PortsOf(lease)
  BY <1>1, StudyAssumption DEF Shares
<1>3. PortsOf(next) = PortsOf(lease) \cup {Head(q)}
  <2>1. \A u \in DOMAIN next : next[u].port \in PortsOf(lease) \cup {Head(q), None}
    BY DEF PortsOf
  <2>2. \A u \in DOMAIN lease : lease[u].port # None => u # t
    OBVIOUS
  <2>3. PortsOf(lease) \subseteq PortsOf(next)
    BY <2>2 DEF PortsOf
  <2>4. Head(q) \in PortsOf(next)
    BY <1>2 DEF PortsOf
  <2>5. PortsOf(next) \subseteq PortsOf(lease) \cup {Head(q)}
    BY <2>1 DEF PortsOf
  <2>6. QED
    BY <2>3, <2>4, <2>5
<1>4. OnePortEach(next)
  <2>1. \A u \in DOMAIN lease \ {t} : next[u].port # Head(q)
    BY <1>2 DEF PortsOf
  <2>2. QED
    BY <2>1 DEF OnePortEach, Shares
<1>5. QED
  BY <1>1, <1>2, <1>3, <1>4 DEF Shares

LEMMA SharesReturn ==
  ASSUME NEW q, NEW lease, NEW next, Shares(q, lease), DOMAIN next = DOMAIN lease,
         NEW t \in DOMAIN lease, lease[t].port # None, next[t].port = None,
         \A u \in DOMAIN lease \ {t} : next[u].port = lease[u].port
  PROVE  Shares(Append(q, lease[t].port), next)
<1> DEFINE p == lease[t].port
<1>1. p \in PortsOf(lease)
  BY DEF PortsOf
<1>2. p \in Range(Ports) /\ p \notin Range(q)
  BY <1>1 DEF Shares
<1>3. /\ Append(q, p) \in Seq(Range(Ports)) /\ IsInjective(Append(q, p))
      /\ Range(Append(q, p)) = Range(q) \cup {p}
  BY <1>2, Returned DEF Shares
<1>4. PortsOf(next) = PortsOf(lease) \ {p}
  <2>1. \A u \in DOMAIN lease \ {t} : lease[u].port # p
    BY DEF Shares, OnePortEach
  <2>2. \A u \in DOMAIN lease : lease[u].port \notin {p, None} => next[u].port = lease[u].port
    OBVIOUS
  <2>3. PortsOf(lease) \ {p} \subseteq PortsOf(next)
    BY <2>2 DEF PortsOf
  <2>4. \A u \in DOMAIN next : next[u].port # None => u # t
    OBVIOUS
  <2>5. PortsOf(next) \subseteq PortsOf(lease) \ {p}
    BY <2>1, <2>4 DEF PortsOf
  <2>6. QED
    BY <2>3, <2>5
<1>5. OnePortEach(next)
  BY DEF OnePortEach, Shares
<1> HIDE DEF p
<1>6. Shares(Append(q, p), next)
  BY <1>1, <1>2, <1>3, <1>4, <1>5 DEF Shares
<1>7. QED
  BY <1>6 DEF p

(* A port that is leased and given back at once.                            *)
LEMMA SharesTurn ==
  ASSUME NEW q, NEW lease, Shares(q, lease), q # <<>>
  PROVE  Shares(Append(Tail(q), Head(q)), lease)
<1>1. /\ Head(q) \in Range(Ports) /\ Tail(q) \in Seq(Range(Ports)) /\ IsInjective(Tail(q))
      /\ Range(q) = {Head(q)} \cup Range(Tail(q)) /\ Head(q) \notin Range(Tail(q))
  BY Taken DEF Shares
<1>2. /\ Append(Tail(q), Head(q)) \in Seq(Range(Ports)) /\ IsInjective(Append(Tail(q), Head(q)))
      /\ Range(Append(Tail(q), Head(q))) = Range(q)
  <2> DEFINE r == Tail(q)  p == Head(q)
  <2>1. r \in Seq(Range(Ports)) /\ p \in Range(Ports) /\ IsInjective(r) /\ p \notin Range(r)
    BY <1>1
  <2> HIDE DEF r, p
  <2>2. /\ Append(r, p) \in Seq(Range(Ports)) /\ IsInjective(Append(r, p))
        /\ Range(Append(r, p)) = Range(r) \cup {p}
    BY <2>1, Returned
  <2>3. Range(q) = {p} \cup Range(r)
    BY <1>1 DEF r, p
  <2>4. QED
    BY <2>2, <2>3 DEF r, p
<1>3. QED
  BY <1>2 DEF Shares

LEMMA PortsOfNone == PortsOf(NoJobs) = {} /\ OnePortEach(NoJobs) /\ LeasesOK(NoJobs) /\ DOMAIN NoJobs = {}
BY DEF PortsOf, NoJobs, OnePortEach, LeasesOK

(* While the fits run, and while the jobs run, they share the ports.         *)
LEMMA SharesFit ==
  ASSUME IInv, driver.at = "fitting" PROVE job = NoJobs /\ Shares(free, fitting)
BY PortsOfNone DEF IInv, ControlInv, PoolInv, Shares, Held

LEMMA SharesJob ==
  ASSUME IInv, driver.at = "run", job # NoJobs PROVE fitting = NoJobs /\ Shares(free, job)
BY PortsOfNone DEF IInv, ControlInv, PoolInv, Shares, Held

FitPool ==
  /\ Shares(free, fitting) /\ job = NoJobs
  /\ fitting \in [DOMAIN fitting -> FitThreads] /\ LeasesOK(fitting)

JobPool ==
  /\ Shares(free, job) /\ fitting = NoJobs
  /\ job \in [DOMAIN job -> JobThreads] /\ LeasesOK(job)

NoPool == fitting = NoJobs /\ job = NoJobs /\ free = <<>> /\ driver.at # "fitting"

LEMMA PoolOf == FitPool \/ JobPool \/ NoPool => PoolInv
<1>1. FitPool => PoolInv
  BY PortsOfNone DEF FitPool, PoolInv, Shares, Held, NoJobs
<1>2. JobPool => PoolInv
  BY PortsOfNone DEF JobPool, PoolInv, Shares, Held, NoJobs
<1>3. NoPool => PoolInv
  <2> HAVE NoPool
  <2>1. IsInjective(free) /\ free \in Seq(Range(Ports)) /\ Range(free) = {}
    BY DEF NoPool, IsInjective, Range
  <2>2. QED
    BY <2>1, PortsOfNone DEF NoPool, PoolInv, Held, NoJobs
<1>4. QED
  BY <1>1, <1>2, <1>3

-----------------------------------------------------------------------------
(* What a job reads is the fit of its arm, its cohort and this model.        *)

LEMMA CalibrationGood ==
  ASSUME IInv, driver.at = "run", NEW j, \A a \in CalArms : fits[a] # None
  PROVE  /\ Calibration(j) = CalibrationIn(fits, j)
         /\ Calibration(j) = None \/ GoodFit(seeds, marker, j[2], CohortOf(j[1]), Calibration(j))
         /\ Calibration(j) \in Fits \cup {None}
BY Terms DEF IInv, FitsInv, CalibrationIn, GoodFit

LEMMA ContentGood ==
  ASSUME IInv, driver.at = "run", NEW j \in DOMAIN job
  PROVE  /\ GoodRead(seeds, marker, j[2], CohortOf(j[1]), Content(j))
         /\ Content(j) \in Fits \cup {None, Changed}
         /\ Content(j) = Changed => tampered /\ CalibrationIn(fits, j) # None
         /\ Unfrozen(j) <=> tampered /\ CalibrationIn(fits, j) # None
<1>1. \A a \in CalArms : fits[a] # None
  BY DEF IInv, ControlInv, NoJobs
<1>2. /\ Calibration(j) = CalibrationIn(fits, j)
      /\ Calibration(j) = None \/ GoodFit(seeds, marker, j[2], CohortOf(j[1]), Calibration(j))
      /\ Calibration(j) \in Fits \cup {None}
  BY <1>1, CalibrationGood
<1>3. Changed \notin Fits \cup {None}
  BY StudyAssumption
<1>4. QED
  BY <1>2, <1>3 DEF Content, Unfrozen, GoodRead

-----------------------------------------------------------------------------
(* Fits are of their arm and cohort, from the seeds, each with its truth.    *)

LEMMA CohortsTyped ==
  \A g \in Trajectories :
    Cohort(g) \in [task : Tasks, count : {Records[h].count : h \in Trajectories}]
BY DEF Cohort, Count, Tasks

LEMMA FitGood ==
  ASSUME IInv, NEW c \in DOMAIN fitting, Fit(c)
  PROVE  /\ GoodFit(seeds, marker, Arm, c, fitting'[c].fit)
         /\ fitting' = [fitting EXCEPT ![c] = fitting'[c]]
         /\ fitting'[c] \in FitThreads /\ fitting'[c].step = "done" /\ fitting'[c].port = None
<1>1. PICK used \in SUBSET Trajectories :
        /\ ValidFit(c, used)
        /\ fitting' = [fitting EXCEPT ![c] =
             [step |-> "done", port |-> None,
              fit |-> [arm |-> Arm, cohort |-> c, model |-> driver.model, used |-> used,
                       pairs |-> {p \in Collected(c) : p[2] \in used}]]]
  BY DEF Fit
<1> DEFINE fit == [arm |-> Arm, cohort |-> c, model |-> driver.model, used |-> used,
                   pairs |-> {p \in Collected(c) : p[2] \in used}]
<1>2. /\ fitting' = [fitting EXCEPT ![c] = fitting'[c]]
      /\ fitting'[c] = [step |-> "done", port |-> None, fit |-> fit]
  BY <1>1
<1>3. Arm \in CalArms
  BY DEF IInv, ControlInv, Drivers, Arm, CalArms, Range
<1>4. driver.at = "fitting" /\ driver.model = marker /\ marker \in Models
  BY DEF Fit, FitThread, IInv, GroundInv, Resting
<1>5. used \subseteq seeds
  BY <1>1 DEF ValidFit, SeedsOf
<1>6. \A p \in Collected(c) : p \in Trajectories \X Trajectories /\ p[1] = p[2]
  <2>1. TAKE p \in Collected(c)
  <2>2. /\ p[1] \in Trajectories /\ p[2] \in seeds /\ p \in Trajectories \X SeedsOf(c)
        /\ << Records[p[1]].source, Records[p[1]].episode >>
             = << Records[p[2]].source, Records[p[2]].episode >>
    BY DEF Collected, SeedsOf
  <2>3. p[2] \in Trajectories
    BY <2>2 DEF IInv, GroundInv
  <2>4. p[1] = p[2]
    BY <2>2, <2>3, StudyAssumption
  <2>5. p \in Trajectories \X Trajectories
    BY <2>2, <2>3
  <2>6. QED
    BY <2>4, <2>5
<1>7. c \in [task : Tasks, count : {Records[g].count : g \in Trajectories}]
  BY CohortsTyped DEF IInv, FitsInv
<1>8. fit \in Fits
  <2>1. {p \in Collected(c) : p[2] \in used} \in SUBSET (Trajectories \X Trajectories)
    BY <1>6
  <2>2. QED
    BY <1>3, <1>4, <1>7, <2>1 DEF Fits
<1>9. GoodFit(seeds, marker, Arm, c, fit)
  BY <1>4, <1>5, <1>6, <1>8 DEF GoodFit
<1>10. QED
  BY <1>2, <1>8, <1>9 DEF FitThreads

-----------------------------------------------------------------------------
(* The pool, step by step.                                                  *)

LEMMA FitThreadPool ==
  ASSUME IInv, NEW c \in DOMAIN fitting, FitWork(c)
  PROVE  PoolInv'
<1>1. driver.at = "fitting" /\ job' = job /\ DOMAIN fitting' = DOMAIN fitting
  BY FitLeaves
<1>2. job = NoJobs /\ Shares(free, fitting)
  BY <1>1, SharesFit
<1>3. fitting \in [DOMAIN fitting -> FitThreads] /\ LeasesOK(fitting)
  BY DEF IInv, PoolInv
<1>4. /\ Shares(free', fitting') /\ fitting' = [fitting EXCEPT ![c] = fitting'[c]]
      /\ fitting'[c] \in FitThreads /\ (fitting'[c].port # None <=> fitting'[c].step \in Leased)
  <2>0. fitting[c] \in FitThreads /\ (fitting[c].port # None <=> fitting[c].step \in Leased)
    BY <1>3 DEF LeasesOK
  <2>1. CASE LeaseFit(c)
    <3>1. /\ fitting' = [fitting EXCEPT ![c] = [fitting[c] EXCEPT !.step = "fit", !.port = Head(free)]]
          /\ free' = Tail(free) /\ free # <<>> /\ fitting[c].step = "wait"
      BY <2>0, <2>1 DEF LeaseFit, FitThread, FitThreads
    <3>2. fitting[c].port = None /\ fitting'[c].port = Head(free) /\ fitting'[c].step = "fit"
      BY <2>0, <3>1 DEF FitThreads, Leased
    <3>3. \A u \in DOMAIN fitting \ {c} : fitting'[u].port = fitting[u].port
      BY <3>1
    <3>4. Shares(free', fitting') /\ Head(free) \in Range(Ports)
      BY <1>1, <1>2, <3>1, <3>2, <3>3, SharesLease
    <3>5. Head(free) # None
      BY <3>4, StudyAssumption
    <3>6. QED
      BY <2>0, <3>1, <3>2, <3>4, <3>5 DEF FitThreads, Leased
  <2>2. CASE FitFails(c) \/ Fit(c)
    <3>1. /\ fitting' = [fitting EXCEPT ![c] = fitting'[c]] /\ fitting'[c].port = None
          /\ fitting'[c] \in FitThreads /\ fitting'[c].step \in {"failed", "done"}
      <4>1. CASE FitFails(c)
        <5>1. fitting' = [fitting EXCEPT ![c] = [fitting[c] EXCEPT !.step = "failed", !.port = None]]
          BY <2>0, <4>1 DEF FitFails, FitThreads
        <5>2. QED
          BY <2>0, <5>1 DEF FitThreads
      <4>2. CASE Fit(c)
        BY <4>2, FitGood
      <4>3. QED
        BY <2>2, <4>1, <4>2
    <3>2. free' = Append(free, fitting[c].port) /\ fitting[c].step = "fit"
      BY <2>2 DEF FitFails, Fit, FitThread, GiveBack
    <3>3. fitting[c].port # None
      BY <2>0, <3>2 DEF Leased
    <3>4. \A u \in DOMAIN fitting \ {c} : fitting'[u].port = fitting[u].port
      BY <3>1
    <3>5. Shares(free', fitting')
      BY <1>1, <1>2, <3>1, <3>2, <3>3, <3>4, SharesReturn
    <3>6. QED
      BY <3>1, <3>5 DEF Leased
  <2>3. QED
    BY <2>1, <2>2 DEF FitWork
<1>5. fitting' \in [DOMAIN fitting' -> FitThreads] /\ LeasesOK(fitting)'
  BY <1>1, <1>3, <1>4 DEF LeasesOK
<1>6. FitPool'
  BY <1>1, <1>2, <1>4, <1>5 DEF FitPool
<1>7. QED
  BY <1>6, PoolOf, PTL

LEMMA JobThreadPool ==
  ASSUME IInv, NEW j \in DOMAIN job, JobWork(j)
  PROVE  PoolInv'
<1>1. driver.at = "run" /\ fitting' = fitting /\ DOMAIN job' = DOMAIN job /\ job # NoJobs
  BY JobLeaves DEF NoJobs
<1>2. fitting = NoJobs /\ Shares(free, job)
  BY <1>1, SharesJob
<1>3. job \in [DOMAIN job -> JobThreads] /\ LeasesOK(job)
  BY DEF IInv, PoolInv
<1>4. /\ Shares(free', job') /\ job' = [job EXCEPT ![j] = job'[j]]
      /\ job'[j] \in JobThreads /\ (job'[j].port # None <=> job'[j].step \in Leased)
  <2>0. job[j] \in JobThreads /\ (job[j].port # None <=> job[j].step \in Leased)
    BY <1>3 DEF LeasesOK
  <2>1. CASE Lease(j)
    <3>1. /\ job' = [job EXCEPT ![j] = [job[j] EXCEPT !.step = "arm", !.port = Head(free)]]
          /\ free' = Tail(free) /\ free # <<>> /\ job[j].step = "wait"
      BY <2>0, <2>1 DEF Lease, JobThreads
    <3>2. job[j].port = None /\ job'[j].port = Head(free) /\ job'[j].step = "arm"
      BY <2>0, <3>1 DEF JobThreads, Leased
    <3>3. \A u \in DOMAIN job \ {j} : job'[u].port = job[u].port
      BY <3>1
    <3>4. Shares(free', job') /\ Head(free) \in Range(Ports)
      BY <1>1, <1>2, <3>1, <3>2, <3>3, SharesLease
    <3>5. Head(free) # None
      BY <3>4, StudyAssumption
    <3>6. QED
      BY <2>0, <3>1, <3>2, <3>4, <3>5 DEF JobThreads, Leased
  <2>2. CASE LeaseFails(j)
    <3>1. /\ job' = [job EXCEPT ![j] = [step |-> "failed", port |-> None, read |-> None]]
          /\ free' = Append(Tail(free), Head(free)) /\ free # <<>> /\ job[j].step = "wait"
      BY <2>2 DEF LeaseFails, Fails
    <3>2. job[j].port = None /\ job'[j].port = None
      BY <2>0, <3>1 DEF Leased
    <3>3. \A u \in DOMAIN job : job'[u].port = job[u].port
      BY <3>1, <3>2
    <3>4. Shares(free', job)
      BY <1>2, <3>1, SharesTurn
    <3>5. Shares(free', job')
      BY <1>1, <3>3, <3>4, SharesSame
    <3>6. QED
      BY <2>0, <3>1, <3>5 DEF JobThreads, Leased
  <2>3. CASE ArmCached(j) \/ Tool(j) \/ ArmRecords(j) \/ ArmFails(j)
    <3>1. /\ free' = free /\ job' = [job EXCEPT ![j] = job'[j]] /\ job'[j].port = job[j].port
          /\ job'[j] \in JobThreads /\ job'[j].step \in Leased /\ job[j].step \in Leased
      <4>1. CASE ArmCached(j)
        <5>1. /\ job' = [job EXCEPT ![j] = [job[j] EXCEPT !.step = "ran"]] /\ free' = free
              /\ job[j].step = "arm"
          BY <2>0, <4>1 DEF ArmCached, JobThreads
        <5>2. QED
          BY <2>0, <5>1 DEF JobThreads, Leased
      <4>2. CASE Tool(j)
        <5>1. /\ job' = [job EXCEPT ![j] = [job[j] EXCEPT !.step = "tool", !.read = Content(j)]]
              /\ free' = free /\ job[j].step = "arm"
          BY <2>0, <4>2 DEF Tool, JobThreads
        <5>2. Content(j) \in Fits \cup {None, Changed}
          BY <1>1, ContentGood
        <5>3. QED
          BY <2>0, <5>1, <5>2 DEF JobThreads, Leased
      <4>3. CASE ArmRecords(j)
        <5>1. /\ job' = [job EXCEPT ![j] = [job[j] EXCEPT !.step = "ran", !.read = None]]
              /\ free' = free /\ job[j].step = "tool"
          BY <2>0, <4>3 DEF ArmRecords, JobThreads
        <5>2. QED
          BY <2>0, <5>1 DEF JobThreads, Leased
      <4>4. CASE ArmFails(j)
        <5>1. /\ job' = [job EXCEPT ![j] = [job[j] EXCEPT !.step = "bad", !.read = None]]
              /\ free' = free /\ job[j].step = "tool"
          BY <2>0, <4>4 DEF ArmFails, JobThreads
        <5>2. QED
          BY <2>0, <5>1 DEF JobThreads, Leased
      <4>5. QED
        BY <2>3, <4>1, <4>2, <4>3, <4>4
    <3>2. \A u \in DOMAIN job : job'[u].port = job[u].port
      BY <3>1
    <3>3. Shares(free', job')
      BY <1>1, <1>2, <3>1, <3>2, SharesSame
    <3>4. QED
      BY <2>0, <3>1, <3>3
  <2>4. CASE Succeeds(j) \/ JobFails(j)
    <3>1. /\ job' = [job EXCEPT ![j] = job'[j]] /\ job'[j].port = None
          /\ job'[j] \in JobThreads /\ job'[j].step \in {"ok", "failed"}
          /\ free' = Append(free, job[j].port) /\ job[j].step \in {"ran", "bad"}
      <4>1. CASE Succeeds(j)
        <5>1. /\ job' = [job EXCEPT ![j] = [step |-> "ok", port |-> None, read |-> None]]
              /\ free' = Append(free, job[j].port) /\ job[j].step = "ran"
          BY <4>1 DEF Succeeds, GiveBack
        <5>2. QED
          BY <5>1 DEF JobThreads
      <4>2. CASE JobFails(j)
        <5>1. /\ job' = [job EXCEPT ![j] = [step |-> "failed", port |-> None, read |-> None]]
              /\ free' = Append(free, job[j].port) /\ job[j].step \in {"ran", "bad"}
          BY <4>2 DEF JobFails, Fails, GiveBack
        <5>2. QED
          BY <5>1 DEF JobThreads
      <4>3. QED
        BY <2>4, <4>1, <4>2
    <3>2. job[j].port # None
      BY <2>0, <3>1 DEF Leased
    <3>3. \A u \in DOMAIN job \ {j} : job'[u].port = job[u].port
      BY <3>1
    <3>4. Shares(free', job')
      BY <1>1, <1>2, <3>1, <3>2, <3>3, SharesReturn
    <3>5. QED
      BY <3>1, <3>4 DEF Leased
  <2>5. QED
    BY <2>1, <2>2, <2>3, <2>4 DEF JobWork
<1>5. job' \in [DOMAIN job' -> JobThreads] /\ LeasesOK(job)'
  BY <1>1, <1>3, <1>4 DEF LeasesOK
<1>6. JobPool'
  BY <1>1, <1>2, <1>4, <1>5 DEF JobPool
<1>7. QED
  BY <1>6, PoolOf, PTL

LEMMA PoolKept ==
  ASSUME PoolInv, UNCHANGED << fitting, job, free >>, driver'.at # "fitting",
         driver'.at = "run" => job = NoJobs
  PROVE  PoolInv'
BY DEF PoolInv, Held

LEMMA FitManifestMoves ==
  ASSUME driver \in Drivers, FitManifest PROVE driver'.at \notin {"fitting", "floors", "score"}
<1>1. CASE driver.arm < Len(Calibrated)
  BY <1>1 DEF FitManifest, Drivers
<1>2. CASE ~ (driver.arm < Len(Calibrated))
  BY <1>2, Continues DEF FitManifest
<1>3. QED
  BY <1>1, <1>2

LEMMA PoolStep ==
  ASSUME IInv, Work \/ Killed \/ Tamper
  PROVE  PoolInv'
<1>0. ControlInv /\ ControlInv' /\ PoolInv
  BY ControlStep DEF IInv
<1>1. CASE FitArm
  <2>1. driver.at = "fit" /\ job' = job /\ job = NoJobs
    BY <1>0, <1>1 DEF FitArm, ControlInv
  <2>2. CASE MayFit(Arm)
    <3>1. /\ fitting' = [c \in Cohorts |-> [step |-> "wait", port |-> None, fit |-> None]]
          /\ free' = Ports
      BY <1>1, <2>2 DEF FitArm
    <3>2. Shares(free', fitting')
      BY <3>1, SharesStart
    <3>3. fitting' \in [DOMAIN fitting' -> FitThreads] /\ LeasesOK(fitting)'
      BY <3>1 DEF FitThreads, LeasesOK, Leased
    <3>4. FitPool'
      BY <2>1, <3>2, <3>3 DEF FitPool
    <3>5. QED
      BY <3>4, PoolOf, PTL
  <2>3. CASE ~MayFit(Arm)
    <3>1. UNCHANGED << fitting, job, free >> /\ driver'.at = "error"
      BY <1>1, <2>3, Stops DEF FitArm
    <3>2. QED
      BY <1>0, <3>1, PoolKept
  <2>4. QED
    BY <2>2, <2>3
<1>2. CASE Dispatch
  <2>1. /\ job' = [j \in Jobs |-> [step |-> "wait", port |-> None, read |-> None]]
        /\ free' = Ports /\ fitting' = fitting /\ driver.at = "run" /\ fitting = NoJobs
    BY <1>0, <1>2 DEF Dispatch, ControlInv
  <2>2. Shares(free', job')
    BY <2>1, SharesStart
  <2>3. job' \in [DOMAIN job' -> JobThreads] /\ LeasesOK(job)'
    BY <2>1 DEF JobThreads, LeasesOK, Leased
  <2>4. JobPool'
    BY <2>1, <2>2, <2>3 DEF JobPool
  <2>5. QED
    BY <2>4, PoolOf, PTL
<1>3. CASE FitManifest \/ Killed
  <2>1. fitting' = NoJobs /\ job' = NoJobs /\ free' = <<>>
    BY <1>0, <1>3 DEF FitManifest, Killed, ControlInv
  <2>2. driver'.at # "fitting"
    BY <1>0, <1>3, Continues, FitManifestMoves DEF Killed, Idle, ControlInv
  <2>3. NoPool'
    BY <2>1, <2>2 DEF NoPool
  <2>4. QED
    BY <2>3, PoolOf, PTL
<1>4. CASE Labels \/ RunRefused \/ Summarise \/ Merge \/ ScoreFloors \/ ScoreArms \/ Combine
  <2>1. UNCHANGED threads
    BY <1>4 DEF Labels, RunRefused, Summarise, Merge, ScoreFloors, ScoreArms, Combine
  <2>2. driver'.at # "fitting" /\ (driver'.at = "run" => job = NoJobs)
    BY <1>0, <1>4, Continues, Stops, Goes DEF ControlInv, Labels, RunRefused, Summarise, Merge,
       ScoreFloors, ScoreArms, Combine, Commands
  <2>3. QED
    BY <1>0, <2>1, <2>2, PoolKept DEF threads
<1>5. CASE Tamper
  BY <1>0, <1>5 DEF Tamper, threads, PoolInv, Held
<1>6. QED
  BY <1>1, <1>2, <1>3, <1>4, <1>5, FitThreadPool, JobThreadPool, WorkIs

-----------------------------------------------------------------------------
(* The fits, step by step.                                                  *)

LEMMA FitsKept ==
  ASSUME FitsInv, UNCHANGED << fits, seeds, marker >>, fitting' \in {fitting, NoJobs},
         driver'.at # "fitting"
  PROVE  FitsInv'
BY DEF FitsInv, NoJobs

LEMMA FitThreadFits ==
  ASSUME IInv, NEW c \in DOMAIN fitting, FitWork(c)
  PROVE  FitsInv'
<1>1. /\ driver.at = "fitting" /\ UNCHANGED << fits, seeds, marker, driver >>
      /\ DOMAIN fitting' = DOMAIN fitting
  BY FitLeaves DEF prep, disk
<1>2. Arm' = Arm
  BY <1>1 DEF Arm
<1>3. fitting[c] \in FitThreads /\ fitting \in [DOMAIN fitting -> FitThreads]
  BY DEF IInv, PoolInv
<1>4. /\ \A d \in DOMAIN fitting \ {c} : fitting'[d] = fitting[d]
      /\ fitting'[c].step = "done" => GoodFit(seeds, marker, Arm, c, fitting'[c].fit)
  <2>1. CASE LeaseFit(c)
    <3>1. fitting' = [fitting EXCEPT ![c] = [fitting[c] EXCEPT !.step = "fit", !.port = Head(free)]]
      BY <1>3, <2>1 DEF LeaseFit, FitThreads
    <3>2. QED
      BY <1>3, <3>1 DEF FitThreads
  <2>2. CASE FitFails(c)
    <3>1. fitting' = [fitting EXCEPT ![c] = [fitting[c] EXCEPT !.step = "failed", !.port = None]]
      BY <1>3, <2>2 DEF FitFails, FitThreads
    <3>2. QED
      BY <1>3, <3>1 DEF FitThreads
  <2>3. CASE Fit(c)
    BY <2>3, FitGood
  <2>4. QED
    BY <2>1, <2>2, <2>3 DEF FitWork
<1>5. QED
  BY <1>1, <1>2, <1>4 DEF IInv, FitsInv

LEMMA ManifestFits ==
  ASSUME IInv, FitManifest
  PROVE  FitsInv'
<1>1. driver.at = "fitting" /\ UNCHANGED << seeds, marker >> /\ fitting' = NoJobs
  BY DEF FitManifest, prep
<1>2. driver'.at # "fitting"
  BY FitManifestMoves DEF IInv, ControlInv
<1> DEFINE done == {d \in DOMAIN fitting : fitting[d].step = "done"}
           new == [model |-> driver.model, files |-> [c \in done |-> fitting[c].fit]]
<1>3. fits' = [fits EXCEPT ![Arm] = new]
  BY DEF FitManifest
<1>4. driver.model = marker
  BY <1>1 DEF IInv, GroundInv, Resting
<1>5. \A c \in DOMAIN new.files : GoodFit(seeds, marker, Arm, c, new.files[c])
  BY <1>1 DEF IInv, FitsInv
<1>6. new.model = marker
  BY <1>4
<1> HIDE DEF new
<1>7. \A a \in CalArms : fits'[a] # None =>
        /\ fits'[a].model = marker
        /\ \A c \in DOMAIN fits'[a].files : GoodFit(seeds, marker, a, c, fits'[a].files[c])
  <2>1. TAKE a \in CalArms
  <2>2. CASE a = Arm
    BY <2>2, <1>3, <1>5, <1>6 DEF IInv, FitsInv
  <2>3. CASE a # Arm
    BY <2>3, <1>3 DEF IInv, FitsInv
  <2>4. QED
    BY <2>2, <2>3
<1>8. DOMAIN fits' = CalArms
  BY <1>3 DEF IInv, FitsInv
<1>9. QED
  BY <1>1, <1>2, <1>7, <1>8 DEF FitsInv, NoJobs

LEMMA FitsStep ==
  ASSUME IInv, Work \/ Killed \/ Tamper
  PROVE  FitsInv'
<1>0. FitsInv /\ ControlInv /\ driver \in Drivers /\ seeds' = seeds /\ marker' = marker
  BY WorkSteady DEF IInv, ControlInv, Steady
<1>1. CASE FitArm
  <2>1. CASE MayFit(Arm)
    <3>1. /\ fitting' = [c \in Cohorts |-> [step |-> "wait", port |-> None, fit |-> None]]
          /\ Goto("fitting") /\ fits' = fits
      BY <1>1, <2>1 DEF FitArm, disk
    <3>2. Arm' = Arm
      BY <1>0, <3>1, Goes DEF Arm, Commands
    <3>3. Cohorts \subseteq {Cohort(g) : g \in Trajectories}
      BY DEF Cohorts
    <3>4. fits[Arm] = None
      BY <2>1 DEF MayFit
    <3>5. QED
      BY <1>0, <3>1, <3>2, <3>3, <3>4 DEF FitsInv
  <2>2. CASE ~MayFit(Arm)
    BY <1>0, <1>1, <2>2, Stops, FitsKept DEF FitArm, disk
  <2>3. QED
    BY <2>1, <2>2
<1>2. CASE Labels \/ Dispatch \/ RunRefused \/ Summarise \/ Merge \/ ScoreFloors \/ ScoreArms \/ Combine
  <2>1. UNCHANGED << fits, fitting >>
    BY <1>2 DEF Labels, Dispatch, RunRefused, Summarise, Merge, ScoreFloors, ScoreArms, Combine,
       disk, threads
  <2>2. driver'.at # "fitting"
    BY <1>0, <1>2, Continues, Stops, Goes DEF Labels, Dispatch, RunRefused, Summarise, Merge,
       ScoreFloors, ScoreArms, Combine, Commands
  <2>3. QED
    BY <1>0, <2>1, <2>2, FitsKept
<1>3. ASSUME NEW j \in DOMAIN job, JobWork(j) PROVE FitsInv'
  BY <1>0, <1>3, JobLeaves, FitsKept DEF Quiet
<1>4. CASE Killed
  BY <1>0, <1>4, FitsKept DEF Killed, Idle
<1>5. CASE Tamper
  <2>1. UNCHANGED << fits, fitting, driver >>
    BY <1>5 DEF Tamper, disk, threads
  <2>2. Arm' = Arm
    BY <2>1 DEF Arm
  <2>3. QED
    BY <1>0, <2>1, <2>2 DEF FitsInv
<1>6. QED
  BY <1>1, <1>2, <1>3, <1>4, <1>5, FitThreadFits, ManifestFits, WorkIs

-----------------------------------------------------------------------------
(* The records, step by step.                                               *)

LEMMA RecordKept ==
  ASSUME RecordInv, UNCHANGED << record, seeds, marker >>, faults \in Nat, faults' \in Nat,
         faults' >= faults, DOMAIN job' \subseteq DOMAIN record,
         \A j \in DOMAIN record : Doomed(j) => Doomed(j)' \/ faults' > 0
  PROVE  RecordInv'
<1>1. \A j \in DOMAIN record : record[j] # None =>
        /\ GoodRecord(seeds, marker, j, record[j])
        /\ record[j].read = Changed => faults' > 0 \/ Doomed(j)'
  BY DEF RecordInv
<1>2. QED
  BY <1>1 DEF RecordInv

LEMMA DispatchRecords ==
  ASSUME IInv, Dispatch
  PROVE  RecordInv'
<1>1. /\ job = NoJobs /\ DOMAIN job' = JobsOf(seeds) /\ UNCHANGED << seeds, marker, faults >>
      /\ record' = [j \in JobsOf(seeds) |-> IF j \in DOMAIN record THEN record[j] ELSE None]
  BY Terms DEF Dispatch, prep, bounds
<1>2. \A j \in DOMAIN record : ~Doomed(j)
  BY <1>1 DEF Doomed, NoJobs
<1>3. \A j \in DOMAIN record' : record'[j] # None => j \in DOMAIN record /\ record'[j] = record[j]
  BY <1>1
<1>4. QED
  BY <1>1, <1>2, <1>3 DEF IInv, RecordInv

LEMMA FailedGood ==
  ASSUME IInv, driver.at = "run", NEW j
  PROVE  GoodRecord(seeds, marker, j, FailedRecord(j)) /\ FailedRecord(j).read # Changed
<1>1. driver.model = marker /\ None # Changed
  BY StudyAssumption DEF IInv, GroundInv, Resting
<1>2. QED
  BY <1>1 DEF FailedRecord, GoodRecord, GoodRead

LEMMA JobThreadRecords ==
  ASSUME IInv, NEW j \in DOMAIN job, JobWork(j)
  PROVE  RecordInv'
<1>1. /\ driver.at = "run" /\ UNCHANGED << seeds, marker, fits, driver, tampered >>
      /\ DOMAIN job' = DOMAIN job /\ DOMAIN record' = DOMAIN record
      /\ \A i \in DOMAIN job \ {j} : job'[i] = job[i]
      /\ \A i \in DOMAIN record \ {j} : record'[i] = record[i]
  BY JobLeaves DEF prep, Quiet
<1>2. faults \in Nat /\ faults' \in Nat /\ faults' >= faults
  <2>1. Work
    BY DEF Work, JobWork
  <2>2. QED
    BY <2>1, WorkSteady DEF Steady, IInv, GroundInv
<1>3. job[j] \in JobThreads /\ j \in DOMAIN record /\ driver.model = marker
  BY <1>1 DEF IInv, PoolInv, RecordInv, GroundInv, Resting
<1>4. \A i \in DOMAIN record \ {j} : Doomed(i) => Doomed(i)'
  BY <1>1 DEF Doomed
<1>5. record'[j] # None =>
        /\ GoodRecord(seeds, marker, j, record'[j])
        /\ record'[j].read = Changed => faults' > 0 \/ Doomed(j)'
  <2>0. record[j] # None =>
          /\ GoodRecord(seeds, marker, j, record[j])
          /\ record[j].read = Changed => faults > 0 \/ Doomed(j)
    BY <1>3 DEF IInv, RecordInv
  <2>1. CASE record' = record /\ ~Doomed(j)
    BY <1>2, <2>0, <2>1
  <2>2. CASE record' = [record EXCEPT ![j] = FailedRecord(j)]
    BY <1>1, <1>3, <2>2, FailedGood
  <2>3. CASE Lease(j) \/ ArmCached(j) \/ Tool(j)
    <3>1. record' = record /\ job[j].step \in {"wait", "arm"}
      BY <2>3 DEF Lease, ArmCached, Tool
    <3>2. ~Doomed(j)
      BY <3>1 DEF Doomed
    <3>3. QED
      BY <2>1, <3>1, <3>2
  <2>4. CASE Succeeds(j)
    <3>1. record' = record /\ ~Unfrozen(j)
      BY <2>4 DEF Succeeds, StillFrozen
    <3>2. ~Doomed(j)
      BY <1>1, <3>1, ContentGood DEF Doomed
    <3>3. QED
      BY <2>1, <3>1, <3>2
  <2>5. CASE LeaseFails(j) \/ JobFails(j)
    <3>1. \/ record' = [record EXCEPT ![j] = FailedRecord(j)]
          \/ record' = record /\ faults' = faults + 1
      BY <2>5 DEF LeaseFails, JobFails, Fails
    <3>2. QED
      BY <1>2, <2>0, <2>2, <3>1
  <2>6. CASE ArmFails(j)
    <3>1. /\ record' \in {record, [record EXCEPT ![j] = FailedRecord(j)]}
          /\ job[j].step = "tool"
      BY <2>6 DEF ArmFails
    <3>2. ~Doomed(j)
      BY <3>1 DEF Doomed
    <3>3. QED
      BY <2>1, <2>2, <3>1, <3>2
  <2>7. CASE ArmRecords(j)
    <3>1. PICK given \in SUBSET DOMAIN Copied(j[1]) :
            record' = [record EXCEPT ![j] =
              [state |-> "ok", as |-> RunAs(j), model |-> driver.model, read |-> job[j].read,
               spans |-> [e \in DOMAIN Copied(j[1]) |->
                            IF e \in given THEN Copied(j[1])[e] ELSE None]]]
      BY <2>7 DEF ArmRecords
    <3> DEFINE spans == [e \in DOMAIN Copied(j[1]) |->
                           IF e \in given THEN Copied(j[1])[e] ELSE None]
               new == [state |-> "ok", as |-> RunAs(j), model |-> driver.model,
                       read |-> job[j].read, spans |-> spans]
    <3>2. record'[j] = new
      BY <1>3, <3>1
    <3>3. job[j].read = Content(j) /\ job[j].step = "tool" /\ job' = [job EXCEPT ![j] = [job[j] EXCEPT !.step = "ran", !.read = None]]
      BY <1>3, <2>7 DEF ArmRecords, JobThreads
    <3>4. DOMAIN spans = DOMAIN IndexOf(seeds, j[1])
          /\ \A i \in DOMAIN spans : spans[i] \in {IndexOf(seeds, j[1])[i], None}
      BY Terms
    <3>5. GoodRecord(seeds, marker, j, new)
      <4>1. /\ DOMAIN new = {"state", "as", "model", "spans", "read"} /\ new.model = marker
            /\ new.spans = spans /\ new.read = Content(j)
        BY <1>3, <3>3
      <4> HIDE DEF spans, new
      <4>2. GoodRead(seeds, marker, j[2], CohortOf(j[1]), new.read)
        BY <1>1, <4>1, ContentGood
      <4>3. QED
        BY <3>4, <4>1, <4>2 DEF GoodRecord
    <3>6. new.read = Changed => Doomed(j)'
      <4>1. job'[j].step = "ran"
        BY <1>3, <3>3 DEF JobThreads
      <4>2. new.read = Changed => tampered /\ CalibrationIn(fits, j) # None
        BY <1>1, <3>3, ContentGood
      <4>3. QED
        BY <1>1, <4>1, <4>2 DEF Doomed
    <3>7. QED
      BY <3>2, <3>5, <3>6
  <2>8. QED
    BY <2>3, <2>4, <2>5, <2>6, <2>7 DEF JobWork
<1>6. \A i \in DOMAIN record' : record'[i] # None =>
        /\ GoodRecord(seeds, marker, i, record'[i])
        /\ record'[i].read = Changed => faults' > 0 \/ Doomed(i)'
  <2>1. TAKE i \in DOMAIN record'
  <2>2. CASE i = j
    BY <2>2, <1>5
  <2>3. CASE i # j
    BY <2>3, <1>1, <1>2, <1>4 DEF IInv, RecordInv
  <2>4. QED
    BY <2>2, <2>3
<1>7. QED
  BY <1>1, <1>6 DEF IInv, RecordInv

LEMMA KilledRecords ==
  ASSUME IInv, Killed
  PROVE  RecordInv'
<1>1. PICK writing \in SUBSET {j \in DOMAIN job : job[j].step = "ran" /\ record[j] # None} :
        record' = [j \in DOMAIN record |-> IF j \in writing THEN Torn(j) ELSE record[j]]
  BY DEF Killed
<1>2. job' = NoJobs /\ faults' > 0 /\ UNCHANGED << seeds, marker >>
  BY DEF Killed, IInv, GroundInv, prep
<1>3. \A j \in writing : j \in DOMAIN record /\ record[j] # None
  BY DEF IInv, RecordInv
<1>4. \A j \in DOMAIN record : record'[j] # None => GoodRecord(seeds, marker, j, record'[j])
  <2>1. TAKE j \in DOMAIN record
  <2>2. CASE j \notin writing
    BY <2>2, <1>1 DEF IInv, RecordInv
  <2>3. CASE j \in writing
    <3>1. record'[j] = Torn(j) /\ GoodRecord(seeds, marker, j, record[j])
      BY <2>3, <1>1, <1>3 DEF IInv, RecordInv
    <3>2. /\ DOMAIN Torn(j) = DOMAIN record[j] /\ Torn(j).model = record[j].model
          /\ Torn(j).read = record[j].read /\ Torn(j).state = "torn"
      BY <3>1 DEF Torn, GoodRecord
    <3>3. QED
      BY <3>1, <3>2 DEF GoodRecord
  <2>4. QED
    BY <2>2, <2>3
<1>5. QED
  BY <1>1, <1>2, <1>4 DEF IInv, RecordInv, NoJobs

LEMMA RecordStep ==
  ASSUME IInv, Work \/ Killed \/ Tamper
  PROVE  RecordInv'
<1>0. /\ RecordInv /\ ControlInv /\ faults \in Nat /\ faults' \in Nat /\ faults' >= faults
      /\ seeds' = seeds /\ marker' = marker
  BY WorkSteady DEF IInv, GroundInv, Steady
<1>1. CASE FitArm \/ Labels \/ Merge \/ ScoreFloors \/ ScoreArms \/ Combine
  <2>1. UNCHANGED << record, job >>
    BY <1>1 DEF FitArm, Labels, Merge, ScoreFloors, ScoreArms, Combine, disk, threads
  <2>2. driver.at # "run"
    BY <1>1 DEF FitArm, Labels, Merge, ScoreFloors, ScoreArms, Combine
  <2>3. \A j \in DOMAIN record : ~Doomed(j)
    BY <2>2 DEF Doomed
  <2>4. DOMAIN job' \subseteq DOMAIN record
    BY <1>0, <2>1 DEF RecordInv
  <2>5. QED
    BY <1>0, <2>1, <2>3, <2>4, RecordKept
<1>2. CASE FitManifest
  <2>1. UNCHANGED << record, job >> /\ driver.at # "run"
    BY <1>2 DEF FitManifest
  <2>2. \A j \in DOMAIN record : ~Doomed(j)
    BY <2>1 DEF Doomed
  <2>3. DOMAIN job' \subseteq DOMAIN record
    BY <1>0, <2>1 DEF RecordInv
  <2>4. QED
    BY <1>0, <2>1, <2>2, <2>3, RecordKept
<1>3. CASE RunRefused \/ Summarise
  <2>1. UNCHANGED << record, job >>
    BY <1>3 DEF RunRefused, Summarise, disk, threads
  <2>2. \A j \in DOMAIN job : job[j].step \in {"ok", "failed"}
    BY <1>3 DEF RunRefused, Summarise, NoJobs, Ended
  <2>3. \A j \in DOMAIN record : ~Doomed(j)
    BY <2>2 DEF Doomed
  <2>4. DOMAIN job' \subseteq DOMAIN record
    BY <1>0, <2>1 DEF RecordInv
  <2>5. QED
    BY <1>0, <2>1, <2>3, <2>4, RecordKept
<1>4. ASSUME NEW c \in DOMAIN fitting, FitWork(c) PROVE RecordInv'
  <2>1. UNCHANGED << record, job >> /\ driver.at # "run"
    BY <1>4, FitLeaves DEF disk
  <2>2. \A j \in DOMAIN record : ~Doomed(j)
    BY <2>1 DEF Doomed
  <2>3. DOMAIN job' \subseteq DOMAIN record
    BY <1>0, <2>1 DEF RecordInv
  <2>4. QED
    BY <1>0, <2>1, <2>2, <2>3, RecordKept
<1>5. CASE Tamper
  <2>1. UNCHANGED << record, job, driver, fits >> /\ tampered'
    BY <1>5 DEF Tamper, disk, threads
  <2>2. \A j \in DOMAIN record : Doomed(j) => Doomed(j)'
    BY <2>1 DEF Doomed
  <2>3. DOMAIN job' \subseteq DOMAIN record
    BY <1>0, <2>1 DEF RecordInv
  <2>4. QED
    BY <1>0, <2>1, <2>2, <2>3, RecordKept
<1>6. QED
  BY <1>1, <1>2, <1>3, <1>4, <1>5, DispatchRecords, JobThreadRecords, KilledRecords, WorkIs

-----------------------------------------------------------------------------
(* The scores, step by step.                                                *)

LEMMA RowsLater ==
  ASSUME NEW S, NEW m, NEW a, NEW rows, NEW n \in Nat, NEW k \in Nat, k >= n,
         GoodRows(S, m, n, a, rows)
  PROVE  GoodRows(S, m, k, a, rows)
BY DEF GoodRows, GoodRow

LEMMA ScoreKept ==
  ASSUME ScoreInv, UNCHANGED << merged, scores, result, seeds, marker >>,
         faults \in Nat, faults' \in Nat, faults' >= faults,
         driver'.at \in {"floors", "score"} => driver.at \in {"floors", "score"}
  PROVE  ScoreInv'
<1>1. /\ \A a, rows : GoodRows(seeds, marker, faults, a, rows)
                        => GoodRows(seeds, marker, faults', a, rows)
  BY RowsLater
<1>2. QED
  BY <1>1 DEF ScoreInv

(* What the merge takes from the records is of the trajectory it says.       *)
LEMMA MergedGood ==
  ASSUME IInv, driver.at = "merge", MergeGood, NEW a \in Arms
  PROVE  GoodRows(seeds, marker, faults, a, Merged(a))
<1>1. SUFFICES ASSUME NEW g \in Eval
               PROVE  GoodRow(seeds, marker, faults, a, g, Merged(a)[g])
  BY Terms DEF Merged, GoodRows
<1>2. CASE Delivered(a, g) = {}
  <2>1. Merged(a)[g] = NoOutput
    BY <1>2 DEF Merged
  <2>2. None # Changed
    BY StudyAssumption
  <2>3. QED
    BY <2>1, <2>2 DEF NoOutput, GoodRow, GoodRead
<1>3. CASE Delivered(a, g) # {}
  <2> DEFINE j == CHOOSE x \in Delivered(a, g) : TRUE
             i == CHOOSE x \in DOMAIN record[j].spans : IndexMap(j[1])[x] = g
  <2>1. Merged(a)[g] = [spans |-> record[j].spans[i], read |-> record[j].read]
    BY <1>3 DEF Merged
  <2>2. j \in Delivered(a, g)
    BY <1>3
  <2> HIDE DEF j
  <2>3. /\ j \in Jobs /\ j[2] = a /\ record[j] # None /\ record[j].state = "ok"
        /\ \E k \in DOMAIN record[j].spans : record[j].spans[k] # None /\ IndexMap(j[1])[k] = g
        /\ j \in DOMAIN record
    BY <2>2 DEF Delivered, MergeGood, Complete
  <2>4. i \in DOMAIN record[j].spans /\ IndexMap(j[1])[i] = g
    BY <2>3
  <2> HIDE DEF i
  <2>5. /\ GoodRead(seeds, marker, a, CohortOf(j[1]), record[j].read)
        /\ DOMAIN record[j].spans = DOMAIN IndexOf(seeds, j[1])
        /\ record[j].spans[i] \in {IndexOf(seeds, j[1])[i], None}
        /\ record[j].read = Changed => faults > 0
    <3>1. ~Doomed(j)
      BY DEF Doomed
    <3>2. QED
      BY <2>3, <2>4, <3>1 DEF IInv, RecordInv, GoodRecord
  <2>6. IndexOf(seeds, j[1])[i] = g /\ Component(g) = j[1]
    BY <2>4, <2>5, Terms, Indexed
  <2>7. CohortOf(j[1]) = Cohort(g)
    BY <2>6 DEF CohortOf, Component, Cohort
  <2>8. QED
    BY <2>1, <2>5, <2>6, <2>7 DEF GoodRow
<1>4. QED
  BY <1>2, <1>3

LEMMA ScoreStep ==
  ASSUME IInv, Work \/ Killed \/ Tamper
  PROVE  ScoreInv'
<1>0. /\ ScoreInv /\ ControlInv /\ faults \in Nat /\ faults' \in Nat /\ faults' >= faults
      /\ seeds' = seeds /\ marker' = marker /\ driver \in Drivers
  BY WorkSteady DEF IInv, GroundInv, ControlInv, Steady
<1>1. CASE FitArm \/ FitManifest \/ Labels \/ Dispatch \/ RunRefused \/ Summarise
  <2>1. UNCHANGED << merged, scores, result >>
    BY <1>1 DEF FitArm, FitManifest, Labels, Dispatch, RunRefused, Summarise, disk
  <2>2. driver'.at \notin {"floors", "score"}
    <3>1. CASE FitManifest
      BY <1>0, <3>1, FitManifestMoves
    <3>2. CASE FitArm \/ Labels \/ Dispatch \/ RunRefused \/ Summarise
      BY <1>0, <3>2, Continues, Stops, Goes DEF FitArm, Labels, Dispatch, RunRefused, Summarise,
         Commands
    <3>3. QED
      BY <1>1, <3>1, <3>2
  <2>3. QED
    BY <1>0, <2>1, <2>2, ScoreKept
<1>2. ASSUME NEW c \in DOMAIN fitting, FitWork(c) PROVE ScoreInv'
  BY <1>0, <1>2, FitLeaves, ScoreKept DEF disk
<1>3. ASSUME NEW j \in DOMAIN job, JobWork(j) PROVE ScoreInv'
  BY <1>0, <1>3, JobLeaves, ScoreKept DEF Quiet
<1>4. CASE Tamper
  BY <1>0, <1>4, ScoreKept DEF Tamper, disk
<1>5. CASE Merge
  <2>1. driver.at = "merge" /\ UNCHANGED << scores, result, faults >>
    BY <1>5 DEF Merge, bounds
  <2>2. CASE MergeGood
    <3>1. merged' = [a \in Arms |-> Merged(a)]
      BY <1>5, <2>2 DEF Merge
    <3>2. \A a \in Arms : GoodRows(seeds, marker, faults, a, merged'[a])
      BY <2>1, <2>2, <3>1, MergedGood
    <3>3. QED
      BY <1>0, <2>1, <3>1, <3>2 DEF ScoreInv
  <2>3. CASE ~MergeGood
    BY <1>0, <1>5, <2>1, <2>3, Stops, ScoreKept DEF Merge
  <2>4. QED
    BY <2>2, <2>3
<1>6. CASE ScoreFloors
  <2>1. /\ scores' = [scores EXCEPT !["floors"] = [f \in Floors |-> [g \in Eval |-> FloorRow(f, g)]]]
        /\ UNCHANGED << merged, result, faults >> /\ driver.at = "floors"
    BY <1>6 DEF ScoreFloors, bounds
  <2>2. \A f \in Floors : FloorRows(seeds, [g \in Eval |-> FloorRow(f, g)])
    BY Terms DEF FloorRows, FloorRow, SeedsOf
  <2>3. /\ DOMAIN scores' = {"arms", "floors"} /\ scores'["arms"] = scores["arms"]
        /\ scores'["floors"] = [f \in Floors |-> [g \in Eval |-> FloorRow(f, g)]]
    BY <1>0, <2>1 DEF ScoreInv
  <2>4. QED
    BY <1>0, <2>1, <2>2, <2>3 DEF ScoreInv
<1>7. CASE ScoreArms
  <2>1. /\ scores' = [scores EXCEPT !["arms"] = [a \in Arms |-> Scored(a)]]
        /\ UNCHANGED << merged, result, faults >> /\ driver.at = "score" /\ NextStage
    BY <1>7 DEF ScoreArms, bounds
  <2>2. \A a \in Arms : GoodRows(seeds, marker, faults, a, Scored(a))
    BY <1>0, <2>1, Terms DEF ScoreInv, GoodRows, Scored
  <2>3. /\ DOMAIN scores' = {"arms", "floors"} /\ scores'["floors"] = scores["floors"]
        /\ scores'["arms"] = [a \in Arms |-> Scored(a)]
    BY <1>0, <2>1 DEF ScoreInv
  <2>4. driver'.at \notin {"floors", "score"}
    BY <1>0, <2>1, Continues
  <2>5. QED
    BY <1>0, <2>1, <2>2, <2>3, <2>4 DEF ScoreInv
<1>8. CASE Combine
  <2>1. UNCHANGED << merged, scores, faults >>
    BY <1>8 DEF Combine, bounds
  <2>2. driver'.at \notin {"floors", "score"}
    BY <1>0, <1>8, Continues, Stops DEF Combine
  <2>3. CASE SameCover
    <3>1. result' = [a \in Arms \cup Floors |->
                       IF a \in Arms THEN scores["arms"][a] ELSE scores["floors"][a]]
      BY <1>8, <2>3 DEF Combine
    <3>2. scores["arms"] # None /\ scores["floors"] # None
      BY <2>3 DEF SameCover
    <3>3. /\ DOMAIN result' = Arms \cup Floors
          /\ \A a \in Arms : GoodRows(seeds, marker, faults, a, result'[a])
          /\ \A f \in Floors : FloorRows(seeds, result'[f])
      BY <1>0, <3>1, <3>2, StudyAssumption DEF ScoreInv
    <3>4. QED
      BY <1>0, <2>1, <2>2, <3>3 DEF ScoreInv
  <2>4. CASE ~SameCover
    <3>1. result' = result
      BY <1>8, <2>4 DEF Combine
    <3>2. QED
      BY <1>0, <2>1, <2>2, <3>1, ScoreKept
  <2>5. QED
    BY <2>3, <2>4
<1>9. CASE Killed
  <2>1. PICK done \in SUBSET Arms :
          /\ done # {} => driver.at = "merge" /\ MergeGood
          /\ merged' = [a \in Arms |-> IF a \in done THEN Merged(a) ELSE merged[a]]
    BY <1>9 DEF Killed
  <2>2. UNCHANGED << scores, result >> /\ driver'.at = "idle"
    BY <1>9 DEF Killed, Idle
  <2>3. \A a \in done : GoodRows(seeds, marker, faults, a, Merged(a))
    BY <2>1, MergedGood
  <2>4. \A a, rows : GoodRows(seeds, marker, faults, a, rows)
                        => GoodRows(seeds, marker, faults', a, rows)
    BY <1>0, RowsLater
  <2>5. \A a \in Arms : merged'[a] = None \/ GoodRows(seeds, marker, faults', a, merged'[a])
    BY <1>0, <2>1, <2>3, <2>4 DEF ScoreInv
  <2>6. DOMAIN merged' = Arms
    BY <2>1
  <2>7. QED
    BY <1>0, <2>2, <2>4, <2>5, <2>6 DEF ScoreInv
<1>10. QED
  BY <1>1, <1>2, <1>3, <1>4, <1>5, <1>6, <1>7, <1>8, <1>9, WorkIs

-----------------------------------------------------------------------------
(* The invariant.                                                           *)

LEMMA BeginStep ==
  ASSUME IInv, Begin, marker # None
  PROVE  IInv'
<1>1. /\ GroundInv' /\ ControlInv' /\ UNCHANGED << seeds, marker, faults >> /\ faults \in Nat
  BY BeginGround, BeginSame DEF IInv, GroundInv
<1>2. /\ UNCHANGED << fits, record, merged, scores, result >> /\ Resting
      /\ fitting' = NoJobs /\ job' = NoJobs /\ free' = <<>>
  BY DEF Begin
<1>3. driver'.at \in {"fit", "labels", "merge", "combine"}
  BY Begins
<1>4. NoPool'
  BY <1>2, <1>3 DEF NoPool
<1>5. PoolInv'
  BY <1>4, PoolOf, PTL
<1>6. FitsInv'
  BY <1>1, <1>2, <1>3, FitsKept DEF IInv
<1>7. \A j \in DOMAIN record : ~Doomed(j)
  BY <1>2 DEF Doomed, Resting
<1>8. RecordInv'
  BY <1>1, <1>2, <1>7, RecordKept DEF IInv, NoJobs
<1>9. ScoreInv'
  BY <1>1, <1>2, <1>3, ScoreKept DEF IInv
<1>10. QED
  BY <1>1, <1>5, <1>6, <1>8, <1>9 DEF IInv

LEMMA QuietStep ==
  ASSUME IInv, Plan \/ Materialize \/ (Begin /\ marker = None)
  PROVE  IInv'
<1>1. Quiescent' /\ GroundInv' /\ ControlInv'
  BY PlanRests, BeginGround, BeginQuiet
<1>2. (seeds \in SUBSET Trajectories)'
  BY <1>1 DEF GroundInv
<1>3. PoolInv' /\ FitsInv' /\ RecordInv' /\ ScoreInv'
  BY <1>1, <1>2, BlankRest, PTL
<1>4. QED
  BY <1>1, <1>3 DEF IInv

LEMMA StutterInv ==
  ASSUME IInv, UNCHANGED vars
  PROVE  IInv'
<1>1. /\ UNCHANGED << seeds, prepared, marker, fits, record, merged, scores, result >>
      /\ UNCHANGED << fitting, job, free, tampered, faults, driver >>
  BY DEF vars, prep, disk, threads, bounds
<1>2. GroundInv'
  BY <1>1 DEF IInv, GroundInv, Blank, Resting
<1>3. ControlInv'
  BY <1>1 DEF IInv, ControlInv
<1>4. PoolInv'
  BY <1>1 DEF IInv, PoolInv, Held
<1>5. FitsInv'
  BY <1>1 DEF IInv, FitsInv, Arm
<1>6. RecordInv'
  BY <1>1 DEF IInv, RecordInv, Doomed
<1>7. ScoreInv'
  BY <1>1 DEF IInv, ScoreInv
<1>8. QED
  BY <1>2, <1>3, <1>4, <1>5, <1>6, <1>7 DEF IInv

(* Every step of the study, of its threads, of a kill and of a change on     *)
(* disk keeps the invariant.                                                *)
THEOREM StudyInv == Spec => []IInv
<1>1. ASSUME IInv, Next PROVE IInv'
  <2>1. CASE Plan \/ Materialize \/ (Begin /\ marker = None)
    BY <1>1, <2>1, QuietStep
  <2>2. CASE Begin /\ marker # None
    BY <1>1, <2>2, BeginStep
  <2>3. CASE Work \/ Killed \/ Tamper
    <3>1. GroundInv' /\ ControlInv' /\ PoolInv' /\ FitsInv' /\ RecordInv' /\ ScoreInv'
      BY <1>1, <2>3, GroundStep, ControlStep, PoolStep, FitsStep, RecordStep, ScoreStep
    <3>2. QED
      BY <3>1 DEF IInv
  <2>4. QED
    BY <1>1, <2>1, <2>2, <2>3 DEF Next
<1>2. IInv /\ [Next]_vars => IInv'
  BY <1>1, StutterInv
<1>3. QED
  BY <1>2, InitInv, PTL DEF Spec

-----------------------------------------------------------------------------
(* What it means.                                                           *)

LEMMA InvSound == IInv => StudySound
<1> HAVE IInv
<1>1. SeedsApart
  <2>1. SUFFICES ASSUME result # None, NEW a \in DOMAIN result
                 PROVE  /\ DOMAIN result[a] \cap seeds = {}
                        /\ \A g \in DOMAIN result[a] :
                             LET fit == result[a][g].read
                             IN  fit \notin {None, Changed} =>
                                   (IF a \in Floors THEN fit ELSE fit.used) \subseteq seeds
    BY DEF SeedsApart
  <2>2. CASE a \in Floors
    BY <2>1, <2>2 DEF IInv, ScoreInv, FloorRows, Evaluated
  <2>3. CASE a \in Arms /\ a \notin Floors
    BY <2>1, <2>3 DEF IInv, ScoreInv, GoodRows, GoodRow, GoodRead, GoodFit, Evaluated
  <2>4. QED
    BY <2>1, <2>2, <2>3 DEF IInv, ScoreInv
<1>2. CalibrationFits
  <2>1. CalArms \subseteq Arms
    BY DEF Arms
  <2>2. QED
    BY <2>1 DEF CalibrationFits, IInv, ScoreInv, GoodRows, GoodRow, GoodRead, GoodFit
<1>3. OneModel
  BY DEF OneModel, IInv, FitsInv, RecordInv, GoodRecord
<1>4. TypeOK
  <2>1. PortsOf(fitting) \cap PortsOf(job) = {}
    BY PortsOfNone DEF IInv, ControlInv
  <2>2. QED
    BY <2>1 DEF TypeOK, IInv, GroundInv, PoolInv
<1>5. RightTrajectory
  BY DEF RightTrajectory, IInv, ScoreInv, GoodRows, GoodRow
<1>6. FullMatrix
  BY Terms DEF FullMatrix, IInv, ScoreInv, GoodRows, FloorRows
<1>7. QED
  BY <1>1, <1>2, <1>3, <1>4, <1>5, <1>6 DEF StudySound, FitsSound, MatrixSound

(* Whatever is killed, fails or changes on disk: seeds are apart from what   *)
(* is scored, a calibration serves its own arm, cohort and model, each row   *)
(* is of its trajectory, the matrix is full, and no port is lost.            *)
THEOREM Sound == Spec => []StudySound
BY StudyInv, InvSound, PTL

(* completed fits cannot be overwritten: while an arm is being fitted it has *)
(* no fits, whatever other invocations there were.                           *)
THEOREM Frozen == Spec => FitsFrozen
<1> DEFINE Keeps == \A a \in CalArms : fits[a] # None => fits'[a] = fits[a]
<1>1. ASSUME IInv, Next PROVE Keeps
  <2>1. CASE FitManifest
    <3>1. fits[Arm] = None /\ DOMAIN fits = CalArms
      BY <1>1, <2>1 DEF FitManifest, IInv, FitsInv
    <3>2. \A a \in CalArms : a # Arm => fits'[a] = fits[a]
      BY <2>1, <3>1 DEF FitManifest
    <3>3. QED
      BY <3>1, <3>2
  <2>2. ASSUME NEW c \in DOMAIN fitting, FitWork(c) PROVE fits' = fits
    BY <2>2, FitLeaves DEF disk
  <2>3. ASSUME NEW j \in DOMAIN job, JobWork(j) PROVE fits' = fits
    BY <2>3, JobLeaves DEF Quiet
  <2>4. CASE \/ Plan \/ Materialize \/ Begin \/ Killed \/ Tamper
             \/ FitArm \/ Labels \/ Dispatch \/ RunRefused \/ Summarise
             \/ Merge \/ ScoreFloors \/ ScoreArms \/ Combine
    BY <2>4 DEF Plan, Materialize, Begin, Killed, Tamper, FitArm, Labels, Dispatch, RunRefused,
       Summarise, Merge, ScoreFloors, ScoreArms, Combine, disk
  <2>5. QED
    BY <1>1, <2>1, <2>2, <2>3, <2>4, WorkIs DEF Next
<1>2. IInv /\ [Next]_vars => [Keeps]_vars
  BY <1>1
<1>3. QED
  BY <1>2, StudyInv, PTL DEF Spec, FitsFrozen
=============================================================================
