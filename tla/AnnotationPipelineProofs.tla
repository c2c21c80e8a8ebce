---------------------- MODULE AnnotationPipelineProofs ----------------------
(***************************************************************************)
(* Annotation runs for any datasets, episodes, boundaries, limits and      *)
(* numbers of runs: runs do not mix, what is published is whole, and what  *)
(* a run does not replace stays.  A staging tree belongs to one dataset;   *)
(* shared by two, the first of these fails.                                *)
(*                                                                         *)
(* Then the inference servers that such runs spawn (ServerPool): any runs, *)
(* replicas, threads and messages.  No server stays behind, every message  *)
(* has its own result, a start that ends found somebody on each port, and  *)
(* a run stops its own servers only.                                       *)
(***************************************************************************)
EXTENDS AnnotationPipeline, ServerPool, TLAPS

Apart == ~SharedStaging

(* The phases after that of a module, and whether it has come to episode e.*)
After ==
  [plan |-> {"interjections", "plan_update", "vqa", "validate", "rewrite"},
   interjections |-> {"plan_update", "vqa", "validate", "rewrite"},
   vqa |-> {"validate", "rewrite"}]

HasRun(d, e, m) == \/ pc[d] \in After[m]
                   \/ pc[d] = m /\ e \notin waiting[d]

(* Progress of a run: what failed goes no further than the end of its      *)
(* phase, and what was validated is still what was staged.                 *)
RunInv(d) ==
  /\ waiting[d] \subseteq run[d].selected
  /\ pc[d] \in {"plan_update", "validate", "rewrite"} => ~run[d].failed
  /\ pc[d] \in {"validate", "rewrite"} => waiting[d] = {}
  /\ pc[d] = "rewrite" => run[d].skipped = Skipped(d)

(* What a module has come to is of this run, of whatever run it was before.*)
StagedInv(d) ==
  ~run[d].failed => \A e \in run[d].selected, m \in Modules :
    HasRun(d, e, m) => staging[d][e][m].by = Stamp(d)

(* A staged plan file, whichever run left it. *)
Shaped(plan) ==
  /\ plan.subtasks # {} => 0 \in plan.subtasks
  /\ plan.memories \subseteq Later(plan.subtasks)
  /\ EmitPlan => plan.plans \subseteq plan.subtasks

ShapeInv(d) == \A e \in Episodes : Shaped(staging[d][e].plan)

(* Interjections are on boundaries of the plan of their own run. *)
CueInv(d) ==
  ~run[d].failed => \A e \in run[d].selected : HasRun(d, e, "interjections") =>
    staging[d][e].interjections.times \subseteq Later(staging[d][e].plan.subtasks)

(* What is published is of an earlier run, unless this one has ended well. *)
Earlier(d, by) ==
  \/ by = Nobody
  \/ /\ by.root = d /\ by.run <= run[d].number
     /\ pc[d] # "idle" \/ run[d].failed => by.run < run[d].number

(* A published episode: rows of one run, and all that it was asked for.    *)
Whole(rows) ==
  LET on == rows.plan.by.modules
  IN  /\ "plan" \in on =>
           /\ 0 \in rows.plan.subtasks
           /\ rows.plan.memories = Later(rows.plan.subtasks)
           /\ EmitPlan => rows.plan.plans = rows.plan.subtasks
      /\ "interjections" \in on =>
           rows.interjections.speech \/ rows.interjections.times # {}
      /\ "vqa" \in on => rows.vqa.pair
      /\ rows.interjections.times \subseteq Later(rows.plan.subtasks)

PublishedInv(d) ==
  \A e \in Episodes :
    /\ Earlier(d, published[d][e].plan.by)
    /\ \A m \in Modules : published[d][e][m].by = published[d][e].plan.by
    /\ Whole(published[d][e])

(* The columns: a run that is under way covers all that has to be migrated.*)
ScopeInv(d) ==
  /\ canonical[d] \in {{}, Shards}
  /\ info[d] <=> canonical[d] = Shards
  /\ pc[d] # "idle" => WriteScope(d, run[d].selected)

DatasetInv(d) ==
  RunInv(d) /\ StagedInv(d) /\ ShapeInv(d) /\ CueInv(d) /\ PublishedInv(d) /\ ScopeInv(d)

IInv == TypeOK /\ \A d \in Datasets : DatasetInv(d)

-----------------------------------------------------------------------------
Outcome == [number : 0 .. MaxRuns, selected : SUBSET Episodes, modules : SUBSET Modules,
            skipped : SUBSET Episodes, failed : BOOLEAN]

LEMMA Trees ==
  ASSUME Apart
  PROVE  /\ \A d : Tree(d) = d
         /\ {Tree(d) : d \in Datasets} = Datasets
         /\ \A d, e : Staged(d, e) = staging[d][e]
BY DEF Apart, Tree, Staged

(* The types of what belongs to one dataset. *)
LEMMA TypeFacts ==
  ASSUME TypeOK, Apart, NEW d \in Datasets
  PROVE  /\ staging[d] \in [Episodes -> Rows] /\ published[d] \in [Episodes -> Rows]
         /\ canonical[d] \in SUBSET Shards /\ info[d] \in BOOLEAN /\ pc[d] \in Steps
         /\ run[d] \in Outcome /\ waiting[d] \in SUBSET Episodes
         /\ faults \in 0 .. MaxFaults
BY Trees DEF TypeOK, Outcome

LEMMA RowsFacts ==
  ASSUME NEW rows \in Rows
  PROVE  /\ rows = [plan |-> rows.plan, interjections |-> rows.interjections, vqa |-> rows.vqa]
         /\ rows["plan"] = rows.plan /\ rows["vqa"] = rows.vqa
         /\ rows["interjections"] = rows.interjections
         /\ rows.plan \in [by : Stamps, subtasks : SUBSET Boundaries, plans : SUBSET Boundaries,
                           memories : SUBSET Boundaries]
         /\ rows.interjections \in [by : Stamps, times : SUBSET Boundaries, speech : BOOLEAN]
         /\ rows.vqa \in [by : Stamps, pair : BOOLEAN]
BY DEF Rows

LEMMA StampTyped ==
  ASSUME TypeOK, Apart, NEW d \in Datasets
  PROVE  Stamp(d) \in Stamps /\ Stamp(d).root = d /\ Stamp(d).run = run[d].number
         /\ Stamp(d).modules = run[d].modules
BY TypeFacts DEF Stamp, Stamps, Outcome

LEMMA NoRowsTyped ==
  ASSUME NEW by \in Stamps
  PROVE  NoRows(by) \in Rows
BY DEF NoRows, Rows

LEMMA NobodyTyped == Nobody \in Stamps
BY ConstantsAssumption DEF Nobody, Stamps

(* What a phase leaves of an episode is of this run, and of its shape. *)
LEMMA OutputsFacts ==
  ASSUME TypeOK, Apart, NEW d \in Datasets, NEW e \in Episodes, NEW m \in Modules,
         NEW rows \in Outputs(d, e, m)
  PROVE  /\ rows.by = Stamp(d)
         /\ [staging[d][e] EXCEPT ![m] = rows] \in Rows
         /\ m = "plan" => Shaped(rows)
         /\ m = "interjections" => rows.times \subseteq Later(staging[d][e].plan.subtasks)
<1> USE TypeFacts, StampTyped, Trees
<1>1. staging[d][e] \in Rows
  OBVIOUS
<1>2. CASE m \notin run[d].modules
  <2>1. rows = NoRows(Stamp(d))[m]
    BY <1>2 DEF Outputs
  <2>2. CASE m = "plan"
    <3>1. rows = [by |-> Stamp(d), subtasks |-> {}, plans |-> {}, memories |-> {}]
      BY <2>1, <2>2 DEF NoRows
    <3>2. QED
      BY <1>1, <2>2, <3>1, RowsFacts DEF Rows, Shaped, Later
  <2>3. CASE m = "interjections"
    <3>1. rows = [by |-> Stamp(d), times |-> {}, speech |-> FALSE]
      BY <2>1, <2>3 DEF NoRows
    <3>2. QED
      BY <1>1, <2>3, <3>1, RowsFacts DEF Rows
  <2>4. CASE m = "vqa"
    <3>1. rows = [by |-> Stamp(d), pair |-> FALSE]
      BY <2>1, <2>4 DEF NoRows
    <3>2. QED
      BY <1>1, <2>4, <3>1, RowsFacts DEF Rows
  <2>5. QED
    BY <2>2, <2>3, <2>4 DEF Modules
<1>3. CASE m \in run[d].modules
  <2>1. rows \in Answers(d, e, m)
    BY <1>3 DEF Outputs
  <2>2. CASE m = "plan"
    <3>1. rows \in PlanRows(Stamp(d)) /\ rows.memories \subseteq Later(rows.subtasks)
      BY <2>1, <2>2 DEF Answers
    <3>2. PICK s \in SUBSET Boundaries, k \in SUBSET Boundaries :
            /\ s # {} => 0 \in s
            /\ rows = [by |-> Stamp(d), subtasks |-> s, plans |-> IF EmitPlan THEN s ELSE {},
                       memories |-> k]
      BY <3>1 DEF PlanRows
    <3>3. QED
      BY <1>1, <2>2, <3>1, <3>2, RowsFacts DEF Rows, Shaped
  <2>3. CASE m = "interjections"
    <3>1. rows \in InterjectionRows(Stamp(d), staging[d][e].plan.subtasks)
      BY <2>1, <2>3 DEF Answers
    <3>2. PICK t \in SUBSET Later(staging[d][e].plan.subtasks), s \in BOOLEAN :
            rows = [by |-> Stamp(d), times |-> t, speech |-> s]
      BY <3>1 DEF InterjectionRows
    <3>3. t \subseteq Boundaries
      BY <1>1, <3>2, RowsFacts DEF Later
    <3>4. QED
      BY <1>1, <2>3, <3>2, <3>3, RowsFacts DEF Rows
  <2>4. CASE m = "vqa"
    <3>1. PICK p \in BOOLEAN : rows = [by |-> Stamp(d), pair |-> p]
      BY <2>1, <2>4 DEF Answers
    <3>2. QED
      BY <1>1, <2>4, <3>1, RowsFacts DEF Rows
  <2>5. QED
    BY <2>2, <2>3, <2>4 DEF Modules
<1>4. QED
  BY <1>2, <1>3

(* The plan file after an update has its shape and its owner. *)
LEMMA UpdateFacts ==
  ASSUME NEW rows \in Rows
  PROVE  LET plan == UpdatedPlan(rows) IN
         /\ [rows EXCEPT !.plan = plan] \in Rows
         /\ plan.by = rows.plan.by /\ plan.subtasks = rows.plan.subtasks
         /\ plan.memories = rows.plan.memories
         /\ Shaped(rows.plan) /\ rows.interjections.times \subseteq Later(rows.plan.subtasks)
              => Shaped(plan)
<1>1. CASE EmitPlan
  <2>1. PICK times \in SUBSET rows.interjections.times :
          UpdatedPlan(rows) = [rows.plan EXCEPT !.plans = rows.plan.plans \cup times]
    BY <1>1 DEF UpdatedPlan
  <2>2. times \subseteq Boundaries
    BY <2>1, RowsFacts
  <2>3. QED
    BY <2>1, <2>2, RowsFacts DEF Rows, Shaped, Later
<1>2. CASE ~EmitPlan
  BY <1>2, RowsFacts DEF UpdatedPlan, Rows
<1>3. QED
  BY <1>1, <1>2

-----------------------------------------------------------------------------
(* What a step of one dataset's run leaves alone of another dataset. *)
Same(c) ==
  /\ staging'[c] = staging[c] /\ published'[c] = published[c]
  /\ canonical'[c] = canonical[c] /\ info'[c] = info[c]
  /\ pc'[c] = pc[c] /\ run'[c] = run[c] /\ waiting'[c] = waiting[c]

LEMMA Frame ==
  ASSUME Apart, NEW c \in Datasets, Same(c), DatasetInv(c)
  PROVE  DatasetInv(c)'
<1> USE DEF Same
<1>1. Skipped(c)' = Skipped(c)
  BY Trees DEF Skipped, Staged, Tree, Apart
<1>2. Stamp(c)' = Stamp(c)
  BY DEF Stamp
<1>3. \A e, m : HasRun(c, e, m)' <=> HasRun(c, e, m)
  BY DEF HasRun
<1>4. RunInv(c)'
  BY <1>1 DEF DatasetInv, RunInv
<1>5. StagedInv(c)'
  BY <1>2, <1>3 DEF DatasetInv, StagedInv
<1>6. ShapeInv(c)' /\ CueInv(c)'
  BY <1>3 DEF DatasetInv, ShapeInv, CueInv, Shaped, Later
<1>7. PublishedInv(c)'
  BY DEF DatasetInv, PublishedInv, Earlier, Whole, Later
<1>8. ScopeInv(c)'
  BY DEF DatasetInv, ScopeInv, WriteScope
<1>9. QED
  BY <1>4, <1>5, <1>6, <1>7, <1>8 DEF DatasetInv

-----------------------------------------------------------------------------
(* One step of the run of d, one lemma per action: types, the dataset's    *)
(* own invariant, and the frame.                                           *)
Kept(d) == TypeOK' /\ DatasetInv(d)' /\ \A c \in Datasets \ {d} : Same(c)

LEMMA StartKeeps ==
  ASSUME IInv, Apart, NEW d \in Datasets, StartRun(d)
  PROVE  Kept(d)
<1> USE Trees, TypeFacts DEF IInv
<1>1. PICK request \in Requests :
        /\ WriteScope(d, request.selected)
        /\ run' = [run EXCEPT ![d] =
             [number |-> run[d].number + 1, selected |-> request.selected,
              modules |-> request.modules, skipped |-> {}, failed |-> FALSE]]
        /\ waiting' = [waiting EXCEPT ![d] = request.selected]
  BY DEF StartRun
<1>2. request.selected \in SUBSET Episodes /\ request.modules \in SUBSET Modules
  BY ConstantsAssumption
<1>3. /\ pc' = [pc EXCEPT ![d] = "plan"] /\ pc[d] = "idle" /\ run[d].number < MaxRuns
      /\ UNCHANGED <<staging, published, canonical, info, faults>>
  BY DEF StartRun
<1>4. /\ pc'[d] = "plan" /\ waiting'[d] = request.selected
      /\ run'[d] = [number |-> run[d].number + 1, selected |-> request.selected,
                    modules |-> request.modules, skipped |-> {}, failed |-> FALSE]
  BY <1>1, <1>3 DEF TypeOK
<1>5. run[d].number + 1 \in 0 .. MaxRuns
  BY <1>3, ConstantsAssumption DEF Outcome
<1>6. TypeOK'
  <2>1. run'[d] \in Outcome
    BY <1>2, <1>4, <1>5 DEF Outcome
  <2>2. run' \in [Datasets -> Outcome]
    BY <1>1, <2>1 DEF TypeOK, Outcome
  <2>3. pc' \in [Datasets -> Steps]
    BY <1>3 DEF TypeOK, Steps, Modules
  <2>4. waiting' \in [Datasets -> SUBSET Episodes]
    BY <1>1, <1>2 DEF TypeOK
  <2>5. QED
    BY <1>3, <2>2, <2>3, <2>4 DEF TypeOK, Outcome, Tree
<1>7. DatasetInv(d)'
  <2>1. RunInv(d)'
    BY <1>4 DEF RunInv
  <2>2. \A e \in request.selected, m \in Modules : ~HasRun(d, e, m)'
    BY <1>4 DEF HasRun, After, Modules
  <2>3. StagedInv(d)' /\ CueInv(d)'
    BY <1>4, <2>2 DEF StagedInv, CueInv, Modules
  <2>4. ShapeInv(d)'
    BY <1>3 DEF DatasetInv, ShapeInv, Shaped, Later
  <2>5. PublishedInv(d)'
    <3>1. ASSUME NEW e \in Episodes
          PROVE  Earlier(d, published[d][e].plan.by)'
      <4>1. Earlier(d, published[d][e].plan.by)
        BY DEF DatasetInv, PublishedInv
      <4>2. published[d][e].plan.by \in Stamps
        BY RowsFacts
      <4>3. QED
        BY <1>3, <1>4, <1>5, <4>1, <4>2 DEF Earlier, Stamps, Outcome
    <3>2. QED
      BY <1>3, <3>1 DEF DatasetInv, PublishedInv, Whole, Later
  <2>6. ScopeInv(d)'
    BY <1>1, <1>3, <1>4 DEF DatasetInv, ScopeInv, WriteScope
  <2>7. QED
    BY <2>1, <2>3, <2>4, <2>5, <2>6 DEF DatasetInv
<1>8. QED
  BY <1>1, <1>3, <1>6, <1>7 DEF Kept, Same, TypeOK

LEMMA RunEpisodeKeeps ==
  ASSUME IInv, Apart, NEW d \in Datasets, RunEpisode(d)
  PROVE  Kept(d)
<1> USE Trees, TypeFacts DEF IInv
<1> DEFINE m == pc[d]
<1>1. m \in Modules /\ UNCHANGED <<published, canonical, info, pc, run, faults>>
  BY DEF RunEpisode
<1>2. PICK e \in waiting[d] :
        /\ \E rows \in Outputs(d, e, pc[d]) :
             staging' = [staging EXCEPT ![d][e][pc[d]] = rows]
        /\ waiting' = [waiting EXCEPT ![d] = @ \ {e}]
  BY DEF RunEpisode, Ready, Tree, Apart
<1>3. PICK rows \in Outputs(d, e, m) : staging' = [staging EXCEPT ![d][e][m] = rows]
  BY <1>2
<1>4. e \in Episodes /\ staging[d][e] \in Rows /\ waiting'[d] = waiting[d] \ {e}
  BY <1>2 DEF TypeOK
<1>5. /\ rows.by = Stamp(d) /\ [staging[d][e] EXCEPT ![m] = rows] \in Rows
      /\ m = "plan" => Shaped(rows)
      /\ m = "interjections" => rows.times \subseteq Later(staging[d][e].plan.subtasks)
  BY <1>1, <1>3, <1>4, OutputsFacts
<1>6. staging'[d] = [staging[d] EXCEPT ![e] = [staging[d][e] EXCEPT ![m] = rows]]
  BY <1>3, <1>4 DEF TypeOK
<1>7. \A f \in Episodes \ {e} : staging'[d][f] = staging[d][f]
  BY <1>4, <1>6
<1>8. staging'[d][e] = [staging[d][e] EXCEPT ![m] = rows]
  BY <1>4, <1>6
<1>9. /\ staging'[d][e][m] = rows
      /\ \A k \in Modules \ {m} : staging'[d][e][k] = staging[d][e][k]
  BY <1>1, <1>4, <1>8 DEF Rows, Modules
<1>10. TypeOK'
  <2>1. staging'[d] \in [Episodes -> Rows]
    BY <1>4, <1>5, <1>6
  <2>2. staging' \in [Datasets -> [Episodes -> Rows]]
    BY <1>3, <2>1 DEF TypeOK
  <2>3. waiting' \in [Datasets -> SUBSET Episodes]
    BY <1>2 DEF TypeOK
  <2>4. QED
    BY <1>1, <2>2, <2>3 DEF TypeOK, Tree, Apart
<1>11. \A f \in run[d].selected, k \in Modules :
         HasRun(d, f, k)' => HasRun(d, f, k) \/ (f = e /\ k = m)
  BY <1>1, <1>4 DEF HasRun
<1>12. staging'[d][e] \in Rows /\ run[d].selected \subseteq Episodes
  BY <1>5, <1>8 DEF Outcome
<1>13. DatasetInv(d)'
  <2>1. RunInv(d)'
    BY <1>1, <1>4 DEF DatasetInv, RunInv, Modules
  <2>2. StagedInv(d)'
    <3>1. ASSUME ~run[d].failed, NEW f \in run[d].selected, NEW k \in Modules, HasRun(d, f, k)'
          PROVE  staging'[d][f][k].by = Stamp(d)
      <4>1. CASE f = e /\ k = m
        BY <1>5, <1>9, <4>1
      <4>2. CASE ~(f = e /\ k = m)
        <5>1. staging[d][f][k].by = Stamp(d)
          BY <1>11, <3>1, <4>2 DEF DatasetInv, StagedInv
        <5>2. QED
          BY <1>7, <1>9, <1>12, <4>2, <5>1
      <4>3. QED
        BY <4>1, <4>2
    <3>2. QED
      BY <1>1, <3>1 DEF StagedInv, Stamp
  <2>3. ShapeInv(d)'
    <3>1. Shaped(staging'[d][e].plan)
      <4>1. staging'[d][e].plan = staging'[d][e]["plan"] /\ staging[d][e].plan = staging[d][e]["plan"]
        OBVIOUS
      <4>2. Shaped(staging[d][e].plan)
        BY <1>4 DEF DatasetInv, ShapeInv
      <4>3. QED
        BY <1>5, <1>9, <4>1, <4>2 DEF Modules
    <3>2. QED
      BY <1>7, <3>1 DEF DatasetInv, ShapeInv, Shaped, Later
  <2>4. CueInv(d)'
    <3>1. ASSUME ~run[d].failed, NEW f \in run[d].selected, HasRun(d, f, "interjections")'
          PROVE  staging'[d][f].interjections.times
                   \subseteq Later(staging'[d][f].plan.subtasks)
      <4>1. CASE f # e
        <5>1. HasRun(d, f, "interjections")
          BY <1>11, <3>1, <4>1 DEF Modules
        <5>2. QED
          BY <1>7, <1>12, <3>1, <4>1, <5>1 DEF DatasetInv, CueInv
      <4>2. CASE f = e
        <5>1. m # "plan"
          BY <1>1, <3>1 DEF HasRun, After
        <5>2. staging'[d][e].plan = staging[d][e].plan
          BY <1>4, <1>9, <1>12, <5>1, RowsFacts DEF Modules
        <5>3. CASE m = "interjections"
          <6>1. staging'[d][e].interjections = rows
            BY <1>9, <1>12, <5>3, RowsFacts
          <6>2. QED
            BY <1>5, <4>2, <5>2, <5>3, <6>1
        <5>4. CASE m # "interjections"
          <6>1. staging'[d][e].interjections = staging[d][e].interjections
            BY <1>4, <1>9, <1>12, <5>4, RowsFacts DEF Modules
          <6>2. HasRun(d, e, "interjections")
            BY <1>11, <3>1, <4>2, <5>4 DEF Modules
          <6>3. QED
            BY <3>1, <4>2, <5>2, <6>1, <6>2 DEF DatasetInv, CueInv
        <5>5. QED
          BY <5>3, <5>4
      <4>3. QED
        BY <4>1, <4>2
    <3>2. QED
      BY <1>1, <3>1 DEF CueInv, Later
  <2>5. PublishedInv(d)' /\ ScopeInv(d)'
    BY <1>1 DEF DatasetInv, PublishedInv, Earlier, Whole, Later, ScopeInv, WriteScope
  <2>6. QED
    BY <2>1, <2>2, <2>3, <2>4, <2>5 DEF DatasetInv
<1>14. QED
  BY <1>1, <1>2, <1>3, <1>10, <1>13 DEF Kept, Same, TypeOK

LEMMA RaiseKeeps ==
  ASSUME IInv, Apart, NEW d \in Datasets, EpisodeRaises(d)
  PROVE  Kept(d)
<1> USE Trees, TypeFacts DEF IInv
<1>1. /\ pc[d] \in Modules /\ faults < MaxFaults /\ faults' = faults + 1
      /\ run' = [run EXCEPT ![d].failed = TRUE]
      /\ UNCHANGED <<staging, published, canonical, info, pc>>
  BY DEF EpisodeRaises, Outcome
<1>2. PICK rest \in SUBSET waiting[d] : waiting' = [waiting EXCEPT ![d] = rest]
  BY DEF EpisodeRaises
<1>3. /\ run'[d] = [run[d] EXCEPT !.failed = TRUE]
      /\ waiting'[d] = rest
  BY <1>1, <1>2 DEF TypeOK
<1>4. run'[d] \in Outcome /\ run'[d].failed /\ run'[d].number = run[d].number
      /\ run'[d].selected = run[d].selected
  BY <1>3 DEF Outcome
<1>5. TypeOK'
  <2>1. run' \in [Datasets -> Outcome]
    BY <1>1, <1>3, <1>4 DEF TypeOK, Outcome
  <2>2. waiting' \in [Datasets -> SUBSET Episodes] /\ faults' \in 0 .. MaxFaults
    BY <1>1, <1>2, ConstantsAssumption DEF TypeOK
  <2>3. QED
    BY <1>1, <2>1, <2>2 DEF TypeOK, Tree, Outcome
<1>6. DatasetInv(d)'
  <2>1. RunInv(d)'
    BY <1>1, <1>2, <1>3, <1>4 DEF DatasetInv, RunInv, Modules
  <2>2. StagedInv(d)' /\ CueInv(d)'
    BY <1>4 DEF StagedInv, CueInv
  <2>3. ShapeInv(d)'
    BY <1>1 DEF DatasetInv, ShapeInv, Shaped, Later
  <2>4. PublishedInv(d)'
    BY <1>1, <1>4 DEF DatasetInv, PublishedInv, Earlier, Whole, Later, Modules
  <2>5. ScopeInv(d)'
    BY <1>1, <1>4 DEF DatasetInv, ScopeInv, WriteScope
  <2>6. QED
    BY <2>1, <2>2, <2>3, <2>4, <2>5 DEF DatasetInv
<1>7. QED
  BY <1>1, <1>2, <1>5, <1>6 DEF Kept, Same, TypeOK

LEMMA UpdateKeeps ==
  ASSUME IInv, Apart, NEW d \in Datasets, PlanUpdate(d)
  PROVE  Kept(d)
<1> USE Trees, TypeFacts DEF IInv
<1>1. pc[d] = "plan_update" /\ UNCHANGED <<published, canonical, info, pc, run, faults>>
  BY DEF PlanUpdate
<1>2. PICK e \in waiting[d] :
        /\ staging' = [staging EXCEPT ![d][e].plan = UpdatedPlan(staging[d][e])]
        /\ waiting' = [waiting EXCEPT ![d] = @ \ {e}]
  BY DEF PlanUpdate, Ready, Tree, Apart, Staged
<1> DEFINE plan == UpdatedPlan(staging[d][e])
<1>3. /\ e \in Episodes /\ e \in run[d].selected /\ ~run[d].failed
      /\ staging[d][e] \in Rows /\ waiting'[d] = waiting[d] \ {e}
  BY <1>1, <1>2 DEF TypeOK, DatasetInv, RunInv
<1>4. /\ [staging[d][e] EXCEPT !.plan = plan] \in Rows
      /\ plan.by = staging[d][e].plan.by /\ plan.subtasks = staging[d][e].plan.subtasks
      /\ Shaped(staging[d][e].plan)
           /\ staging[d][e].interjections.times \subseteq Later(staging[d][e].plan.subtasks)
           => Shaped(plan)
  BY <1>3, UpdateFacts
<1>5. staging'[d] = [staging[d] EXCEPT ![e] = [staging[d][e] EXCEPT !.plan = plan]]
  BY <1>2, <1>3 DEF TypeOK
<1>6. /\ \A f \in Episodes \ {e} : staging'[d][f] = staging[d][f]
      /\ staging'[d][e] = [staging[d][e] EXCEPT !.plan = plan]
  BY <1>3, <1>5
<1>7. /\ staging'[d][e].plan = plan
      /\ staging'[d][e].interjections = staging[d][e].interjections
      /\ staging'[d][e].vqa = staging[d][e].vqa
  BY <1>3, <1>6 DEF Rows
<1>8. TypeOK'
  <2>1. staging'[d] \in [Episodes -> Rows]
    BY <1>3, <1>4, <1>5
  <2>2. staging' \in [Datasets -> [Episodes -> Rows]]
    BY <1>2, <2>1 DEF TypeOK
  <2>3. waiting' \in [Datasets -> SUBSET Episodes]
    BY <1>2 DEF TypeOK
  <2>4. QED
    BY <1>1, <2>2, <2>3 DEF TypeOK, Tree, Apart
<1>9. staging'[d][e] \in Rows /\ run[d].selected \subseteq Episodes
  BY <1>4, <1>6 DEF Outcome
<1>10. \A f \in Episodes : /\ \A k \in Modules : staging'[d][f][k].by = staging[d][f][k].by
                          /\ staging'[d][f].interjections = staging[d][f].interjections
                          /\ staging'[d][f].plan.subtasks = staging[d][f].plan.subtasks
  BY <1>3, <1>4, <1>6, <1>7, <1>9, RowsFacts DEF Modules
<1>11. \A f \in run[d].selected, k \in Modules : HasRun(d, f, k)' => HasRun(d, f, k)
  BY <1>1, <1>3 DEF HasRun, Modules
<1>12. DatasetInv(d)'
  <2>1. RunInv(d)'
    BY <1>1, <1>3 DEF DatasetInv, RunInv
  <2>2. StagedInv(d)'
    BY <1>1, <1>9, <1>10, <1>11 DEF DatasetInv, StagedInv, Stamp
  <2>3. CueInv(d)'
    BY <1>1, <1>9, <1>10, <1>11 DEF DatasetInv, CueInv, Later, Modules
  <2>4. Shaped(plan)
    <3>1. HasRun(d, e, "interjections")
      BY <1>1 DEF HasRun, After
    <3>2. QED
      BY <1>3, <1>4, <3>1 DEF DatasetInv, CueInv, ShapeInv
  <2>5. ShapeInv(d)'
    BY <1>6, <1>7, <2>4 DEF DatasetInv, ShapeInv, Shaped, Later
  <2>6. PublishedInv(d)' /\ ScopeInv(d)'
    BY <1>1 DEF DatasetInv, PublishedInv, Earlier, Whole, Later, ScopeInv, WriteScope
  <2>7. QED
    BY <2>1, <2>2, <2>3, <2>5, <2>6 DEF DatasetInv
<1>13. QED
  BY <1>1, <1>2, <1>8, <1>12 DEF Kept, Same, TypeOK

LEMMA EndKeeps ==
  ASSUME IInv, Apart, NEW d \in Datasets, EndPhase(d)
  PROVE  Kept(d)
<1> USE Trees, TypeFacts DEF IInv
<1> DEFINE next == EndsPhase(d)
<1>1. /\ pc[d] \in {"plan", "interjections", "plan_update", "vqa"} /\ waiting[d] = {}
      /\ UNCHANGED <<staging, published, canonical, info, run, faults>>
      /\ pc' = [pc EXCEPT ![d] = next]
  BY DEF EndPhase, NextPhase
<1>2. /\ pc'[d] = next
      /\ next = IF run[d].failed THEN "idle" ELSE
           CASE pc[d] = "plan" -> "interjections" [] pc[d] = "interjections" -> "plan_update"
             [] pc[d] = "plan_update" -> "vqa" [] pc[d] = "vqa" -> "validate"
  <2>1. pc'[d] = next
    BY <1>1 DEF TypeOK
  <2>2. QED
    BY <1>1, <2>1 DEF EndsPhase, NextPhase
<1>3. next \in {"idle", "interjections", "plan_update", "vqa", "validate"}
  BY <1>1, <1>2
<1>4. PICK now \in SUBSET run[d].selected :
        /\ waiting' = [waiting EXCEPT ![d] = now]
        /\ next \in Modules => now = run[d].selected
        /\ next \in {"idle", "validate"} => now = {}
  <2>1. CASE next \in Modules
    <3>1. pc'[d] \in Modules /\ pc'[d] # "plan_update"
      BY <1>2, <2>1 DEF Modules
    <3>2. waiting' = [waiting EXCEPT ![d] = run[d].selected]
      BY <3>1 DEF EndPhase
    <3>3. QED
      BY <2>1, <3>2 DEF Modules
  <2>2. CASE next = "plan_update"
    <3>1. next \notin Modules
      BY <2>2 DEF Modules
    <3>2. CASE {"plan", "interjections"} \subseteq run[d].modules
      BY <1>2, <2>2, <3>1, <3>2 DEF EndPhase
    <3>3. CASE ~({"plan", "interjections"} \subseteq run[d].modules)
      <4>1. waiting' = [waiting EXCEPT ![d] = {}]
        BY <1>2, <3>1, <3>3 DEF EndPhase
      <4>2. QED
        BY <2>2, <3>1, <4>1
    <3>4. QED
      BY <3>2, <3>3
  <2>3. CASE next \in {"idle", "validate"}
    <3>1. next \notin Modules /\ next # "plan_update"
      BY <2>3 DEF Modules
    <3>2. waiting' = [waiting EXCEPT ![d] = {}]
      BY <1>2, <3>1 DEF EndPhase
    <3>3. QED
      BY <3>1, <3>2
  <2>4. QED
    BY <1>3, <2>1, <2>2, <2>3 DEF Modules
<1>5. waiting'[d] = now
  BY <1>4 DEF TypeOK
<1>6. TypeOK'
  <2>1. pc' \in [Datasets -> Steps]
    BY <1>1, <1>3 DEF TypeOK, Steps, Modules
  <2>2. waiting' \in [Datasets -> SUBSET Episodes]
    BY <1>4 DEF TypeOK, Outcome
  <2>3. QED
    BY <1>1, <2>1, <2>2 DEF TypeOK, Tree
<1>7. \A e \in run[d].selected, m \in Modules : HasRun(d, e, m)' => HasRun(d, e, m)
  <2>1. CASE next \in Modules
    BY <1>1, <1>2, <1>4, <1>5, <2>1 DEF HasRun, After, Modules
  <2>2. CASE next \notin Modules
    BY <1>1, <1>2, <1>3, <2>2 DEF HasRun, After, Modules
  <2>3. QED
    BY <2>1, <2>2
<1>8. DatasetInv(d)'
  <2>1. RunInv(d)'
    BY <1>1, <1>2, <1>3, <1>4, <1>5 DEF DatasetInv, RunInv
  <2>2. StagedInv(d)' /\ CueInv(d)' /\ ShapeInv(d)'
    BY <1>1, <1>7 DEF DatasetInv, StagedInv, Stamp, CueInv, ShapeInv, Shaped, Later, Modules
  <2>3. PublishedInv(d)'
    BY <1>1, <1>2 DEF DatasetInv, PublishedInv, Earlier, Whole, Later
  <2>4. ScopeInv(d)'
    BY <1>1 DEF DatasetInv, ScopeInv, WriteScope
  <2>5. QED
    BY <2>1, <2>2, <2>3, <2>4 DEF DatasetInv
<1>9. QED
  BY <1>1, <1>4, <1>6, <1>8 DEF Kept, Same, TypeOK

LEMMA ValidateKeeps ==
  ASSUME IInv, Apart, NEW d \in Datasets, Validate(d)
  PROVE  Kept(d)
<1> USE Trees, TypeFacts DEF IInv
<1>1. /\ pc[d] = "validate" /\ UNCHANGED <<staging, published, canonical, info, waiting, faults>>
      /\ run' = [run EXCEPT ![d].skipped = Skipped(d)]
      /\ pc' = [pc EXCEPT ![d] = IF Refused(d) THEN "idle" ELSE "rewrite"]
  BY DEF Validate
<1>2. Skipped(d) \in SUBSET Episodes
  BY DEF Skipped, Outcome
<1>3. run'[d] = [run[d] EXCEPT !.skipped = Skipped(d)] /\ pc'[d] \in {"idle", "rewrite"}
  BY <1>1 DEF TypeOK
<1>4. /\ run'[d] \in Outcome /\ run'[d].skipped = Skipped(d)
      /\ run'[d].number = run[d].number /\ run'[d].selected = run[d].selected
      /\ run'[d].modules = run[d].modules /\ run'[d].failed = run[d].failed
  BY <1>2, <1>3 DEF Outcome
<1>5. TypeOK'
  <2>1. run' \in [Datasets -> Outcome]
    BY <1>1, <1>3, <1>4 DEF TypeOK, Outcome
  <2>2. pc' \in [Datasets -> Steps]
    BY <1>1 DEF TypeOK, Steps
  <2>3. QED
    BY <1>1, <2>1, <2>2 DEF TypeOK, Tree, Outcome
<1>6. Skipped(d)' = Skipped(d) /\ Stamp(d)' = Stamp(d)
  BY <1>1, <1>4 DEF Skipped, Stamp, Staged, Tree, Apart
<1>7. \A e, m : m \in Modules /\ HasRun(d, e, m)' => HasRun(d, e, m)
  BY <1>1, <1>3 DEF HasRun, After, Modules
<1>8. DatasetInv(d)'
  <2>1. RunInv(d)'
    BY <1>1, <1>4, <1>6 DEF DatasetInv, RunInv
  <2>2. StagedInv(d)' /\ CueInv(d)' /\ ShapeInv(d)'
    BY <1>1, <1>4, <1>6, <1>7
    DEF DatasetInv, StagedInv, CueInv, ShapeInv, Shaped, Later, Modules
  <2>3. PublishedInv(d)'
    BY <1>1, <1>4 DEF DatasetInv, PublishedInv, Earlier, Whole, Later
  <2>4. ScopeInv(d)'
    BY <1>1, <1>4 DEF DatasetInv, ScopeInv, WriteScope
  <2>5. QED
    BY <2>1, <2>2, <2>3, <2>4 DEF DatasetInv
<1>9. QED
  BY <1>1, <1>5, <1>8 DEF Kept, Same, TypeOK

LEMMA StopKeeps ==
  ASSUME IInv, Apart, NEW d \in Datasets, Stop(d)
  PROVE  Kept(d)
<1> USE Trees, TypeFacts DEF IInv
<1>1. /\ pc[d] # "idle" /\ faults < MaxFaults /\ faults' = faults + 1
      /\ UNCHANGED <<staging, published, canonical, info, run>>
      /\ pc' = [pc EXCEPT ![d] = "idle"] /\ waiting' = [waiting EXCEPT ![d] = {}]
  BY DEF Stop
<1>2. pc'[d] = "idle" /\ waiting'[d] = {}
  BY <1>1 DEF TypeOK
<1>3. TypeOK'
  <2>1. pc' \in [Datasets -> Steps] /\ waiting' \in [Datasets -> SUBSET Episodes]
    BY <1>1 DEF TypeOK, Steps
  <2>2. faults' \in 0 .. MaxFaults
    BY <1>1, ConstantsAssumption
  <2>3. QED
    BY <1>1, <2>1, <2>2 DEF TypeOK, Tree
<1>4. \A e, m : m \in Modules => ~HasRun(d, e, m)'
  BY <1>2 DEF HasRun, After, Modules
<1>5. DatasetInv(d)'
  <2>1. RunInv(d)'
    BY <1>2 DEF RunInv
  <2>2. StagedInv(d)' /\ CueInv(d)'
    BY <1>4 DEF StagedInv, CueInv, Modules
  <2>3. ShapeInv(d)'
    BY <1>1 DEF DatasetInv, ShapeInv, Shaped, Later
  <2>4. PublishedInv(d)'
    BY <1>1 DEF DatasetInv, PublishedInv, Earlier, Whole, Later
  <2>5. ScopeInv(d)'
    BY <1>1, <1>2 DEF DatasetInv, ScopeInv
  <2>6. QED
    BY <2>1, <2>2, <2>3, <2>4, <2>5 DEF DatasetInv
<1>6. QED
  BY <1>1, <1>3, <1>5 DEF Kept, Same, TypeOK

(* An episode that the validator lets through is whole. *)
LEMMA AcceptedIsWhole ==
  ASSUME NEW rows \in Rows, NEW modules, rows.plan.by.modules = modules,
         ~Incomplete(rows, modules), Shaped(rows.plan),
         rows.interjections.times \subseteq Later(rows.plan.subtasks)
  PROVE  Whole(rows)
<1>1. "plan" \in modules => /\ 0 \in rows.plan.subtasks
                            /\ rows.plan.memories = Later(rows.plan.subtasks)
                            /\ EmitPlan => rows.plan.plans = rows.plan.subtasks
  BY DEF Incomplete, Shaped
<1>2. QED
  BY <1>1, RowsFacts DEF Incomplete, Whole

LEMMA RewriteKeeps ==
  ASSUME IInv, Apart, NEW d \in Datasets, Rewrite(d)
  PROVE  Kept(d)
<1> USE Trees, TypeFacts DEF IInv
<1>1. /\ pc[d] = "rewrite" /\ UNCHANGED <<staging, run, waiting, faults>>
      /\ pc' = [pc EXCEPT ![d] = "idle"]
      /\ canonical' = [canonical EXCEPT ![d] = @ \cup Migrated(d)]
      /\ info' = [info EXCEPT ![d] = TRUE]
      /\ published' = [published EXCEPT ![d] =
           [e \in Episodes |-> IF e \in Replaced(d) THEN Staged(d, e) ELSE published[d][e]]]
  BY DEF Rewrite
<1>2. /\ pc'[d] = "idle" /\ info'[d] /\ canonical'[d] = canonical[d] \cup Migrated(d)
      /\ published'[d] =
           [e \in Episodes |-> IF e \in Replaced(d) THEN staging[d][e] ELSE published[d][e]]
  BY <1>1 DEF TypeOK
<1>3. /\ ~run[d].failed /\ waiting[d] = {} /\ run[d].skipped = Skipped(d)
      /\ WriteScope(d, run[d].selected) /\ run[d].selected \subseteq Episodes
  BY <1>1 DEF DatasetInv, RunInv, ScopeInv, Outcome
<1>4. \A e, m : m \in Modules => HasRun(d, e, m) /\ ~HasRun(d, e, m)'
  BY <1>1, <1>2 DEF HasRun, After, Modules
<1>5. canonical'[d] = Shards
  <2>1. Migrated(d) \subseteq Shards
    BY <1>3 DEF Migrated, Shards
  <2>2. ASSUME NEW e \in Episodes, ShardOf[e] \notin canonical[d]
        PROVE  ShardOf[e] \in Migrated(d)
    BY <1>3, <2>2 DEF Migrated, WriteScope
  <2>3. QED
    BY <1>2, <2>1, <2>2 DEF Shards
<1>6. TypeOK'
  <2>1. published'[d] \in [Episodes -> Rows]
    BY <1>2
  <2>2. published' \in [Datasets -> [Episodes -> Rows]]
    BY <1>1, <1>2, <2>1 DEF TypeOK
  <2>3. canonical' \in [Datasets -> SUBSET Shards] /\ info' \in [Datasets -> BOOLEAN]
    BY <1>1, <1>2, <1>5 DEF TypeOK
  <2>4. pc' \in [Datasets -> Steps]
    BY <1>1 DEF TypeOK, Steps
  <2>5. QED
    BY <1>1, <2>2, <2>3, <2>4 DEF TypeOK, Tree
<1>7. ASSUME NEW e \in Episodes
      PROVE  /\ Earlier(d, published[d][e].plan.by)'
             /\ \A m \in Modules : published'[d][e][m].by = published'[d][e].plan.by
             /\ Whole(published'[d][e])
  <2>1. CASE e \in Replaced(d)
    <3>1. published'[d][e] = staging[d][e] /\ staging[d][e] \in Rows /\ e \in run[d].selected
      BY <1>2, <2>1 DEF Replaced
    <3>2. \A m \in Modules : staging[d][e][m].by = Stamp(d)
      BY <1>3, <1>4, <3>1 DEF DatasetInv, StagedInv
    <3>3. staging[d][e].plan.by = Stamp(d)
      BY <3>1, <3>2, RowsFacts DEF Modules
    <3>4. ~Incomplete(staging[d][e], run[d].modules)
      BY <1>3, <2>1, <3>1 DEF Replaced, Skipped, Staged, Tree, Apart
    <3>5. /\ Shaped(staging[d][e].plan)
          /\ staging[d][e].interjections.times \subseteq Later(staging[d][e].plan.subtasks)
      BY <1>3, <1>4, <3>1 DEF DatasetInv, ShapeInv, CueInv, Modules
    <3>6. Whole(staging[d][e])
      BY <3>1, <3>3, <3>4, <3>5, StampTyped, AcceptedIsWhole
    <3>7. Earlier(d, Stamp(d))'
      <4>1. run'[d] = run[d] /\ run[d].number \in Nat
        BY <1>1, ConstantsAssumption DEF Outcome
      <4>2. QED
        BY <1>1, <1>2, <1>3, <4>1 DEF Earlier, Stamp
    <3>8. Stamp(d)' = Stamp(d)
      BY <1>1 DEF Stamp
    <3>9. QED
      BY <3>1, <3>2, <3>3, <3>6, <3>7, <3>8
  <2>2. CASE e \notin Replaced(d)
    <3>1. published'[d][e] = published[d][e]
      BY <1>2, <2>2
    <3>2. Earlier(d, published[d][e].plan.by)
      BY DEF DatasetInv, PublishedInv
    <3>3. Earlier(d, published[d][e].plan.by)'
      BY <1>1, <1>2, <1>3, <3>1, <3>2 DEF Earlier
    <3>4. QED
      BY <3>1, <3>3 DEF DatasetInv, PublishedInv
  <2>3. QED
    BY <2>1, <2>2
<1>8. DatasetInv(d)'
  <2>1. RunInv(d)'
    BY <1>1, <1>2, <1>3 DEF RunInv
  <2>2. StagedInv(d)' /\ CueInv(d)'
    BY <1>4 DEF StagedInv, CueInv, Modules
  <2>3. ShapeInv(d)'
    BY <1>1 DEF DatasetInv, ShapeInv, Shaped, Later
  <2>4. PublishedInv(d)'
    BY <1>7 DEF PublishedInv, Whole, Later
  <2>5. ScopeInv(d)'
    BY <1>2, <1>5 DEF ScopeInv
  <2>6. QED
    BY <2>1, <2>2, <2>3, <2>4, <2>5 DEF DatasetInv
<1>9. QED
  BY <1>1, <1>6, <1>8 DEF Kept, Same, TypeOK

-----------------------------------------------------------------------------
LEMMA InitSound ==
  ASSUME Apart, Init
  PROVE  IInv
<1> USE Trees
<1>1. NoRows(Nobody) \in Rows
  BY NoRowsTyped, NobodyTyped
<1>2. /\ staging = [d \in Datasets |-> [e \in Episodes |-> NoRows(Nobody)]]
      /\ published = [d \in Datasets |-> [e \in Episodes |-> NoRows(Nobody)]]
      /\ canonical = [d \in Datasets |-> {}] /\ info = [d \in Datasets |-> FALSE]
      /\ pc = [d \in Datasets |-> "idle"] /\ waiting = [d \in Datasets |-> {}]
      /\ run = [d \in Datasets |-> [number |-> 0, selected |-> {}, modules |-> {},
                                   skipped |-> {}, failed |-> FALSE]]
      /\ faults = 0
  BY DEF Init, Tree, Apart
<1>3. TypeOK
  <2>1. staging \in [Datasets -> [Episodes -> Rows]] /\ published \in [Datasets -> [Episodes -> Rows]]
    BY <1>1, <1>2
  <2>2. run \in [Datasets -> Outcome]
    BY <1>2, ConstantsAssumption DEF Outcome
  <2>3. QED
    BY <1>2, <2>1, <2>2, ConstantsAssumption DEF TypeOK, Outcome, Tree, Apart, Steps
<1>4. ASSUME NEW d \in Datasets
      PROVE  DatasetInv(d)
  <2>1. /\ pc[d] = "idle" /\ waiting[d] = {} /\ ~run[d].failed /\ run[d].selected = {}
        /\ canonical[d] = {} /\ ~info[d]
        /\ \A e \in Episodes : staging[d][e] = NoRows(Nobody) /\ published[d][e] = NoRows(Nobody)
    BY <1>2
  <2>2. RunInv(d) /\ StagedInv(d) /\ CueInv(d)
    BY <2>1 DEF RunInv, StagedInv, CueInv
  <2>3. ShapeInv(d)
    BY <2>1 DEF ShapeInv, Shaped, NoRows
  <2>4. PublishedInv(d)
    <3>1. ASSUME NEW e \in Episodes
          PROVE  /\ \A m \in Modules : published[d][e][m].by = Nobody
                 /\ published[d][e].plan.by = Nobody
      BY <2>1 DEF NoRows, Modules
    <3>2. ASSUME NEW e \in Episodes
          PROVE  Whole(published[d][e])
      BY <2>1 DEF Whole, NoRows, Nobody
    <3>3. QED
      BY <3>1, <3>2 DEF PublishedInv, Earlier
  <2>5. Shards # {}
    <3>1. PICK e \in Episodes : TRUE
      BY ConstantsAssumption
    <3>2. ShardOf[e] \in Shards
      BY DEF Shards
    <3>3. QED
      BY <3>2
  <2>6. ScopeInv(d)
    BY <2>1, <2>5 DEF ScopeInv
  <2>7. QED
    BY <2>2, <2>3, <2>4, <2>6 DEF DatasetInv
<1>5. QED
  BY <1>3, <1>4 DEF IInv

LEMMA NextKeeps ==
  ASSUME Apart, IInv, [Next]_vars
  PROVE  IInv'
<1>1. CASE UNCHANGED vars
  <2>1. TypeOK'
    BY <1>1 DEF vars, IInv, TypeOK, Tree
  <2>2. \A c \in Datasets : DatasetInv(c)'
    BY <1>1, Frame DEF vars, Same, IInv
  <2>3. QED
    BY <2>1, <2>2 DEF IInv
<1>2. ASSUME NEW d \in Datasets,
             \/ StartRun(d) \/ RunEpisode(d) \/ EpisodeRaises(d) \/ PlanUpdate(d)
             \/ EndPhase(d) \/ Validate(d) \/ Rewrite(d) \/ Stop(d)
      PROVE  IInv'
  <2>1. Kept(d)
    BY <1>2, StartKeeps, RunEpisodeKeeps, RaiseKeeps, UpdateKeeps, EndKeeps, ValidateKeeps,
       RewriteKeeps, StopKeeps
  <2>2. \A c \in Datasets \ {d} : DatasetInv(c)'
    BY <2>1, Frame DEF Kept, IInv
  <2>3. QED
    BY <2>1, <2>2 DEF Kept, IInv
<1>3. QED
  BY <1>1, <1>2 DEF Next

(* Every run keeps the invariant: types, progress, what was staged by whom *)
(* and in which shape, and what was published.                             *)
THEOREM Inductive ==
  ASSUME Apart
  PROVE  Spec => []IInv
<1>1. Init => IInv
  BY InitSound
<1>2. IInv /\ [Next]_vars => IInv'
  BY NextKeeps
<1>3. QED
  BY <1>1, <1>2, PTL DEF Spec

(* Neither the rows of two runs in an episode, nor rows of a run that has  *)
(* failed (executor.py 355-363 and 386-400): rows are stamped with the     *)
(* current run as soon as their module has come to the episode.            *)
THEOREM AlwaysApart ==
  ASSUME Apart
  PROVE  Spec => []RunsApart
<1>1. ASSUME IInv
      PROVE  RunsApart
  <2> USE TypeFacts DEF IInv
  <2>1. ASSUME NEW d \in Datasets, NEW e \in Episodes
        PROVE  \E by \in Stamps : /\ by = Nobody \/ by.root = d
                                /\ \A m \in Modules : published[d][e][m].by = by
    <3>1. published[d][e].plan.by \in Stamps
      BY <1>1, RowsFacts
    <3>2. QED
      BY <1>1, <3>1 DEF DatasetInv, PublishedInv, Earlier
  <2>2. ASSUME NEW d \in Datasets, run[d].failed, NEW e \in Episodes, NEW m \in Modules
        PROVE  published[d][e][m].by # Stamp(d)
    <3>1. published[d][e][m].by = published[d][e].plan.by /\ Earlier(d, published[d][e].plan.by)
      BY <1>1 DEF DatasetInv, PublishedInv
    <3>2. run[d].number \in Nat
      BY <1>1, ConstantsAssumption DEF Outcome
    <3>3. Stamp(d).run = run[d].number /\ Stamp(d).root = d
      BY DEF Stamp
    <3>4. d # 0
      BY ConstantsAssumption
    <3>5. QED
      BY <2>2, <3>1, <3>2, <3>3, <3>4 DEF Earlier, Nobody
  <2>3. QED
    BY <2>1, <2>2 DEF RunsApart, OneRunPerEpisode, FailedPublishesNothing
<1>2. QED
  BY <1>1, Inductive, PTL

(* What a dataset holds is whole: its episodes have all they were asked    *)
(* for, and meta/info.json declares what the shards have (validator.py,    *)
(* writer.py validate_write_scope and write_all).                          *)
THEOREM AlwaysWhole ==
  ASSUME Apart
  PROVE  Spec => []PublishedWhole
<1>1. ASSUME IInv
      PROVE  PublishedWhole
  <2>1. PublishedIsComplete
    BY <1>1 DEF IInv, DatasetInv, PublishedInv, PublishedIsComplete, Whole
  <2>2. MetadataHonest
    BY <1>1 DEF IInv, DatasetInv, ScopeInv, MetadataHonest
  <2>3. QED
    BY <1>1, <2>1, <2>2 DEF IInv, PublishedWhole
<1>2. QED
  BY <1>1, Inductive, PTL

(* What was published for an episode stays when a run does not select it,  *)
(* and when what it staged for it is not complete (writer.py               *)
(* _rewrite_one_locked): the set that was skipped is still the right one.  *)
THEOREM StepsKeepRejected ==
  ASSUME Apart
  PROVE  Spec => RejectedKeepRows
<1> DEFINE Keeps == \A d \in Datasets, e \in Episodes :
       e \notin run[d].selected \/ Incomplete(Staged(d, e), run[d].modules)
         => published'[d][e] = published[d][e]
<1>1. ASSUME IInv, [Next]_vars
      PROVE  [Keeps]_vars
  <2>1. CASE UNCHANGED vars
    BY <2>1
  <2>2. ASSUME NEW c \in Datasets,
               \/ StartRun(c) \/ RunEpisode(c) \/ EpisodeRaises(c) \/ PlanUpdate(c)
               \/ EndPhase(c) \/ Validate(c) \/ Stop(c)
        PROVE  Keeps
    <3>1. published' = published
      BY <2>2 DEF StartRun, RunEpisode, EpisodeRaises, PlanUpdate, EndPhase, Validate, Stop
    <3>2. QED
      BY <3>1
  <2>3. ASSUME NEW c \in Datasets, Rewrite(c)
        PROVE  Keeps
    <3>1. SUFFICES ASSUME NEW d \in Datasets, NEW e \in Episodes,
                          \/ e \notin run[d].selected
                          \/ Incomplete(Staged(d, e), run[d].modules)
                   PROVE  published'[d][e] = published[d][e]
      OBVIOUS
    <3>2. published' = [published EXCEPT ![c] =
            [f \in Episodes |-> IF f \in Replaced(c) THEN Staged(c, f) ELSE published[c][f]]]
      BY <2>3 DEF Rewrite
    <3>3. published \in [Datasets -> [Episodes -> Rows]]
      BY <1>1 DEF IInv, TypeOK
    <3>4. CASE d # c
      BY <3>2, <3>3, <3>4
    <3>5. CASE d = c
      <4>1. run[c].skipped = Skipped(c)
        BY <1>1, <2>3 DEF IInv, DatasetInv, RunInv, Rewrite
      <4>2. e \notin Replaced(c)
        BY <3>1, <3>5, <4>1 DEF Replaced, Skipped
      <4>3. QED
        BY <3>2, <3>3, <3>5, <4>2
    <3>6. QED
      BY <3>4, <3>5
  <2>4. QED
    BY <1>1, <2>1, <2>2, <2>3 DEF Next
<1>2. QED
  BY <1>1, Inductive, PTL DEF Spec, RejectedKeepRows

-----------------------------------------------------------------------------
(* ServerPool: the inductive invariant.                                     *)

PoolSteps == {"begin", "launch", "wait", "client", "exit", "reap", "over", "killed"}
States == {"none", "loading", "serving", "told", "gone"}

TypeInv ==
  /\ doing \in [Runs -> PoolSteps] /\ server \in [Servers -> States]
  /\ launched \in [Runs -> Nat] /\ registered \in [Runs -> BOOLEAN]
  /\ ready \in [Runs -> SUBSET Nat]
  /\ result \in [Runs -> {<< >>} \cup [Messages -> Messages \cup {NoResult}]]

(* The replicas are launched one after the other, and a replica that is     *)
(* taken to be ready has been.                                              *)
LaunchInv(r) ==
  /\ launched[r] <= Replicas[r]
  /\ \A i \in Bases(r) : server[<< r, i >>] # "none" => i <= launched[r]
  /\ ready[r] \subseteq 1 .. launched[r]

(* When the hook is there, and what it leaves.                              *)
HookInv(r) ==
  /\ doing[r] = "begin" => launched[r] = 0
  /\ doing[r] \in {"begin", "launch"} => ~registered[r]
  /\ doing[r] \in {"wait", "reap"} => registered[r]
  /\ doing[r] = "client" => registered[r] \/ launched[r] = 0
  /\ doing[r] \in {"exit", "over"} => registered[r] \/ launched[r] < Replicas[r]
  /\ doing[r] = "over" /\ registered[r] => \A s \in Own(r) : ~Alive(s)

(* Each message has its own text, or none.                                  *)
ResultInv(r) == result[r] # << >> => \A m \in Messages : result[r][m] \in {m, NoResult}

(* Somebody vouches for each replica that is taken to be ready, and for all  *)
(* that a client calls.                                                      *)
ReadyInv ==
  \A r \in Runs :
    /\ \A i \in ready[r] : Vouched(r, i)
    /\ doing[r] = "client" => \A i \in Bases(r) : Vouched(r, i)

PoolInv ==
  /\ TypeInv /\ ReadyInv
  /\ \A r \in Runs : LaunchInv(r) /\ HookInv(r) /\ ResultInv(r)

-----------------------------------------------------------------------------
(* Facts about runs and their servers.                                      *)

LEMMA OwnServers ==
  ASSUME NEW r \in Runs
  PROVE  /\ r # 0 /\ Replicas[r] \in Nat \ {0}
         /\ Own(r) = {<< r, i >> : i \in Bases(r)} /\ Own(r) \subseteq Servers
<1>1. r # 0 /\ Replicas[r] \in Nat \ {0}
  BY PoolAssumption DEF Runs
<1>2. ASSUME NEW i \in Bases(r) PROVE << r, i >> \in Own(r)
  BY DEF Own, Servers, Bases
<1>3. ASSUME NEW s \in Own(r) PROVE \E i \in Bases(r) : s = << r, i >>
  <2>1. s \in Servers /\ s[1] = r
    BY DEF Own
  <2>2. s # << 0, 1 >>
    BY <1>1, <2>1
  <2>3. PICK q \in Runs : s \in {q} \X (1 .. Replicas[q])
    BY <2>1, <2>2 DEF Servers
  <2>4. s = << s[1], s[2] >> /\ s[1] = q /\ s[2] \in 1 .. Replicas[q]
    BY <2>3
  <2>5. QED
    BY <2>1, <2>4 DEF Bases
<1>4. QED
  BY <1>1, <1>2, <1>3 DEF Own

LEMMA ServersOf ==
  ASSUME NEW s \in Servers
  PROVE  \/ s = << 0, 1 >>
         \/ \E r \in Runs : \E i \in Bases(r) : s = << r, i >>
<1>1. CASE s = << 0, 1 >>
  BY <1>1
<1>2. CASE s # << 0, 1 >>
  <2>1. PICK r \in Runs : s \in {r} \X (1 .. Replicas[r])
    BY <1>2 DEF Servers
  <2>2. s = << s[1], s[2] >> /\ s[1] = r /\ s[2] \in Bases(r)
    BY <2>1 DEF Bases
  <2>3. QED
    BY <2>2
<1>3. QED
  BY <1>1, <1>2

(* A run of which others change nothing but let servers stop.               *)
Quiet(r) ==
  /\ doing'[r] = doing[r] /\ launched'[r] = launched[r] /\ registered'[r] = registered[r]
  /\ ready'[r] = ready[r] /\ result'[r] = result[r]
  /\ \A s \in Own(r) : /\ server[s] = "none" => server'[s] = "none"
                       /\ ~Alive(s) => ~Alive(s)'

LEMMA QuietKeeps ==
  ASSUME PoolInv, NEW r \in Runs, Quiet(r)
  PROVE  (LaunchInv(r) /\ HookInv(r) /\ ResultInv(r))'
<1>1. LaunchInv(r) /\ HookInv(r) /\ ResultInv(r)
  BY DEF PoolInv
<1>2. \A i \in Bases(r) : << r, i >> \in Own(r)
  BY OwnServers
<1>3. LaunchInv(r)'
  BY <1>1, <1>2 DEF LaunchInv, Quiet, Bases
<1>4. HookInv(r)'
  BY <1>1 DEF HookInv, Quiet, Own
<1>5. ResultInv(r)'
  BY <1>1 DEF ResultInv, Quiet
<1>6. QED
  BY <1>3, <1>4, <1>5

-----------------------------------------------------------------------------
(* Types.                                                                   *)

LEMMA TypeStep == PoolInv /\ [PoolNext]_poolVars => TypeInv'
<1> SUFFICES ASSUME PoolInv, [PoolNext]_poolVars PROVE TypeInv'
  OBVIOUS
<1> USE DEF TypeInv
<1>0. TypeInv
  BY DEF PoolInv
<1>1. CASE UNCHANGED poolVars
  BY <1>0, <1>1 DEF poolVars
<1>2. ASSUME NEW r \in Runs, NEW step \in PoolSteps, Goto(r, step),
             server' \in [Servers -> States], UNCHANGED << pool, result >>
      PROVE  TypeInv'
  BY <1>0, <1>2 DEF Goto, pool
<1>3. ASSUME NEW r \in Runs, Work(r) PROVE TypeInv'
  <2>1. CASE Begin(r)
    BY <1>0, <1>2, <2>1 DEF Begin, session, PoolSteps
  <2>2. CASE Launch(r)
    <3>1. launched' \in [Runs -> Nat]
      BY <1>0, <2>2 DEF Launch
    <3>2. server' \in [Servers -> States]
      BY <1>0, <2>2 DEF Launch, States
    <3>3. QED
      BY <1>0, <2>2, <3>1, <3>2 DEF Launch, session
  <2>3. CASE LaunchRaises(r)
    BY <1>0, <1>2, <2>3 DEF LaunchRaises, session, PoolSteps
  <2>4. CASE Register(r)
    BY <1>0, <2>4 DEF Register, Goto, session, PoolSteps
  <2>5. CASE WaitEnds(r)
    BY <1>0, <1>2, <2>5 DEF WaitEnds, session, PoolSteps
  <2>6. CASE WaitRaises(r)
    BY <1>0, <1>2, <2>6 DEF WaitRaises, session, PoolSteps
  <2>7. CASE Timeout(r)
    <3>1. server' \in [Servers -> States]
      BY <1>0, <2>7 DEF Timeout, States
    <3>2. QED
      BY <1>2, <2>7, <3>1 DEF Timeout, session, PoolSteps
  <2>8. CASE Send(r)
    BY <1>0, <2>8 DEF Send, pool
  <2>9. CASE Reply(r)
    BY <1>0, <2>9 DEF Reply, pool
  <2>10. CASE CallRaises(r)
    BY <1>0, <1>2, <2>10 DEF CallRaises, session, PoolSteps
  <2>11. CASE Collect(r)
    <3>1. PICK again \in [Messages -> BOOLEAN] :
            result' = [result EXCEPT ![r] = [m \in Messages |->
                         IF m \in Retried(r) /\ ~again[m] THEN NoResult ELSE m]]
      BY <2>11 DEF Collect
    <3>2. result' \in [Runs -> {<< >>} \cup [Messages -> Messages \cup {NoResult}]]
      BY <1>0, <3>1
    <3>3. QED
      BY <1>0, <2>11, <3>2 DEF Collect, Goto, pool, PoolSteps
  <2>12. CASE RetryRaises(r)
    BY <1>0, <1>2, <2>12 DEF RetryRaises, session, PoolSteps
  <2>13. CASE Shutdown(r)
    <3>1. server' \in [Servers -> States]
      BY <1>0, <2>13 DEF Shutdown, States
    <3>2. Goto(r, IF registered[r] THEN "reap" ELSE "over")
      BY <2>13 DEF Shutdown
    <3>3. QED
      BY <1>2, <2>13, <3>1, <3>2 DEF Shutdown, session, PoolSteps
  <2>14. CASE Kill(r)
    <3>1. server' \in [Servers -> States]
      BY <1>0, <2>14 DEF Kill, States
    <3>2. QED
      BY <1>0, <2>14, <3>1 DEF Kill, pool, session
  <2>15. CASE Reaped(r)
    BY <1>0, <1>2, <2>15 DEF Reaped, session, PoolSteps
  <2>16. QED
    BY <1>3, <2>1, <2>2, <2>3, <2>4, <2>5, <2>6, <2>7, <2>8, <2>9, <2>10, <2>11, <2>12,
       <2>13, <2>14, <2>15 DEF Work
<1>4. ASSUME NEW r \in Runs, Probe(r) PROVE TypeInv'
  <2>1. PICK i \in Bases(r) : ready' = [ready EXCEPT ![r] = @ \cup {i}]
    BY <1>4 DEF Probe
  <2>2. ready' \in [Runs -> SUBSET Nat]
    BY <1>0, <2>1 DEF Bases
  <2>3. QED
    BY <1>0, <1>4, <2>2 DEF Probe, session
<1>5. ASSUME NEW r \in Runs, RunKilled(r) PROVE TypeInv'
  BY <1>0, <1>2, <1>5 DEF RunKilled, session, PoolSteps
<1>6. ASSUME NEW s \in Servers, Banner(s) PROVE TypeInv'
  <2>1. s[2] \in Nat
    BY ServersOf DEF Bases
  <2>2. ready' \in [Runs -> SUBSET Nat]
    BY <1>0, <1>6, <2>1 DEF Banner
  <2>3. QED
    BY <1>0, <1>6, <2>2 DEF Banner, session
<1>7. ASSUME NEW s \in Servers, Listen(s) PROVE TypeInv'
  BY <1>0, <1>7 DEF Listen, pool, session, States
<1>8. ASSUME NEW s \in Servers, Exits(s) PROVE TypeInv'
  BY <1>0, <1>8 DEF Exits, pool, session, States
<1>9. QED
  BY <1>1, <1>3, <1>4, <1>5, <1>6, <1>7, <1>8 DEF PoolNext

-----------------------------------------------------------------------------
(* Runs.                                                                    *)

(* What a run does is done to itself and to its servers.                     *)
Alone(r) ==
  /\ \A q \in Runs \ {r} :
       /\ doing'[q] = doing[q] /\ launched'[q] = launched[q] /\ registered'[q] = registered[q]
       /\ ready'[q] = ready[q] /\ result'[q] = result[q]
  /\ \A s \in Servers : s[1] # r => server'[s] = server[s]

LEMMA OthersQuiet ==
  ASSUME NEW r \in Runs, Alone(r), NEW q \in Runs, q # r
  PROVE  Quiet(q)
BY DEF Alone, Quiet, Own, Alive

LEMMA WorkAlone ==
  ASSUME PoolInv, NEW r \in Runs, Work(r) \/ Probe(r) \/ RunKilled(r)
  PROVE  Alone(r)
<1> USE DEF Alone
<1>0. TypeInv
  BY DEF PoolInv
<1>1. ASSUME NEW i, server' = [server EXCEPT ![<< r, i >>] = server'[<< r, i >>]]
      PROVE  \A s \in Servers : s[1] # r => server'[s] = server[s]
  BY <1>0, <1>1 DEF TypeInv
<1>2. CASE Begin(r) \/ LaunchRaises(r) \/ Register(r) \/ WaitEnds(r) \/ WaitRaises(r)
  BY <1>0, <1>2 DEF TypeInv, Begin, LaunchRaises, Register, WaitEnds, WaitRaises, Goto,
                    pool, session
<1>3. CASE Send(r) \/ Reply(r) \/ CallRaises(r) \/ RetryRaises(r) \/ Reaped(r)
  BY <1>0, <1>3 DEF TypeInv, Send, Reply, CallRaises, RetryRaises, Reaped, Goto, pool, session
<1>4. CASE Launch(r)
  <2>1. \A s \in Servers : s[1] # r => server'[s] = server[s]
    BY <1>0, <1>4 DEF TypeInv, Launch
  <2>2. QED
    BY <1>0, <1>4, <2>1 DEF TypeInv, Launch, session
<1>5. CASE Timeout(r)
  <2>1. \A s \in Servers : s[1] # r => server'[s] = server[s]
    BY <1>0, <1>5 DEF TypeInv, Timeout
  <2>2. QED
    BY <1>0, <1>5, <2>1 DEF TypeInv, Timeout, Goto, pool, session
<1>6. CASE Collect(r)
  <2>1. PICK results : result' = [result EXCEPT ![r] = results]
    BY <1>6 DEF Collect
  <2>2. QED
    BY <1>0, <1>6, <2>1 DEF TypeInv, Collect, Goto, pool
<1>7. CASE Shutdown(r)
  <2>1. \A s \in Servers : s[1] # r => server'[s] = server[s]
    BY <1>0, <1>7 DEF TypeInv, Shutdown, Own
  <2>2. \A q \in Runs \ {r} : doing'[q] = doing[q]
    BY <1>0, <1>7 DEF TypeInv, Shutdown, Goto
  <2>3. QED
    BY <1>7, <2>1, <2>2 DEF Shutdown, pool, session
<1>8. CASE Kill(r)
  <2>1. PICK s \in Own(r) : server' = [server EXCEPT ![s] = "gone"]
    BY <1>8 DEF Kill
  <2>2. \A x \in Servers : x[1] # r => server'[x] = server[x]
    BY <1>0, <2>1 DEF TypeInv, Own
  <2>3. QED
    BY <1>8, <2>2 DEF Kill, pool, session
<1>9. CASE Probe(r)
  <2>1. PICK i \in Bases(r) : ready' = [ready EXCEPT ![r] = @ \cup {i}]
    BY <1>9 DEF Probe
  <2>2. QED
    BY <1>0, <1>9, <2>1 DEF TypeInv, Probe, session
<1>10. CASE RunKilled(r)
  BY <1>0, <1>10 DEF TypeInv, RunKilled, Goto, pool, session
<1>11. QED
  BY <1>2, <1>3, <1>4, <1>5, <1>6, <1>7, <1>8, <1>9, <1>10 DEF Work

LEMMA AcrossRuns ==
  ASSUME PoolInv, NEW r \in Runs, Alone(r), (LaunchInv(r) /\ HookInv(r) /\ ResultInv(r))',
         NEW q \in Runs
  PROVE  (LaunchInv(q) /\ HookInv(q) /\ ResultInv(q))'
<1>1. CASE q = r
  BY <1>1
<1>2. CASE q # r
  BY <1>2, OthersQuiet, QuietKeeps
<1>3. QED
  BY <1>1, <1>2

LEMMA WorkKeeps ==
  ASSUME PoolInv, NEW r \in Runs, Work(r)
  PROVE  (LaunchInv(r) /\ HookInv(r) /\ ResultInv(r))'
<1>0. TypeInv /\ LaunchInv(r) /\ HookInv(r) /\ ResultInv(r)
  BY DEF PoolInv
<1>17. /\ r # 0 /\ Replicas[r] \in Nat \ {0} /\ launched[r] \in Nat
      /\ \A i \in Bases(r) : << r, i >> \in Own(r) /\ << r, i >> \in Servers
      /\ Own(r) \subseteq Servers
  BY <1>0, OwnServers DEF TypeInv
<1>1. ASSUME UNCHANGED << server, launched, ready >> PROVE LaunchInv(r)'
  BY <1>0, <1>1 DEF LaunchInv
<1>2. ASSUME UNCHANGED result PROVE ResultInv(r)'
  BY <1>0, <1>2 DEF ResultInv
<1>3. CASE Begin(r)
  <2>1. doing'[r] \in {"client", "launch"} /\ UNCHANGED << launched, registered >>
    BY <1>0, <1>3 DEF TypeInv, Begin, Goto, pool
  <2>2. HookInv(r)'
    BY <1>0, <1>3, <2>1 DEF HookInv, Begin
  <2>3. QED
    BY <1>1, <1>2, <1>3, <2>2 DEF Begin, pool, session
<1>4. CASE Launch(r)
  <2> DEFINE new == << r, launched[r] + 1 >>
  <2>1. /\ launched'[r] = launched[r] + 1 /\ launched[r] < Replicas[r]
        /\ UNCHANGED << doing, registered, ready, result >> /\ doing[r] = "launch"
    BY <1>0, <1>4 DEF TypeInv, Launch, session
  <2>2. server' = [server EXCEPT ![new] = "loading"]
    BY <1>4 DEF Launch
  <2>3. ASSUME NEW i \in Bases(r), server'[<< r, i >>] # "none" PROVE i <= launched[r] + 1
    <3>1. CASE i = launched[r] + 1
      BY <1>17, <3>1
    <3>2. CASE i # launched[r] + 1
      <4>1. server'[<< r, i >>] = server[<< r, i >>]
        BY <1>0, <1>17, <2>2, <3>2 DEF TypeInv
      <4>2. i <= launched[r]
        BY <1>0, <2>3, <4>1 DEF LaunchInv
      <4>3. QED
        BY <1>17, <4>2 DEF Bases
    <3>3. QED
      BY <3>1, <3>2
  <2>4. LaunchInv(r)'
    BY <1>0, <1>17, <2>1, <2>3 DEF LaunchInv, Bases
  <2>5. HookInv(r)'
    BY <1>0, <2>1 DEF HookInv
  <2>6. QED
    BY <1>2, <2>1, <2>4, <2>5
<1>5. CASE LaunchRaises(r)
  <2>1. /\ doing'[r] = "exit" /\ launched[r] < Replicas[r]
        /\ UNCHANGED << launched, registered, ready, server, result >>
    BY <1>0, <1>5 DEF TypeInv, LaunchRaises, Goto, pool, session
  <2>2. HookInv(r)'
    BY <2>1 DEF HookInv
  <2>3. QED
    BY <1>1, <1>2, <2>1, <2>2
<1>6. CASE Register(r)
  <2>1. /\ doing'[r] = "wait" /\ registered'[r] /\ UNCHANGED << launched, ready, server, result >>
    BY <1>0, <1>6 DEF TypeInv, Register, Goto, session
  <2>2. HookInv(r)'
    BY <2>1 DEF HookInv
  <2>3. QED
    BY <1>1, <1>2, <2>1, <2>2
<1>7. CASE WaitEnds(r)
  <2>1. /\ doing[r] = "wait" /\ doing'[r] = "client"
        /\ UNCHANGED << launched, registered, ready, server, result >>
    BY <1>0, <1>7 DEF TypeInv, WaitEnds, Goto, pool, session
  <2>2. HookInv(r)'
    BY <1>0, <2>1 DEF HookInv
  <2>3. QED
    BY <1>1, <1>2, <2>1, <2>2
<1>8. CASE WaitRaises(r)
  <2>1. /\ doing[r] = "wait" /\ doing'[r] = "exit"
        /\ UNCHANGED << launched, registered, ready, server, result >>
    BY <1>0, <1>8 DEF TypeInv, WaitRaises, Goto, pool, session
  <2>2. HookInv(r)'
    BY <1>0, <2>1 DEF HookInv
  <2>3. QED
    BY <1>1, <1>2, <2>1, <2>2
<1>9. CASE Timeout(r)
  <2>1. /\ doing[r] = "wait" /\ doing'[r] = "exit"
        /\ UNCHANGED << launched, registered, ready, result >>
    BY <1>0, <1>9 DEF TypeInv, Timeout, Goto, pool, session
  <2>2. \A s \in Own(r) : server[s] = "none" => server'[s] = "none"
    BY <1>0, <1>17, <1>9 DEF TypeInv, Timeout, Alive
  <2>3. LaunchInv(r)'
    BY <1>0, <1>17, <2>1, <2>2 DEF LaunchInv
  <2>4. HookInv(r)'
    BY <1>0, <2>1 DEF HookInv
  <2>5. QED
    BY <1>2, <2>1, <2>3, <2>4
<1>10. CASE Send(r) \/ Reply(r)
  <2>1. UNCHANGED << doing, launched, registered, ready, server, result >> /\ doing[r] = "client"
    BY <1>10 DEF Send, Reply, pool
  <2>2. HookInv(r)'
    BY <1>0, <2>1 DEF HookInv
  <2>3. QED
    BY <1>1, <1>2, <2>1, <2>2
<1>11. CASE CallRaises(r) \/ RetryRaises(r)
  <2>1. /\ doing[r] = "client" /\ doing'[r] = "exit"
        /\ UNCHANGED << launched, registered, ready, server, result >>
    BY <1>0, <1>11 DEF TypeInv, CallRaises, RetryRaises, Goto, pool, session
  <2>2. HookInv(r)'
    BY <1>0, <1>17, <2>1 DEF HookInv
  <2>3. QED
    BY <1>1, <1>2, <2>1, <2>2
<1>12. CASE Collect(r)
  <2>1. /\ doing[r] = "client" /\ doing'[r] = "exit"
        /\ UNCHANGED << launched, registered, ready, server >>
    BY <1>0, <1>12 DEF TypeInv, Collect, Goto, pool
  <2>2. PICK again \in [Messages -> BOOLEAN] :
          result' = [result EXCEPT ![r] = [m \in Messages |->
                       IF m \in Retried(r) /\ ~again[m] THEN NoResult ELSE m]]
    BY <1>12 DEF Collect
  <2>3. ResultInv(r)'
    BY <1>0, <2>2 DEF ResultInv, TypeInv
  <2>4. HookInv(r)'
    BY <1>0, <1>17, <2>1 DEF HookInv
  <2>5. QED
    BY <1>1, <2>1, <2>3, <2>4
<1>13. CASE Shutdown(r)
  <2>1. /\ doing[r] = "exit" /\ doing'[r] = IF registered[r] THEN "reap" ELSE "over"
        /\ UNCHANGED << launched, registered, ready, result >>
    BY <1>0, <1>13 DEF TypeInv, Shutdown, Goto, pool, session
  <2>2. \A s \in Own(r) : server[s] = "none" => server'[s] = "none"
    <3>1. \A s \in Servers : server'[s] = IF registered[r] /\ s \in Own(r) /\ Alive(s)
                                          THEN "told" ELSE server[s]
      BY <1>13 DEF Shutdown
    <3>2. SUFFICES ASSUME NEW s \in Servers, server[s] = "none" PROVE server'[s] = "none"
      BY DEF Own
    <3>3. ~Alive(s)
      BY <3>2 DEF Alive
    <3>4. QED
      BY <3>1, <3>2, <3>3
  <2>3. LaunchInv(r)'
    BY <1>0, <1>17, <2>1, <2>2 DEF LaunchInv
  <2>4. HookInv(r)'
    BY <1>0, <2>1 DEF HookInv
  <2>5. QED
    BY <1>2, <2>1, <2>3, <2>4
<1>14. CASE Kill(r)
  <2>1. PICK s \in Own(r) : server[s] = "told" /\ server' = [server EXCEPT ![s] = "gone"]
    BY <1>14 DEF Kill
  <2>2. UNCHANGED << doing, launched, registered, ready, result >> /\ doing[r] = "reap"
    BY <1>14 DEF Kill, pool, session
  <2>3. \A x \in Own(r) : server[x] = "none" => server'[x] = "none"
    BY <1>0, <1>17, <2>1 DEF TypeInv
  <2>4. LaunchInv(r)'
    BY <1>0, <1>17, <2>2, <2>3 DEF LaunchInv
  <2>5. HookInv(r)'
    BY <1>0, <2>2 DEF HookInv
  <2>6. QED
    BY <1>2, <2>2, <2>4, <2>5
<1>15. CASE Reaped(r)
  <2>1. /\ doing[r] = "reap" /\ doing'[r] = "over"
        /\ UNCHANGED << launched, registered, ready, server, result >>
        /\ \A s \in Own(r) : ~Alive(s)
    BY <1>0, <1>15 DEF TypeInv, Reaped, Goto, pool, session
  <2>2. HookInv(r)'
    BY <1>0, <2>1 DEF HookInv, Own, Alive
  <2>3. QED
    BY <1>1, <1>2, <2>1, <2>2
<1>16. QED
  BY <1>3, <1>4, <1>5, <1>6, <1>7, <1>8, <1>9, <1>10, <1>11, <1>12, <1>13, <1>14, <1>15
  DEF Work

LEMMA RunsStep ==
  PoolInv /\ [PoolNext]_poolVars => \A r \in Runs : (LaunchInv(r) /\ HookInv(r) /\ ResultInv(r))'
<1> SUFFICES ASSUME PoolInv, [PoolNext]_poolVars, NEW r \in Runs
             PROVE  (LaunchInv(r) /\ HookInv(r) /\ ResultInv(r))'
  OBVIOUS
<1>0. TypeInv /\ \A q \in Runs : LaunchInv(q) /\ HookInv(q) /\ ResultInv(q)
  BY DEF PoolInv
<1>30. ASSUME Quiet(r) PROVE (LaunchInv(r) /\ HookInv(r) /\ ResultInv(r))'
  BY <1>30, QuietKeeps
<1>1. CASE UNCHANGED poolVars
  BY <1>30, <1>1 DEF poolVars, Quiet, Alive
<1>2. ASSUME NEW q \in Runs, Work(q)
      PROVE  (LaunchInv(r) /\ HookInv(r) /\ ResultInv(r))'
  BY <1>2, WorkAlone, WorkKeeps, AcrossRuns
<1>3. ASSUME NEW q \in Runs, NEW i \in 1 .. launched[q],
             ready' = [ready EXCEPT ![q] = @ \cup {i}],
             UNCHANGED << doing, server, launched, registered, result >>
      PROVE  (LaunchInv(r) /\ HookInv(r) /\ ResultInv(r))'
  <2>1. ready'[r] \subseteq 1 .. launched[r]
    BY <1>0, <1>3 DEF TypeInv, LaunchInv
  <2>2. LaunchInv(r)'
    BY <1>0, <1>3, <2>1 DEF LaunchInv
  <2>3. HookInv(r)' /\ ResultInv(r)'
    BY <1>0, <1>3 DEF HookInv, ResultInv, Own, Alive
  <2>4. QED
    BY <2>2, <2>3
<1>31. ASSUME NEW q \in Runs, NEW i \in Bases(q), server[<< q, i >>] # "none"
      PROVE  i \in 1 .. launched[q]
  <2>1. i <= launched[q] /\ launched[q] \in Nat
    BY <1>0, <1>31 DEF LaunchInv, TypeInv
  <2>2. QED
    BY <2>1 DEF Bases
<1>4. ASSUME NEW q \in Runs, Probe(q)
      PROVE  (LaunchInv(r) /\ HookInv(r) /\ ResultInv(r))'
  <2>1. PICK i \in Bases(q) : Alive(<< q, i >>) /\ ready' = [ready EXCEPT ![q] = @ \cup {i}]
    BY <1>4 DEF Probe
  <2>2. i \in 1 .. launched[q]
    BY <1>31, <2>1 DEF Alive
  <2>3. QED
    BY <1>3, <1>4, <2>1, <2>2 DEF Probe, session
<1>5. ASSUME NEW q \in Runs, RunKilled(q)
      PROVE  (LaunchInv(r) /\ HookInv(r) /\ ResultInv(r))'
  <2>1. UNCHANGED << server, launched, registered, ready, result >> /\ doing'[q] = "killed"
    BY <1>0, <1>5 DEF TypeInv, RunKilled, Goto, pool, session
  <2>2. (LaunchInv(q) /\ HookInv(q) /\ ResultInv(q))'
    BY <1>0, <2>1 DEF LaunchInv, HookInv, ResultInv
  <2>3. QED
    BY <1>5, <2>2, WorkAlone, AcrossRuns
<1>6. ASSUME NEW s \in Servers, Banner(s)
      PROVE  (LaunchInv(r) /\ HookInv(r) /\ ResultInv(r))'
  <2>1. s[1] # 0 /\ server[s] # "none"
    BY <1>6 DEF Banner, Heard
  <2>2. PICK q \in Runs : \E i \in Bases(q) : s = << q, i >>
    BY <2>1, ServersOf
  <2>6. PICK i \in Bases(q) : s = << q, i >>
    BY <2>2
  <2>3. i \in 1 .. launched[q]
    BY <1>31, <2>1, <2>6
  <2>4. ready' = [ready EXCEPT ![q] = @ \cup {i}]
    BY <1>6, <2>6 DEF Banner
  <2>5. QED
    BY <1>3, <1>6, <2>3, <2>4 DEF Banner, session
<1>7. ASSUME NEW s \in Servers, Listen(s) \/ Exits(s)
      PROVE  (LaunchInv(r) /\ HookInv(r) /\ ResultInv(r))'
  <2>1. UNCHANGED << doing, launched, registered, ready, result >>
    BY <1>7 DEF Listen, Exits, pool, session
  <2>2. /\ Alive(s) /\ server'[s] \in States \ {"none"}
        /\ \A x \in Servers : x # s => server'[x] = server[x]
    BY <1>0, <1>7 DEF TypeInv, Listen, Exits, Alive, States
  <2>3. Quiet(r)
    BY <2>1, <2>2, OwnServers DEF Quiet, Alive
  <2>4. QED
    BY <1>30, <2>3
<1>8. QED
  BY <1>1, <1>2, <1>4, <1>5, <1>6, <1>7 DEF PoolNext

-----------------------------------------------------------------------------
(* Ports.                                                                   *)

(* A server that listens goes on, or its port is one on which one stopped.   *)
LEMMA ServingStep ==
  ASSUME PoolInv, [PoolNext]_poolVars, NEW i \in Nat, Up(i) \/ i \in stopped
  PROVE  (Up(i) \/ i \in stopped)'
<1> USE DEF Up
<1>0. TypeInv
  BY DEF PoolInv
<1>1. ASSUME server' = server, stopped' = stopped PROVE (Up(i) \/ i \in stopped)'
  BY <1>1
<1>2. CASE i \in stopped
  <2>1. stopped \subseteq stopped'
    <3>1. CASE UNCHANGED poolVars
      BY <3>1 DEF poolVars
    <3>2. ASSUME NEW r \in Runs, Work(r) PROVE stopped \subseteq stopped'
      BY <3>2 DEF Work, Begin, Launch, LaunchRaises, Register, WaitEnds, WaitRaises, Timeout,
         Send, Reply, CallRaises, Collect, RetryRaises, Shutdown, Kill, Reaped, world
    <3>3. ASSUME NEW r \in Runs, Probe(r) \/ RunKilled(r) PROVE stopped \subseteq stopped'
      BY <3>3 DEF Probe, RunKilled, world
    <3>4. ASSUME NEW s \in Servers, Banner(s) \/ Listen(s) \/ Exits(s)
          PROVE  stopped \subseteq stopped'
      BY <3>4 DEF Banner, Listen, Exits, world
    <3>5. QED
      BY <3>1, <3>2, <3>3, <3>4 DEF PoolNext
  <2>2. QED
    BY <1>2, <2>1
<1>3. CASE i \notin stopped
  <2>1. PICK s \in Servers : s[2] = i /\ server[s] = "serving"
    BY <1>3
  <2>2. SUFFICES server'[s] = "serving" \/ s[2] \in stopped'
    BY <2>1
  <2>3. CASE UNCHANGED poolVars
    BY <2>1, <2>3 DEF poolVars
  <2>4. ASSUME NEW r \in Runs, Work(r)
        PROVE  server'[s] = "serving" \/ s[2] \in stopped'
    <3>1. CASE Launch(r)
      <4>1. launched[r] + 1 \in Bases(r) /\ LaunchInv(r) /\ launched[r] \in Nat
        BY <1>0, <3>1, OwnServers DEF TypeInv, Launch, Bases, PoolInv
      <4>2. server[<< r, launched[r] + 1 >>] = "none"
        <5>1. << r, launched[r] + 1 >> \in Servers
          BY <4>1, OwnServers
        <5>2. ~(launched[r] + 1 <= launched[r])
          BY <4>1
        <5>3. QED
          BY <4>1, <5>1, <5>2 DEF LaunchInv
      <4>3. s # << r, launched[r] + 1 >>
        BY <2>1, <4>2
      <4>4. server'[s] = server[s]
        BY <1>0, <3>1, <4>3 DEF TypeInv, Launch
      <4>5. QED
        BY <2>1, <4>4
    <3>2. CASE Timeout(r)
      <4>1. CASE s = << r, 1 >>
        BY <1>0, <2>1, <3>2, <4>1 DEF TypeInv, Timeout
      <4>2. CASE s # << r, 1 >>
        BY <1>0, <2>1, <3>2, <4>2 DEF TypeInv, Timeout
      <4>3. QED
        BY <4>1, <4>2
    <3>3. CASE Shutdown(r)
      <4>1. server'[s] = IF registered[r] /\ s \in Own(r) /\ Alive(s) THEN "told"
                         ELSE server[s]
        BY <3>3 DEF Shutdown
      <4>2. registered[r] /\ s \in Own(r) => s[2] \in stopped'
        BY <2>1, <3>3 DEF Shutdown
      <4>3. QED
        BY <2>1, <4>1, <4>2
    <3>4. CASE Kill(r)
      <4>1. PICK x \in Own(r) : server[x] = "told" /\ server' = [server EXCEPT ![x] = "gone"]
        BY <3>4 DEF Kill
      <4>2. QED
        BY <1>0, <2>1, <4>1 DEF TypeInv
    <3>5. CASE \/ Begin(r) \/ LaunchRaises(r) \/ Register(r) \/ WaitEnds(r)
               \/ WaitRaises(r) \/ Send(r) \/ Reply(r) \/ CallRaises(r)
               \/ Collect(r) \/ RetryRaises(r) \/ Reaped(r)
      <4>1. UNCHANGED server
        BY <3>5 DEF Begin, LaunchRaises, Register, WaitEnds, WaitRaises, Send, Reply,
                    CallRaises, Collect, RetryRaises, Reaped
      <4>2. QED
        BY <2>1, <4>1
    <3>6. QED
      BY <2>4, <3>1, <3>2, <3>3, <3>4, <3>5 DEF Work
  <2>5. ASSUME NEW r \in Runs, Probe(r) \/ RunKilled(r)
        PROVE  server'[s] = "serving" \/ s[2] \in stopped'
    BY <2>1, <2>5 DEF Probe, RunKilled
  <2>6. ASSUME NEW x \in Servers, Banner(x) \/ Listen(x) \/ Exits(x)
        PROVE  server'[s] = "serving" \/ s[2] \in stopped'
    <3>1. CASE Banner(x)
      BY <2>1, <3>1 DEF Banner
    <3>2. CASE Listen(x)
      BY <1>0, <2>1, <3>2 DEF TypeInv, Listen
    <3>3. CASE Exits(x)
      BY <1>0, <2>1, <3>3 DEF TypeInv, Exits
    <3>4. QED
      BY <2>6, <3>1, <3>2, <3>3
  <2>7. QED
    BY <2>3, <2>4, <2>5, <2>6 DEF PoolNext
<1>4. QED
  BY <1>2, <1>3

(* An announcement holds until the server tries to listen; then somebody     *)
(* listens, the server itself or who took its port before.                   *)
LEMMA VouchedStep ==
  ASSUME PoolInv, [PoolNext]_poolVars, NEW r \in Runs, NEW i \in Nat, Vouched(r, i)
  PROVE  Vouched(r, i)'
<1>0. TypeInv
  BY DEF PoolInv
<1>1. CASE Up(i) \/ i \in stopped
  BY <1>1, ServingStep DEF Vouched
<1>2. CASE << r, i >> \in early /\ ~Up(i)
  <2>1. CASE UNCHANGED poolVars
    BY <1>2, <2>1 DEF poolVars, Vouched
  <2>2. ASSUME NEW q \in Runs, Work(q) PROVE early' = early
    BY <2>2 DEF Work, Begin, Launch, LaunchRaises, Register, WaitEnds, WaitRaises, Timeout,
       Send, Reply, CallRaises, Collect, RetryRaises, Shutdown, Kill, Reaped, world
  <2>3. ASSUME NEW q \in Runs, Probe(q) \/ RunKilled(q) PROVE early' = early
    BY <2>3 DEF Probe, RunKilled, world
  <2>4. ASSUME NEW s \in Servers, Banner(s) \/ Exits(s) PROVE early \subseteq early'
    BY <2>4 DEF Banner, Exits
  <2>5. ASSUME NEW s \in Servers, Listen(s) PROVE Vouched(r, i)'
    <3>1. CASE s = << r, i >>
      <4>1. server'[s] = "serving"
        BY <1>0, <1>2, <2>5, <3>1 DEF TypeInv, Listen
      <4>2. Up(i)'
        BY <3>1, <4>1 DEF Up
      <4>3. QED
        BY <4>2 DEF Vouched
    <3>2. CASE s # << r, i >>
      BY <1>2, <2>5, <3>2 DEF Listen, Vouched
    <3>3. QED
      BY <3>1, <3>2
  <2>6. QED
    BY <1>2, <2>1, <2>2, <2>3, <2>4, <2>5 DEF PoolNext, Vouched
<1>3. QED
  BY <1>1, <1>2 DEF Vouched

(* A replica becomes ready when its port answers, or when its server prints  *)
(* a banner, before or after it listens.                                    *)
LEMMA ReadyStep ==
  ASSUME PoolInv, [PoolNext]_poolVars, NEW r \in Runs, NEW i \in ready'[r]
  PROVE  Vouched(r, i)'
<1>0. TypeInv /\ ReadyInv
  BY DEF PoolInv
<1>1. CASE i \in ready[r]
  <2>1. i \in Nat /\ Vouched(r, i)
    BY <1>0, <1>1 DEF TypeInv, ReadyInv
  <2>2. QED
    BY <2>1, VouchedStep
<1>2. CASE i \notin ready[r]
  <2>1. ready' # ready
    BY <1>2
  <2>2. ~UNCHANGED poolVars
    BY <2>1 DEF poolVars
  <2>3. ASSUME NEW q \in Runs, Work(q) PROVE FALSE
    BY <2>1, <2>3 DEF Work, Begin, Launch, LaunchRaises, Register, WaitEnds, WaitRaises,
       Timeout, Send, Reply, CallRaises, Collect, RetryRaises, Shutdown, Kill, Reaped, pool
  <2>4. ASSUME NEW q \in Runs, Probe(q) PROVE Vouched(r, i)'
    <3>1. PICK j \in Bases(q) : Up(j) /\ ready' = [ready EXCEPT ![q] = @ \cup {j}]
      BY <2>4 DEF Probe
    <3>2. i = j
      BY <1>0, <1>2, <3>1 DEF TypeInv
    <3>3. QED
      BY <2>4, <3>1, <3>2 DEF Probe, Up, Vouched
  <2>5. ASSUME NEW q \in Runs, RunKilled(q) PROVE FALSE
    BY <2>1, <2>5 DEF RunKilled, pool
  <2>6. ASSUME NEW s \in Servers, Banner(s) PROVE Vouched(r, i)'
    <3>1. ready' = [ready EXCEPT ![s[1]] = @ \cup {s[2]}]
      BY <2>6 DEF Banner
    <3>2. i = s[2] /\ s[1] = r
      BY <1>0, <1>2, <3>1 DEF TypeInv
    <3>3. CASE server[s] = "serving"
      BY <2>6, <3>2, <3>3 DEF Banner, Up, Vouched
    <3>4. CASE server[s] = "loading"
      <4>1. s = << r, i >>
        BY <3>2, ServersOf
      <4>2. s \in early'
        BY <2>6, <3>4 DEF Banner
      <4>3. QED
        BY <4>1, <4>2 DEF Vouched
    <3>5. QED
      BY <2>6, <3>3, <3>4 DEF Banner
  <2>7. ASSUME NEW s \in Servers, Listen(s) \/ Exits(s) PROVE FALSE
    BY <2>1, <2>7 DEF Listen, Exits, pool
  <2>8. QED
    BY <2>2, <2>3, <2>4, <2>5, <2>6, <2>7 DEF PoolNext
<1>3. QED
  BY <1>1, <1>2

(* A client starts with all replicas ready, or with a server it found.       *)
LEMMA ClientStep ==
  ASSUME PoolInv, [PoolNext]_poolVars, NEW r \in Runs, doing'[r] = "client", NEW i \in Bases(r)
  PROVE  Vouched(r, i)'
<1>0. TypeInv /\ ReadyInv
  BY DEF PoolInv
<1>1. i \in Nat
  BY OwnServers DEF Bases
<1>2. SUFFICES Vouched(r, i)
  BY <1>1, VouchedStep
<1>3. CASE doing[r] = "client"
  BY <1>0, <1>3 DEF ReadyInv
<1>4. CASE doing[r] # "client"
  <2>1. doing # doing'
    BY <1>4
  <2>2. PICK q \in Runs : Work(q) \/ RunKilled(q)
    BY <2>1 DEF PoolNext, Probe, Banner, Listen, Exits, poolVars
  <2>3. q = r
    BY <1>4, <2>2, WorkAlone DEF Alone
  <2>4. ~RunKilled(r)
    BY <1>0 DEF RunKilled, Goto, TypeInv
  <2>5. Begin(r) \/ WaitEnds(r)
    BY <1>0, <1>4, <2>2, <2>3, <2>4 DEF TypeInv, Work, Launch, LaunchRaises, Register,
       WaitRaises, Timeout, Send, Reply, CallRaises, Collect, RetryRaises, Shutdown, Kill,
       Reaped, Goto
  <2>6. CASE Begin(r)
    <3>1. Replicas[r] = 1 /\ Up(1)
      BY <1>0, <2>6 DEF TypeInv, Begin, Goto
    <3>2. i = 1
      BY <3>1 DEF Bases
    <3>3. QED
      BY <3>1, <3>2 DEF Vouched
  <2>7. CASE WaitEnds(r)
    BY <1>0, <2>7 DEF WaitEnds, AllReady, ReadyInv
  <2>8. QED
    BY <2>5, <2>6, <2>7
<1>5. QED
  BY <1>3, <1>4

-----------------------------------------------------------------------------
(* Results.                                                                 *)

LEMMA InitInv == PoolInit => PoolInv
<1> SUFFICES ASSUME PoolInit PROVE PoolInv
  OBVIOUS
<1>1. TypeInv
  <2>1. server \in [Servers -> States]
    BY DEF PoolInit, States
  <2>2. QED
    BY <2>1 DEF PoolInit, TypeInv, PoolSteps
<1>2. ReadyInv
  BY DEF PoolInit, ReadyInv
<1>3. ASSUME NEW r \in Runs PROVE LaunchInv(r) /\ HookInv(r) /\ ResultInv(r)
  <2>1. \A i \in Bases(r) : server[<< r, i >>] = "none"
    BY OwnServers DEF PoolInit
  <2>2. QED
    BY <2>1, OwnServers DEF PoolInit, LaunchInv, HookInv, ResultInv
<1>4. QED
  BY <1>1, <1>2, <1>3 DEF PoolInv

THEOREM Invariance == PoolSpec => []PoolInv
<1>1. PoolInv /\ [PoolNext]_poolVars => PoolInv'
  BY TypeStep, ReadyStep, ClientStep, RunsStep DEF PoolInv, ReadyInv, Bases
<1>2. QED
  BY <1>1, InitInv, PTL DEF PoolSpec

(* A run leaves no server behind and gives each message its own answer, for  *)
(* any number of runs, replicas, calls at once, exits and kills.             *)
THEOREM NothingLeft == PoolSpec => []RunsSound
<1>1. PoolInv => RunsSound
  <2> SUFFICES ASSUME PoolInv PROVE PoolTypeOK /\ TornDown /\ ResultsMatch
    BY DEF RunsSound
  <2>0. TypeInv /\ \A r \in Runs : LaunchInv(r) /\ HookInv(r) /\ ResultInv(r)
    BY DEF PoolInv
  <2>1. PoolTypeOK
    BY <2>0 DEF PoolTypeOK, TypeInv, LaunchInv, HookInv, PoolSteps, States
  <2>2. ASSUME NEW r \in Runs, doing[r] = "over"
        PROVE  (\A s \in Own(r) : ~Alive(s)) \/ launched[r] \in 1 .. Replicas[r] - 1
    <3>1. Replicas[r] \in Nat \ {0} /\ launched[r] \in Nat
      BY <2>0, OwnServers DEF TypeInv
    <3>2. CASE registered[r]
      BY <2>0, <2>2, <3>2 DEF HookInv
    <3>3. CASE ~registered[r] /\ launched[r] = 0
      <4>1. ASSUME NEW i \in Bases(r) PROVE server[<< r, i >>] = "none"
        BY <2>0, <3>3 DEF LaunchInv, Bases
      <4>2. QED
        BY <4>1, OwnServers DEF Alive
    <3>4. CASE ~registered[r] /\ launched[r] # 0
      BY <2>0, <2>2, <3>1, <3>4 DEF HookInv
    <3>5. QED
      BY <3>2, <3>3, <3>4
  <2>3. TornDown
    BY <2>2 DEF TornDown
  <2>4. ResultsMatch
    BY <2>0 DEF ResultsMatch, ResultInv
  <2>5. QED
    BY <2>1, <2>3, <2>4
<1>2. QED
  BY <1>1, Invariance, PTL

(* A run interrupts no server but its own.                                   *)
LEMMA OwnOnly ==
  ASSUME PoolInv, [PoolNext]_poolVars, NEW s \in Servers, server'[s] = "told", server[s] # "told"
  PROVE  s[1] # 0 /\ doing[s[1]] # doing'[s[1]]
<1>0. TypeInv
  BY DEF PoolInv
<1>1. CASE UNCHANGED poolVars
  BY <1>1 DEF poolVars
<1>2. ASSUME NEW r \in Runs, Work(r) PROVE s[1] # 0 /\ doing[s[1]] # doing'[s[1]]
  <2>1. CASE Timeout(r)
    <3>1. s = << r, 1 >>
      BY <1>0, <2>1 DEF TypeInv, Timeout
    <3>2. doing[r] = "wait" /\ doing'[r] = "exit"
      BY <1>0, <2>1 DEF TypeInv, Timeout, Goto
    <3>3. QED
      BY <3>1, <3>2, OwnServers
  <2>2. CASE Shutdown(r)
    <3>1. s[1] = r
      BY <2>2 DEF Shutdown, Own
    <3>2. doing[r] = "exit" /\ doing'[r] \in {"reap", "over"}
      BY <1>0, <2>2 DEF TypeInv, Shutdown, Goto
    <3>3. QED
      BY <3>1, <3>2, OwnServers
  <2>3. CASE Launch(r) \/ Kill(r)
    BY <1>0, <2>3 DEF TypeInv, Launch, Kill
  <2>4. CASE \/ Begin(r) \/ LaunchRaises(r) \/ Register(r) \/ WaitEnds(r)
             \/ WaitRaises(r) \/ Send(r) \/ Reply(r) \/ CallRaises(r)
             \/ Collect(r) \/ RetryRaises(r) \/ Reaped(r)
    BY <2>4 DEF Begin, LaunchRaises, Register, WaitEnds, WaitRaises, Send, Reply,
                CallRaises, Collect, RetryRaises, Reaped
  <2>5. QED
    BY <1>2, <2>1, <2>2, <2>3, <2>4 DEF Work
<1>3. ASSUME NEW r \in Runs, Probe(r) \/ RunKilled(r) PROVE FALSE
  BY <1>3 DEF Probe, RunKilled
<1>4. ASSUME NEW x \in Servers, Banner(x) \/ Listen(x) \/ Exits(x) PROVE FALSE
  BY <1>0, <1>4 DEF TypeInv, Banner, Listen, Exits
<1>5. QED
  BY <1>1, <1>2, <1>3, <1>4 DEF PoolNext

(* Whatever banners come before their servers listen, and whoever else uses  *)
(* the ports: a client has somebody to call on each of its ports, but for    *)
(* those that stopped and those that were announced too early; and a run     *)
(* stops its own servers only.                                               *)
THEOREM PortsAreShared == PoolSpec => PortsShared
<1>1. PoolInv /\ [PoolNext]_poolVars => [StopsOnlyOwn]_poolVars
  BY OwnOnly DEF StopsOnlyOwn
<1>2. PoolInv' => ClientsServed'
  BY DEF PoolInv, ReadyInv, ClientsServed
<1>3. PoolInv /\ PoolInv' /\ [PoolNext]_poolVars => [ClientsServed' /\ StopsOnlyOwn]_poolVars
  BY <1>1, <1>2
<1>4. QED
  BY <1>3, Invariance, PTL DEF PoolSpec, PortsShared
=============================================================================
