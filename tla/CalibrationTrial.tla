-------------------------- MODULE CalibrationTrial --------------------------
(***************************************************************************)
(* The calibration tool: a file of recorded answers is read, the episodes  *)
(* worth fitting to are selected, the usual error of each boundary and the *)
(* usual length of each subtask are taken, and the result is tried on      *)
(* answers the way the plan module would apply it.  It is written only if  *)
(* there is an error to take out and the trial on episodes that it was not *)
(* fitted to is a gain.  A cover is a sequence of spans; all episodes have *)
(* the same length here, so that a fraction of an episode is a number of   *)
(* ticks.                                                                  *)
(***************************************************************************)
EXTENDS BoundarySolver, AlignmentScore

CONSTANTS
  MinFit, MaxFit,  \* bounds on the episodes a calibration is fitted to
  MinFirst,        \* min_first_boundary_mae, in ticks
  MinGain,         \* min_gain, in hundredths of the overlap
  Parts            \* parts of an overlap, which every union divides

LOCAL Error == << >>

(* A row is an attempt at an episode: its spans, or none if it failed.     *)
Failed(row) == row.spans = Error

(* Mistakes in a definition are named Bug...; nothing uses one.            *)
(* Any later row replaces an earlier one.                                  *)
BugLastWins(kept, row) ==
  [e \in DOMAIN kept \cup {row.episode} |-> IF e = row.episode THEN row ELSE kept[e]]

(* A later row replaces an earlier one of its episode, unless it failed    *)
(* and the earlier one did not.                                            *)
Resolved(kept, row) ==
  IF row.episode \in DOMAIN kept /\ Failed(row) /\ ~Failed(kept[row.episode]) THEN kept
  ELSE [e \in DOMAIN kept \cup {row.episode} |-> IF e = row.episode THEN row ELSE kept[e]]

Loaded(file) ==
  LET kept[k \in 0 .. Len(file)] == IF k = 0 THEN << >> ELSE Resolved(kept[k - 1], file[k])
  IN  kept[Len(file)]

(* Rows of two configurations are refused.                                 *)
Mixed(file) == \E j, k \in DOMAIN file : file[j].config # file[k].config

Duration(spans) == spans[Len(spans)].end - spans[1].start

(* unusable_episode_reason has nothing to say.                             *)
Usable(spans, truth) ==
  /\ Len(truth) >= 2 /\ Len(spans) = Len(truth)
  /\ \A cover \in {spans, truth} :
       /\ \A k \in DOMAIN cover : cover[k].start < cover[k].end
       /\ \A k \in DOMAIN cover \ {1} : cover[k - 1].start < cover[k].start
  /\ \A k \in DOMAIN truth : spans[k].label = truth[k].label

Schema(cover) == [k \in DOMAIN cover |-> cover[k].label]

(* The episodes with a usable row and the most frequent list of labels, as *)
(* for the label scope "exact"; the shortest one if several are.           *)
Cohort(rows, truth) ==
  LET usable    == {e \in DOMAIN rows \cap DOMAIN truth :
                      ~Failed(rows[e]) /\ Usable(rows[e].spans, truth[e])}
      having(s) == {e \in usable : Schema(truth[e]) = s}
      schemas   == {Schema(truth[e]) : e \in usable}
      modal     == {s \in schemas : \A t \in schemas : Cardinality(having(t)) <= Cardinality(having(s))}
  IN  IF usable = {} THEN {}
      ELSE having(CHOOSE s \in modal : \A t \in modal : Len(s) <= Len(t))

(* The mean of the two middle values, which are one if there is an odd     *)
(* number of them; rounded down to a tick.                                 *)
Median(values) ==
  LET half       == Cardinality(DOMAIN values)
      atMost(v)  == Cardinality({f \in DOMAIN values : values[f] <= v})
      below(v)   == Cardinality({f \in DOMAIN values : values[f] < v})
      middle     == {values[e] : e \in {e \in DOMAIN values :
                       2 * below(values[e]) <= half /\ 2 * atMost(values[e]) >= half}}
  IN  (Min(middle) + Max(middle)) \div 2

(* The start of a label and the end of the one before it.                  *)
Boundary(cover, i) == IF i < Len(cover) THEN cover[i + 1].start ELSE cover[Len(cover)].end

NoModel == [offsets |-> << >>, lengths |-> << >>]

(* What is fitted to a cohort: label i, counted from 0, starts at span     *)
(* i + 1 of a cover.  Without the prior there are no lengths.              *)
FittedModel(rows, truth, cohort, prior) ==
  LET n == Len(truth[CHOOSE e \in cohort : TRUE])
      error(i)  == [e \in cohort |-> rows[e].spans[i + 1].start - truth[e][i + 1].start]
      length(i) == [e \in cohort |-> Boundary(truth[e], i + 1)
                      - IF i = 0 THEN truth[e][1].start ELSE Boundary(truth[e], i)]
  IN  [offsets |-> [i \in 1 .. n - 1 |-> Median(error(i))],
       lengths |-> IF prior THEN [i \in 0 .. n - 1 |-> Median(length(i))] ELSE << >>]

-----------------------------------------------------------------------------
(* The trial of a calibration on an answer. *)

Corrected(cover, model, i) ==
  IF i \notin DOMAIN model.offsets THEN cover[i + 1].start
  ELSE Max({cover[1].start, Min({cover[i + 1].start - model.offsets[i], cover[Len(cover)].end})})

(* The starts of the labels after the first: solved for, or corrected one  *)
(* by one if lengths are missing or do not fit.                            *)
TrialStarts(cover, model) ==
  LET n   == Len(cover)
      aim == [i \in 1 .. n - 1 |-> Corrected(cover, model, i)]
  IN  IF DOMAIN model.lengths = 0 .. n - 1 /\ n > 1 /\ Duration(cover) > 0
      THEN Solutions(cover[1].start, cover[n].end, aim, model.lengths)
      ELSE {aim}

(* A label that does not start after all before it is dropped, and the     *)
(* rest covers the episode.                                                *)
Tried(cover, starts) ==
  LET start(i)  == IF i = 0 THEN cover[1].start ELSE starts[i]
      kept      == {i \in 0 .. Len(cover) - 1 : \A j \in 0 .. i - 1 : start(j) < start(i)}
      later(i)  == {start(j) : j \in {j \in kept : j > i}}
  IN  {[label |-> cover[i + 1].label, start |-> start(i),
        end |-> IF later(i) = {} THEN cover[Len(cover)].end ELSE Min(later(i))] : i \in kept}

Trials(cover, model) == {Tried(cover, starts) : starts \in TrialStarts(cover, model)}

-----------------------------------------------------------------------------
(* Whether the calibration is written. *)

(* The overlap of each label after a trial, summed up.                     *)
Covered(tried, cover) ==
  MapThenSumSet(
    LAMBDA k : LET found == {s \in tried : s.label = cover[k].label}
                   both  == Overlap(CHOOSE s \in found : TRUE, cover[k])
               IN  IF found = {} THEN 0 ELSE both[1] * (Parts \div both[2]),
    DOMAIN cover)

Uncorrected(cover) == [offsets |-> [i \in 1 .. Len(cover) - 1 |-> 0], lengths |-> << >>]

(* What a model adds to the overlap of an answer.  If several solutions    *)
(* are equally cheap, it depends on which one the solver returns.          *)
Gains(spans, cover, model) ==
  {Covered(tried, cover) - Covered(plain, cover) :
     tried \in Trials(spans, model), plain \in Trials(spans, Uncorrected(spans))}

(* The least or the greatest gain on an episode that the model was not     *)
(* fitted to, added up over the cohort.                                    *)
HeldOut(Best(_), rows, truth, cohort, prior) ==
  MapThenSumSet(
    LAMBDA e : Best(Gains(rows[e].spans, truth[e],
                          FittedModel(rows, truth, cohort \ {e}, prior))),
    cohort)

(* The gain is known for three episodes or more.                           *)
GainsEnough(Best(_), rows, truth, cohort, prior) ==
  Cardinality(cohort) > 2 =>
    100 * HeldOut(Best, rows, truth, cohort, prior) >=
      MinGain * Parts * Cardinality(cohort) * Len(truth[CHOOSE e \in cohort : TRUE])

(* The first boundary is off far enough, on average.                       *)
ErrsEnough(rows, truth, cohort) ==
  MapThenSumSet(LAMBDA e : Abs(rows[e].spans[2].start - truth[e][2].start), cohort)
    >= MinFirst * Cardinality(cohort)

(* What may be written, NoModel for nothing: with too many or too few      *)
(* episodes there is nothing to fit; a calibration that is not recommended *)
(* is only written if that is forced.                                      *)
Fits(rows, truth, prior, forced) ==
  LET cohort == Cohort(rows, truth)
      errs   == ErrsEnough(rows, truth, cohort)
  IN  IF Cardinality(DOMAIN rows) > MaxFit \/ Cardinality(cohort) < MinFit THEN {NoModel}
      ELSE {m \in {NoModel, FittedModel(rows, truth, cohort, prior)} :
              IF m = NoModel
              THEN ~forced /\ ~(errs /\ GainsEnough(Min, rows, truth, cohort, prior))
              ELSE forced \/ (errs /\ GainsEnough(Max, rows, truth, cohort, prior))}

(* From a file that is mixed nothing is written.                           *)
Calibrations(file, truth, prior, forced) ==
  IF Mixed(file) THEN {NoModel} ELSE Fits(Loaded(file), truth, prior, forced)

(* _load_align_calibration takes what the tool writes.                     *)
Accepted(model) ==
  /\ model.offsets # << >>
  /\ model.lengths # << >> =>
       /\ Cardinality(DOMAIN model.lengths) = Cardinality(DOMAIN model.offsets) + 1
       /\ \A i \in DOMAIN model.lengths : model.lengths[i] >= 0
=============================================================================
