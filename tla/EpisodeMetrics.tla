---------------------------- MODULE EpisodeMetrics --------------------------
(***************************************************************************)
(* metrics/segmentation.py, joint.py, semantic.py and score.py: the row that *)
(* score_runs.py writes for one episode, one arm and one matcher.            *)
(*                                                                           *)
(* Times are natural numbers. A label stands for its normalised text. Ratios *)
(* are left as counts: a precision, a recall and an F1 are functions of the  *)
(* matches and of two lengths. An IoU is a number of parts of Whole, which   *)
(* every possible union divides.                                             *)
(***************************************************************************)
EXTENDS Integers, Sequences, FiniteSets, FiniteSetsExt, SequencesExt, Functions

CONSTANTS
  None,
  References,  \* spans of an annotation
  Predictions, \* what an arm wrote for an episode
  Similarity,  \* per pair of labels, in 0..Sure
  Sure,
  Matchers,    \* each with the similarity at which labels are equivalent
  Whole,       \* parts of an IoU
  Tolerance,   \* of a boundary
  Overlap,     \* IoU that a segmental match needs
  Thresholds,  \* IoUs of the dense caption score
  SampleStep   \* distance of two samples

VARIABLES predicted, reference, matcher, pc, row

vars == << predicted, reference, matcher, pc, row >>

-----------------------------------------------------------------------------
(* Spans.                                                                   *)

AtLeast0(n) == IF n < 0 THEN 0 ELSE n
Smaller(a, b) == IF a <= b THEN a ELSE b
Larger(a, b) == IF a >= b THEN a ELSE b
Distance(a, b) == IF a <= b THEN b - a ELSE a - b

Duration(span) == AtLeast0(span.end - span.start)
Intersection(a, b) == AtLeast0(Smaller(a.end, b.end) - Larger(a.start, b.start))
Union2(a, b) == Larger(a.end, b.end) - Smaller(a.start, b.start)

Iou(a, b) ==
  IF Union2(a, b) <= 0
    THEN IF a.start = b.start /\ a.end = b.end THEN Whole ELSE 0
    ELSE Intersection(a, b) * (Whole \div Union2(a, b))

(* validate_segmentation: not empty, no span backwards, none before the end  *)
(* of the one before.                                                        *)
Valid(spans) ==
  /\ spans # << >>
  /\ \A i \in 1..Len(spans) : spans[i].start <= spans[i].end
  /\ \A i \in 2..Len(spans) : spans[i - 1].end <= spans[i].start

(* internal_boundaries.                                                     *)
Cuts(spans) == [i \in 1..(Len(spans) - 1) |-> spans[i + 1].start]

Equivalent(left, right) == Similarity[left, right] >= matcher

-----------------------------------------------------------------------------
(* Boundaries and spans are matched in order.                               *)

Total(f, S) == FoldFunctionOnSet(+, 0, f, S)

(* _monotone_boundary_match: the most pairs, then the least error. best holds *)
(* both and the pairs; a tie leaves the predicted boundary out.              *)
BoundaryMatch(pred, true) ==
  LET Before(a, b) == a.count < b.count \/ (a.count = b.count /\ a.error > b.error)
      best[i \in 1..(Len(pred) + 1), j \in 1..(Len(true) + 1)] ==
        IF i > Len(pred) \/ j > Len(true) THEN [count |-> 0, error |-> 0, pairs |-> {}]
        ELSE
          LET error == Distance(pred[i], true[j])
              skip  == IF Before(best[i + 1, j], best[i, j + 1])
                         THEN best[i, j + 1] ELSE best[i + 1, j]
              next  == best[i + 1, j + 1]
              pair  == [count |-> next.count + 1, error |-> next.error + error,
                        pairs |-> {<< i, j >>} \cup next.pairs]
          IN  IF error <= Tolerance /\ Before(skip, pair) THEN pair ELSE skip
  IN  best[1, 1].pairs

(* _monotone_span_match: the largest sum of IoUs; a tie takes the pair.      *)
SpanMatch(spans, others) ==
  LET best[i \in 1..(Len(spans) + 1), j \in 1..(Len(others) + 1)] ==
        IF i > Len(spans) \/ j > Len(others) THEN [sum |-> 0, pairs |-> {}]
        ELSE
          LET next  == best[i + 1, j + 1]
              take  == [sum |-> next.sum + Iou(spans[i], others[j]),
                        pairs |-> {<< i, j >>} \cup next.pairs]
              left  == best[i + 1, j]
              right == best[i, j + 1]
          IN  IF take.sum >= left.sum /\ take.sum >= right.sum THEN take
              ELSE IF left.sum >= right.sum THEN left ELSE right
  IN  best[1, 1].pairs

(* segmentation_covering, times the total duration, which is not none.      *)
Covering(spans, others) ==
  LET Best(i) == Max({0} \cup {Iou(spans[i], others[j]) : j \in 1..Len(others)})
  IN  Total([i \in 1..Len(spans) |-> Duration(spans[i]) * Best(i)], 1..Len(spans))

-----------------------------------------------------------------------------
(* Labels in time.                                                          *)

SameRun(last, span) == last.end = span.start /\ last.text = span.text

(* collapse_spans.                                                          *)
Collapsed(spans) ==
  FoldLeft(LAMBDA out, span :
             IF out # << >> /\ SameRun(out[Len(out)], span)
               THEN [out EXCEPT ![Len(out)].end = span.end] ELSE Append(out, span),
           << >>, spans)

(* f1_at_iou: a prediction claims the reference it overlaps most, the first  *)
(* of these; when that is taken there is no other.                           *)
TruePositives(spans, others) ==
  LET pred == Collapsed(spans)
      ref  == Collapsed(others)
      At(i, j) == IF Equivalent(pred[i].text, ref[j].text) THEN Iou(pred[i], ref[j]) ELSE 0
      Claim(i) == CHOOSE j \in 1..Len(ref) :
                    /\ \A k \in 1..Len(ref) : At(i, k) <= At(i, j)
                    /\ \A k \in 1..(j - 1) : At(i, k) < At(i, j)
  IN  Cardinality({Claim(i) : i \in {k \in 1..Len(pred) : At(k, Claim(k)) >= Overlap}})

(* collapsed_labels.                                                        *)
CollapsedLabels(spans) ==
  FoldLeft(LAMBDA out, span :
             IF out # << >> /\ out[Len(out)] = span.text THEN out ELSE Append(out, span.text),
           << >>, spans)

Cost(left, right) == IF Equivalent(left, right) THEN 0 ELSE 1

(* edit_score: the distance of the two sequences of labels.                  *)
EditDistance(a, b) ==
  LET rows[i \in 0..Len(a), j \in 0..Len(b)] ==
        IF i = 0 THEN j ELSE IF j = 0 THEN i
        ELSE Min({rows[i - 1, j] + 1, rows[i, j - 1] + 1,
                  rows[i - 1, j - 1] + Cost(a[i], b[j])})
  IN  rows[Len(a), Len(b)]

(* label_at, twice the time: the first span there, or none.                  *)
LabelAt(spans, t) ==
  LET at == {i \in 1..Len(spans) : 2 * spans[i].start <= t /\ t < 2 * spans[i].end}
  IN  IF at = {} THEN None ELSE spans[Min(at)].text

(* mof: one sample in the middle of each whole step from the start of the    *)
(* annotation on, or of all of it if it is shorter. If it is a number of      *)
(* steps, the quotient may be rounded to just under that number.             *)
Start(others) == others[1].start
Span(others) == others[Len(others)].end - Start(others)
Spacing(others) == Smaller(SampleStep, Span(others))

SampleCounts(others) ==
  LET steps == Span(others) \div SampleStep
  IN  IF Span(others) <= 0 THEN {0}
      ELSE {Larger(1, n) : n \in {steps} \cup
                                (IF Span(others) % SampleStep = 0 THEN {steps - 1} ELSE {})}

SamplesRight(spans, others, count) ==
  LET right(k) ==
        LET t == 2 * Start(others) + (2 * k + 1) * Spacing(others)
        IN  /\ LabelAt(spans, t) # None /\ LabelAt(others, t) # None
            /\ Equivalent(LabelAt(spans, t), LabelAt(others, t))
  IN  Cardinality({k \in 0..(count - 1) : right(k)})

(* coverage_weighted_label_accuracy, times the total duration.               *)
TimeRight(spans, others) ==
  LET same(j) == {i \in 1..Len(spans) : Equivalent(spans[i].text, others[j].text)}
      matched(j) == Total([i \in same(j) |-> Intersection(spans[i], others[j])], same(j))
  IN  Total([j \in 1..Len(others) |-> Smaller(matched(j), Duration(others[j]))], 1..Len(others))

Caption(spans, ref, threshold) ==
  Max({0} \cup {Similarity[spans[i].text, ref.text] :
                i \in {k \in 1..Len(spans) : Iou(spans[k], ref) >= threshold}})

(* dense_caption_score, times the number of reference spans.                *)
DenseCaption(spans, others, threshold) ==
  Total([j \in 1..Len(others) |-> Caption(spans, others[j], threshold)], 1..Len(others))

-----------------------------------------------------------------------------
(* label_agreement: augmenting paths, in the order of the labels.            *)

RECURSIVE Augment(_, _, _, _)

(* Tries the references from j on for i. owners and visited go with it.      *)
Augment(edges, i, j, at) ==
  LET n == Len(edges[i])
  IN  IF j > n THEN [at EXCEPT !.found = FALSE]
      ELSE
        LET ref  == edges[i][j]
            seen == [at EXCEPT !.visited = @ \cup {ref}]
            free == IF ref \notin DOMAIN at.owners THEN [seen EXCEPT !.found = TRUE]
                    ELSE Augment(edges, at.owners[ref], 1, seen)
        IN  IF ref \in at.visited THEN Augment(edges, i, j + 1, at)
            ELSE IF free.found
              THEN [free EXCEPT !.owners = [o \in DOMAIN @ \cup {ref} |-> IF o = ref THEN i ELSE @[o]]]
              ELSE Augment(edges, i, j + 1, free)

Edges(spans, others) ==
  [i \in 1..Len(spans) |->
     SelectSeq([j \in 1..Len(others) |-> j],
               LAMBDA j : Equivalent(spans[i].text, others[j].text))]

(* A reference that is taken stays with its owner.                          *)
BugHits(spans, others) ==
  LET edges == Edges(spans, others)
      taken[i \in 0..Len(spans)] ==
        IF i = 0 THEN {}
        ELSE LET open == Range(edges[i]) \ taken[i - 1]
             IN  taken[i - 1] \cup (IF open = {} THEN {} ELSE {Min(open)})
  IN  Cardinality(taken[Len(spans)])

Hits(spans, others) ==
  LET edges == Edges(spans, others)
      after[i \in 0..Len(spans)] ==
        IF i = 0 THEN [owners |-> << >>, hits |-> 0]
        ELSE LET last == after[i - 1]
                 end  == Augment(edges, i, 1,
                           [owners |-> last.owners, visited |-> {}, found |-> FALSE])
             IN  [owners |-> end.owners, hits |-> last.hits + (IF end.found THEN 1 ELSE 0)]
  IN  after[Len(spans)].hits

-----------------------------------------------------------------------------
(* score_episode.                                                           *)

Values(spans, others, count) ==
  [cuts     |-> BoundaryMatch(Cuts(spans), Cuts(others)),
   matched  |-> SpanMatch(spans, others),
   found    |-> Covering(others, spans),
   invented |-> Covering(spans, others),
   positives |-> TruePositives(spans, others),
   distance |-> EditDistance(CollapsedLabels(spans), CollapsedLabels(others)),
   sampled  |-> count,
   samples  |-> SamplesRight(spans, others, count),
   time     |-> TimeRight(spans, others),
   captions |-> [t \in Thresholds |-> DenseCaption(spans, others, t)],
   hits     |-> Hits(spans, others)]

Failed(error) == [ok |-> FALSE, error |-> error, values |-> None]

Scored(spans, others) ==
  IF spans = << >> THEN {Failed("no prediction")}
  ELSE IF ~Valid(others) \/ ~Valid(spans) THEN {Failed("bad spans")}
  ELSE {[ok |-> TRUE, error |-> None, values |-> Values(spans, others, count)] :
          count \in SampleCounts(others)}

Init ==
  /\ predicted \in Predictions /\ reference \in References /\ matcher \in Matchers
  /\ pc = "open" /\ row = None

(* score_runs passes over an episode that nobody annotated.                 *)
Score ==
  /\ pc = "open" /\ pc' = "done"
  /\ row' \in IF reference = << >> THEN {None} ELSE Scored(predicted, reference)
  /\ UNCHANGED << predicted, reference, matcher >>

Next == Score

Spec == Init /\ [][Next]_vars

-----------------------------------------------------------------------------
(* What the scores mean.                                                    *)

TypeOK ==
  /\ pc = "open" => row = None
  /\ row # None => row.ok \in BOOLEAN /\ (row.ok <=> row.error = None)

IsScored == row # None /\ row.ok

(* Matchings that do not cross, of pairs that may be matched.                *)
InOrderMatchings(may) ==
  {pairs \in SUBSET may :
     \A p, q \in pairs : p = q \/ (p[1] < q[1] /\ p[2] < q[2]) \/ (q[1] < p[1] /\ q[2] < p[2])}

Indices(a, b) == (1..Len(a)) \X (1..Len(b))

(* Every attempt has a row: an arm cannot fail an episode out of its mean,   *)
(* by writing nothing or spans that overlap or run backwards.                *)
NoneDropped ==
  /\ TypeOK
  /\ pc = "done" /\ reference # << >> =>
       row # None /\ (row.ok <=> Valid(predicted) /\ Valid(reference))

(* Boundaries are matched as well as they can be without crossing: as many   *)
(* as possible, and with the least error among so many.                      *)
BoundariesBest ==
  IsScored =>
    LET pred == Cuts(predicted)
        true == Cuts(reference)
        error(pairs) == Total([p \in pairs |-> Distance(pred[p[1]], true[p[2]])], pairs)
        all  == InOrderMatchings({p \in Indices(pred, true) :
                                    Distance(pred[p[1]], true[p[2]]) <= Tolerance})
        cuts == row.values.cuts
    IN  /\ cuts \in all
        /\ \A other \in all :
             \/ Cardinality(other) < Cardinality(cuts)
             \/ Cardinality(other) = Cardinality(cuts) /\ error(other) >= error(cuts)

(* Spans are matched with the largest sum of IoUs that respects the order.   *)
SpansBest ==
  IsScored =>
    LET sum(pairs) ==
          Total([p \in pairs |-> Iou(predicted[p[1]], reference[p[2]])], pairs)
        all == InOrderMatchings(Indices(predicted, reference))
    IN  /\ row.values.matched \in all
        /\ \A other \in all : sum(other) <= sum(row.values.matched)

(* Both coverings are full for the same segments only, whatever their number *)
(* and however short the one that is missed or invented.                     *)
CoveringExact ==
  IsScored =>
    LET long(spans) == {<< s.start, s.end >> : s \in {t \in Range(spans) : t.start < t.end}}
        full(spans) == Whole * Total([i \in 1..Len(spans) |-> Duration(spans[i])], 1..Len(spans))
    IN  (row.values.found = full(reference) /\ row.values.invented = full(predicted))
          <=> long(predicted) = long(reference)

(* The edit distance is the least number of labels to insert, drop or        *)
(* replace, over all ways to keep some in order.                             *)
EditLeast ==
  IsScored =>
    LET a == CollapsedLabels(predicted)
        b == CollapsedLabels(reference)
        edits(pairs) == Len(a) + Len(b) - 2 * Cardinality(pairs)
                          + Cardinality({p \in pairs : ~Equivalent(a[p[1]], b[p[2]])})
    IN  row.values.distance = Min({edits(pairs) : pairs \in InOrderMatchings(Indices(a, b))})

(* As many predicted labels are matched as any one-to-one matching can, also *)
(* when equivalence is not transitive, so that their order does not count.   *)
LabelsBest ==
  IsScored =>
    LET may == {p \in Indices(predicted, reference) :
                  Equivalent(predicted[p[1]].text, reference[p[2]].text)}
        apart(pairs) == \A p, q \in pairs : p = q \/ (p[1] # q[1] /\ p[2] # q[2])
    IN  row.values.hits = Max({Cardinality(pairs) : pairs \in {s \in SUBSET may : apart(s)}})

(* A span cut in two.                                                       *)
CutAt(spans, i, t) ==
  SubSeq(spans, 1, i - 1)
    \o << [spans[i] EXCEPT !.end = t], [spans[i] EXCEPT !.start = t] >>
    \o SubSeq(spans, i + 1, Len(spans))

(* Cuts within a run of one label change no segmental F1 and no edit score,  *)
(* and labels that are only equivalent are not merged.                       *)
CutsIgnored ==
  IsScored =>
    /\ \A i \in 1..Len(predicted) :
         \A t \in (predicted[i].start + 1)..(predicted[i].end - 1) :
           LET cut == CutAt(predicted, i, t)
           IN  /\ TruePositives(cut, reference) = row.values.positives
               /\ Len(Collapsed(cut)) = Len(Collapsed(predicted))
               /\ CollapsedLabels(cut) = CollapsedLabels(predicted)
    /\ Range(CollapsedLabels(Collapsed(predicted))) = {s.text : s \in Range(predicted)}

(* Dropping a prediction never raises the recall of captions.                *)
DroppingNeverHelps ==
  IsScored =>
    \A i \in 1..Len(predicted), t \in Thresholds :
      DenseCaption(RemoveAt(predicted, i), reference, t) <= row.values.captions[t]

(* Samples and durations agree on the time that is labelled right, but for   *)
(* the steps within which a span begins or ends and for what is left of the  *)
(* annotation after the last step: time that no prediction covers is wrong,  *)
(* and none counts twice.                                                   *)
TimesAgree ==
  IsScored =>
    LET count == row.values.sampled
        step  == Spacing(reference)
        from(k) == Start(reference) + k * step
        edges == UNION {{s.start, s.end} : s \in Range(predicted) \cup Range(reference)}
        mixed == {k \in 0..(count - 1) : \E t \in edges : from(k) < t /\ t < from(k + 1)}
        sampled == step * row.values.samples
    IN  /\ sampled <= row.values.time + step * Cardinality(mixed)
        /\ row.values.time <= sampled + step * Cardinality(mixed)
                                + (Span(reference) - step * count)

(* A row is what its columns are called, and an arm gains nothing by how it  *)
(* cuts, drops or orders what it found, or by failing (metrics/score.py      *)
(* 60-100 and the functions it calls).                                      *)
ScoresTrue ==
  /\ NoneDropped /\ BoundariesBest /\ SpansBest /\ CoveringExact /\ EditLeast
  /\ LabelsBest /\ CutsIgnored /\ DroppingNeverHelps /\ TimesAgree
=============================================================================
