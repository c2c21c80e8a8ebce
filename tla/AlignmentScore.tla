--------------------------- MODULE AlignmentScore ---------------------------
(***************************************************************************)
(* The score of the predicted spans of one episode against the annotated   *)
(* ones: which label each span stands for, when a label occurs more than   *)
(* once, and what a missing label costs.  Labels are a sequence of texts,  *)
(* truth is a sequence with one span per label.                            *)
(***************************************************************************)
EXTENDS Integers, Sequences, FiniteSets, FiniteSetsExt

CONSTANT
  Ambiguous   \* ambiguous_policy: what to do if spans fit several labels

NoIndex == -1
Dist(x, y) == IF x < y THEN y - x ELSE x - y

(* A problem with the indices that came with the spans: some have none,    *)
(* or they are no labels of the list, not in its order, or of another text. *)
Scrambled(labels, predicted) ==
  \E k \in DOMAIN predicted :
    LET index == predicted[k].index
    IN  \/ index \notin DOMAIN labels
        \/ k > 1 /\ index <= predicted[k - 1].index
        \/ index \in DOMAIN labels /\ predicted[k].text # labels[index]

(* The largest ways to give spans a label of their text in the same order. *)
Matchings(labels, predicted) ==
  LET fits == {m \in UNION {[placed -> DOMAIN labels] : placed \in SUBSET DOMAIN predicted} :
                 /\ \A k \in DOMAIN m : labels[m[k]] = predicted[k].text
                 /\ \A j, k \in DOMAIN m : j < k => m[j] < m[k]}
  IN  {m \in fits : \A other \in fits : Cardinality(DOMAIN other) <= Cardinality(DOMAIN m)}

Explicit(predicted)   == \E k \in DOMAIN predicted : predicted[k].index # NoIndex
Candidates(labels, predicted) ==
  IF Explicit(predicted) THEN {[k \in DOMAIN predicted |-> predicted[k].index]}
  ELSE Matchings(labels, predicted)

(* More spans than labels, or scrambled indices, stop the scorer.          *)
Resolvable(labels, predicted) ==
  /\ Len(predicted) <= Len(labels)
  /\ Explicit(predicted) => ~Scrambled(labels, predicted)

(* Each label in turn takes the first span of its text after the last one  *)
(* taken; 0 if there is none.                                              *)
Greedy(labels, predicted) ==
  LET match[i \in 0 .. Len(labels)] ==
        IF i = 0 THEN [at |-> 0, cursor |-> 0]
        ELSE LET later == {k \in DOMAIN predicted :
                             k > match[i - 1].cursor /\ predicted[k].text = labels[i]}
             IN  IF later = {} THEN [match[i - 1] EXCEPT !.at = 0]
                 ELSE [at |-> Min(later), cursor |-> Min(later)]
  IN  [i \in DOMAIN labels |-> match[i].at]

(* The span of each label: by its index if there is one way to read it, in *)
(* the order of the texts otherwise.                                       *)
Attributed(labels, predicted) ==
  LET candidates == Candidates(labels, predicted)
      only       == CHOOSE m \in candidates : TRUE
  IN  IF Cardinality(candidates) > 1 THEN Greedy(labels, predicted)
      ELSE [i \in DOMAIN labels |->
              LET k == {k \in DOMAIN only : only[k] = i} IN IF k = {} THEN 0 ELSE Min(k)]

(* An episode without one reading is not scored, if that is the policy.    *)
Scorable(labels, truth, predicted) ==
  /\ Len(truth) = Len(labels)
  /\ Cardinality(Candidates(labels, predicted)) > 1 => Ambiguous = "text"

(* Temporal overlap, as a fraction.                                        *)
Overlap(left, right) ==
  LET union == Max({left.end, right.end}) - Min({left.start, right.start})
      both  == Min({left.end, right.end}) - Max({left.start, right.start})
  IN  IF union <= 0 THEN <<IF left.start = right.start THEN 1 ELSE 0, 1>>
      ELSE <<Max({0, both}), union>>

(* A missing boundary is as far off as an episode allows.                  *)
Worst(truth, i) ==
  Max({Dist(truth[i].start, truth[1].start), Dist(truth[Len(truth)].end, truth[i].start)})

(* evaluate_alignment: the error of the first label is fixed and left out. *)
Evaluation(truth, predicted, match) ==
  [overlap |-> [i \in DOMAIN match |->
                  IF match[i] = 0 THEN <<0, 1>> ELSE Overlap(predicted[match[i]], truth[i])],
   error   |-> [i \in DOMAIN match \ {1} |->
                  IF match[i] = 0 THEN Worst(truth, i)
                  ELSE Dist(predicted[match[i]].start, truth[i].start)],
   hits    |-> [within \in 0 .. Worst(truth, 1) |->
                  Cardinality({i \in DOMAIN match \ {1} :
                     match[i] # 0 /\ Dist(predicted[match[i]].start, truth[i].start) <= within})],
   placed  |-> Cardinality({i \in DOMAIN match : match[i] # 0})]

Score(labels, truth, predicted) ==
  Evaluation(truth, predicted, Attributed(labels, predicted))

(* The first score is in no respect better than the second.                *)
NoBetter(a, b) ==
  /\ a.placed <= b.placed
  /\ \A i \in DOMAIN a.overlap : a.overlap[i][1] * b.overlap[i][2] <= b.overlap[i][1] * a.overlap[i][2]
  /\ \A i \in DOMAIN a.error : a.error[i] >= b.error[i]
  /\ \A within \in DOMAIN a.hits : a.hits[within] <= b.hits[within]
=============================================================================
