---------------------------- MODULE LabelScoring ----------------------------
(***************************************************************************)
(* The two ways to decide whether two labels say the same, of which an      *)
(* evaluation takes one: a judge, whose verdicts are kept in a file         *)
(* (JudgeCache), or a similarity of the labels, with which the row of an    *)
(* episode is computed at once (EpisodeMetrics).                            *)
(***************************************************************************)
EXTENDS JudgeCache

CONSTANTS
  References, Predictions,               \* see EpisodeMetrics
  Similarity, Sure, Matchers,
  Whole, Tolerance, Overlap, Thresholds, SampleStep

VARIABLES
  spans, reference, matcher, row,        \* the episode, its matcher and its row
  step                                   \* open, done; or judged: the matcher is the judge

Metrics == INSTANCE EpisodeMetrics WITH predicted <- spans, pc <- step

Times ==
  UNION {UNION {{r[i].start, r[i].end} : i \in DOMAIN r} : r \in References \cup Predictions}

ASSUME MetricsAssumption ==
  /\ Times \subseteq Nat /\ None \notin Predictions
  /\ \A u \in 1..(Max(Times) - Min(Times)) : Whole % u = 0
  /\ Overlap \in 1..Whole /\ Thresholds \subseteq 1..Whole
  /\ SampleStep \in Nat \ {0}

episode == << spans, reference, matcher, row, step >>

WithJudge ==
  /\ step = "judged" /\ spans = << >> /\ reference = << >> /\ matcher = None /\ row = None

LabelsInit == Init /\ (WithJudge \/ Metrics!Init)

LabelsNext ==
  \/ step = "judged" /\ Next /\ UNCHANGED episode
  \/ Metrics!Next /\ UNCHANGED vars

LabelsSpec == LabelsInit /\ [][LabelsNext]_<< vars, episode >> /\ WF_vars(step = "judged" /\ Work)

(* The row of an episode, with a matcher that needs no judge.                *)
ScoresTrue == Metrics!ScoresTrue
=============================================================================
